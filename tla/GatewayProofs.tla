---------------------------- MODULE GatewayProofs ----------------------------
(***************************************************************************)
(* What a request is answered with, what it may change, how long it takes, *)
(* what is counted of it and which models it tries in which order, for any *)
(* requests, configurations, replies and number of reloads.                *)
(***************************************************************************)
EXTENDS Gateway, OperatorTheorems, TLAPS

\* The cache keeps each answer under what was asked for it.
CacheFits(m) ==
    /\ DOMAIN m = {"entries", "bytes"}
    /\ \A k \in DOMAIN m.entries :
        DOMAIN m.entries[k] = {"value", "size", "ttl"} /\ m.entries[k].value = k

RuntimeFits(rt) ==
    /\ DOMAIN rt = {"cfg", "health", "pools", "cache"}
    /\ CacheFits(rt.cache)

Fields == DOMAIN Arrived(1, 1)

\* The answer of q is one to what q asks, and no replay of a call of tools.
AnswerFits(cfg, q) ==
    q.answer.kind = "success" =>
        /\ q.answer.asked = Asked(cfg.models[q.answer.alias], q.in)
        /\ q.answer.fresh \/ q.answer.asked.request.knob # "tools"

\* A request has not come, works on a runtime state, or has an answer that fits.
RequestFits(rts, q) ==
    \/ q = Idle
    \/ DOMAIN q = Fields /\ q.gen \in DOMAIN rts /\ q.pc \notin {"idle", "done"}
    \/ q.pc = "done" /\ q.gen \in DOMAIN rts /\ AnswerFits(rts[q.gen].cfg, q)

IInv ==
    /\ (\E S : runtimes \in Seq(S)) /\ Len(runtimes) > 0
    /\ \A g \in DOMAIN runtimes : RuntimeFits(runtimes[g])
    /\ DOMAIN req = Requests
    /\ \A r \in Requests : RequestFits(runtimes, req[r])

-----------------------------------------------------------------------------
(* The cache.                                                              *)

LEMMA DropsFit ==
    ASSUME NEW m, CacheFits(m), NEW ks
    PROVE  CacheFits(DropAll(m, ks))
<1> DEFINE d == DropAll(m, ks)
<1>1. /\ DOMAIN d = {"entries", "bytes"}
      /\ DOMAIN d.entries = DOMAIN m.entries \ ks
      /\ \A j \in DOMAIN m.entries \ ks : d.entries[j] = m.entries[j]
    BY DEF DropAll, F!Restrict
<1> HIDE DEF d
<1> QED BY <1>1 DEF CacheFits, d

LEMMA SetFits ==
    ASSUME NEW caps, NEW m, CacheFits(m), NEW k, NEW size, NEW ttl,
           NEW o \in SetOutcomes(caps, m, k, k, size, ttl)
    PROVE  CacheFits(o.mem)
<1> DEFINE ready == BeforeStore(m, k)
<1>1. CASE Refuses(caps, size, ttl)
    BY <1>1 DEF SetOutcomes
<1>2. CASE ~Refuses(caps, size, ttl)
    <2>1. CacheFits(Prune(m))
        BY DropsFit DEF Prune
    <2>2. CacheFits(ready)
        BY <2>1, DropsFit DEF BeforeStore
    <2>3. \A V : CacheFits(DropAll(ready, V))
        BY <2>2, DropsFit
    <2>4. \/ o.mem = DropAll(ready, DOMAIN ready.entries)
          \/ \E V : o.mem = Store(DropAll(ready, V), k, k, size, ttl)
        BY <1>2 DEF SetOutcomes
    <2> HIDE DEF ready
    <2>5. ASSUME NEW d, CacheFits(d) PROVE CacheFits(Store(d, k, k, size, ttl))
        <3> DEFINE s == Store(d, k, k, size, ttl)
        <3>1. /\ DOMAIN s = {"entries", "bytes"}
              /\ s.entries = [j \in DOMAIN d.entries \cup {k} |->
                                IF j = k THEN [value |-> k, size |-> size, ttl |-> ttl]
                                ELSE d.entries[j]]
            BY DEF Store
        <3> HIDE DEF s
        <3> QED BY <2>5, <3>1 DEF CacheFits, s
    <2> QED BY <2>3, <2>4, <2>5
<1> QED BY <1>1, <1>2

LEMMA AgesFit == ASSUME NEW m, CacheFits(m) PROVE CacheFits(ElapseCache(m))
<1> DEFINE aged(e) == [e EXCEPT !.ttl = IF @ = 0 THEN 0 ELSE @ - 1]
           a == ElapseCache(m)
<1>1. \A f, x : "entries" \in DOMAIN f =>
        [f EXCEPT !.entries = x].entries = x /\ DOMAIN [f EXCEPT !.entries = x] = DOMAIN f
    OBVIOUS
<1>2. a = [m EXCEPT !.entries = [j \in DOMAIN m.entries |-> aged(m.entries[j])]]
    BY DEF ElapseCache
<1>3. ASSUME NEW e, DOMAIN e = {"value", "size", "ttl"}
      PROVE  DOMAIN aged(e) = DOMAIN e /\ aged(e).value = e.value
    BY <1>3
<1> HIDE DEF a, aged
<1>4. a.entries = [j \in DOMAIN m.entries |-> aged(m.entries[j])] /\ DOMAIN a = DOMAIN m
    BY <1>1, <1>2 DEF CacheFits
<1> QED BY <1>3, <1>4 DEF CacheFits, a

-----------------------------------------------------------------------------
(* The frame of what one request does.                                     *)

\* Request r works on the runtime state it captured.
Works(r) == DOMAIN req[r] = Fields /\ Gen(r) \in DOMAIN runtimes /\ req[r].pc \notin {"idle", "done"}

LEMMA BusyWorks ==
    ASSUME IInv, NEW r \in Requests, InProgress(r) PROVE Works(r)
BY DEF IInv, RequestFits, Idle, InProgress, Works, Gen

\* Of the runtime states only the one r captured changes, and it keeps its
\* configuration and a cache that fits.
Learns(r) ==
    /\ (\E S : runtimes' \in Seq(S)) /\ Len(runtimes') = Len(runtimes)
    /\ \A g \in DOMAIN runtimes \ {req[r].gen} : runtimes'[g] = runtimes[g]
    /\ \A g \in DOMAIN runtimes : RuntimeFits(runtimes'[g]) /\ runtimes'[g].cfg = runtimes[g].cfg

PoolsKept == \A g \in DOMAIN runtimes : runtimes'[g].pools = runtimes[g].pools

LEMMA LearnsNothing ==
    ASSUME IInv, NEW r \in Requests, UNCHANGED runtimes
    PROVE  Learns(r) /\ PoolsKept
BY DEF IInv, Learns, PoolsKept

LEMMA Replaces ==
    ASSUME IInv, NEW r \in Requests, Works(r), NEW s, RuntimeFits(s), s.cfg = Rt(r).cfg,
           runtimes' = [runtimes EXCEPT ![Gen(r)] = s]
    PROVE  Learns(r) /\ (s.pools = Rt(r).pools => PoolsKept)
<1>1. PICK S : runtimes \in Seq(S)
    BY DEF IInv
<1>2. runtimes' \in Seq(S \cup {s}) /\ Len(runtimes') = Len(runtimes)
    BY <1>1 DEF Works
<1>3. \A g \in DOMAIN runtimes : runtimes'[g] = IF g = Gen(r) THEN s ELSE runtimes[g]
    OBVIOUS
<1>4. Learns(r)
    BY <1>2, <1>3 DEF IInv, Learns, Gen, Rt
<1> QED BY <1>3, <1>4 DEF PoolsKept, Rt

LEMMA LearnsOfKeys ==
    ASSUME IInv, NEW r \in Requests, Works(r), NEW p, runtimes' = WithPool(r, p)
    PROVE  Learns(r)
<1> DEFINE s == [Rt(r) EXCEPT !.pools[Model(r).provider] = p]
<1>1. runtimes' = [runtimes EXCEPT ![Gen(r)] = s]
    BY DEF WithPool, Rt
<1>2. RuntimeFits(Rt(r))
    BY DEF IInv, Works, Rt
<1>3. RuntimeFits(s) /\ s.cfg = Rt(r).cfg
    BY <1>2 DEF RuntimeFits
<1> HIDE DEF s
<1> QED BY <1>1, <1>3, Replaces

LEMMA LearnsOfModels ==
    ASSUME IInv, NEW r \in Requests, Works(r), NEW h, runtimes' = WithHealth(r, h)
    PROVE  Learns(r) /\ PoolsKept
<1> DEFINE s == [Rt(r) EXCEPT !.health = h]
<1>1. runtimes' = [runtimes EXCEPT ![Gen(r)] = s]
    BY DEF WithHealth, Rt
<1>2. RuntimeFits(Rt(r))
    BY DEF IInv, Works, Rt
<1>3. RuntimeFits(s) /\ s.cfg = Rt(r).cfg /\ s.pools = Rt(r).pools
    BY <1>2 DEF RuntimeFits
<1> HIDE DEF s
<1> QED BY <1>1, <1>3, Replaces

LEMMA LearnsAnswer ==
    ASSUME IInv, NEW r \in Requests, Works(r), NEW c, CacheFits(c), runtimes' = WithCache(r, c)
    PROVE  Learns(r) /\ PoolsKept
<1> DEFINE s == [Rt(r) EXCEPT !.cache = c]
<1>1. runtimes' = [runtimes EXCEPT ![Gen(r)] = s]
    BY DEF WithCache, Rt
<1>2. RuntimeFits(Rt(r))
    BY DEF IInv, Works, Rt
<1>3. RuntimeFits(s) /\ s.cfg = Rt(r).cfg /\ s.pools = Rt(r).pools
    BY <1>2 DEF RuntimeFits
<1> HIDE DEF s
<1> QED BY <1>1, <1>3, Replaces

\* No request but r changes.
OnlyMoves(r) == DOMAIN req' = Requests /\ \A x \in Requests \ {r} : req'[x] = req[x]

\* r goes on, on the runtime state it captured.
WorksOn(r) ==
    /\ OnlyMoves(r)
    /\ DOMAIN req'[r] = Fields /\ req'[r].gen = Gen(r) /\ req'[r].pc \notin {"idle", "done"}

\* All that is to be shown of a step of request r.
Kept(r) ==
    /\ Learns(r) /\ OnlyMoves(r) /\ RequestFits(runtimes, req'[r])
    /\ EndsForCapacity(r) => PoolsKept

StaysHome ==
    \A r \in Requests : Moves(r) /\ InProgress(r) =>
        \A g \in DOMAIN runtimes \ {req[r].gen} : runtimes'[g] = runtimes[g]

SparesKeys == \A r \in Requests : EndsForCapacity(r) => PoolsKept

\* All that is to be shown of a step.
Good == IInv' /\ StaysHome /\ SparesKeys

LEMMA KeptIsGood == ASSUME IInv, NEW r \in Requests, Kept(r) PROVE Good
<1>1. ASSUME NEW x \in Requests PROVE RequestFits(runtimes, req'[x])
    BY <1>1 DEF IInv, Kept, OnlyMoves
<1>2. DOMAIN runtimes' = DOMAIN runtimes
    BY DEF IInv, Kept, Learns
<1>3. \A g \in DOMAIN runtimes : runtimes'[g].cfg = runtimes[g].cfg
    BY DEF Kept, Learns
<1>4. ASSUME NEW x \in Requests PROVE RequestFits(runtimes', req'[x])
    BY <1>1, <1>2, <1>3 DEF RequestFits
<1>5. IInv'
    BY <1>2, <1>4 DEF IInv, Kept, Learns, OnlyMoves
<1>6. ASSUME NEW x \in Requests, Moves(x) PROVE x = r
    BY <1>6 DEF Moves, Kept, OnlyMoves
<1>7. StaysHome
    BY <1>6 DEF StaysHome, Kept, Learns
<1>8. SparesKeys
    BY <1>6 DEF SparesKeys, EndsForCapacity, Kept
<1> QED BY <1>5, <1>7, <1>8 DEF Good

LEMMA WorkFits ==
    ASSUME NEW r \in Requests, Works(r), WorksOn(r) PROVE OnlyMoves(r) /\ RequestFits(runtimes, req'[r])
BY DEF Works, WorksOn, RequestFits, Gen

LEMMA EndFits ==
    ASSUME IInv, NEW r \in Requests, Works(r), NEW a, req' = EndedWith(r, a),
           a.kind = "success" =>
                /\ a.asked = Asked(Rt(r).cfg.models[a.alias], req[r].in)
                /\ a.fresh \/ a.asked.request.knob # "tools"
    PROVE  OnlyMoves(r) /\ RequestFits(runtimes, req'[r])
<1>1. OnlyMoves(r) /\ req'[r] = [pc |-> "done", gen |-> Gen(r), in |-> req[r].in, answer |-> a]
    BY DEF IInv, EndedWith, OnlyMoves, Gen
<1>2. AnswerFits(Rt(r).cfg, req'[r])
    BY <1>1 DEF AnswerFits
<1> QED BY <1>1, <1>2 DEF RequestFits, Works, Rt

LEMMA FailureFits ==
    ASSUME IInv, NEW r \in Requests, Works(r), NEW m, FailRequest(r, m)
    PROVE  OnlyMoves(r) /\ RequestFits(runtimes, req'[r]) /\ req'[r].pc = "done"
<1>1. req' = EndedWith(r, Error) /\ Error.kind # "success"
    BY DEF FailRequest, Error
<1>2. OnlyMoves(r) /\ RequestFits(runtimes, req'[r])
    BY <1>1, EndFits
<1>3. req'[r].pc = "done"
    BY <1>1 DEF EndedWith, IInv
<1> QED BY <1>2, <1>3

LEMMA NextCandidateWorks ==
    ASSUME IInv, NEW r \in Requests, Works(r), req' = NextCandidate(r)
    PROVE  WorksOn(r) /\ req'[r].pc = "candidate"
<1> DEFINE q == Arrived(req[r].gen, req[r].in)
<1>1. req'[r] = [q EXCEPT !.pc = "candidate", !.plan = req[r].plan, !.ci = req[r].ci + 1,
                          !.spent = req[r].spent] /\ OnlyMoves(r)
    BY DEF NextCandidate, IInv, OnlyMoves
<1>2. DOMAIN q = Fields /\ q.gen = Gen(r) /\ {"pc", "plan", "ci", "spent", "gen"} \subseteq DOMAIN q
    BY DEF Fields, Arrived, Gen
<1> HIDE DEF q
<1> QED BY <1>1, <1>2 DEF WorksOn

LEMMA NextTryWorks ==
    ASSUME IInv, NEW r \in Requests, Works(r), req' = NextTry(r)
    PROVE  WorksOn(r) /\ req'[r].pc = "keys"
BY DEF IInv, Works, WorksOn, OnlyMoves, Gen, NextTry, Fields, Arrived

LEMMA ToChargeWorks ==
    ASSUME IInv, NEW r \in Requests, Works(r), NEW ra, req' = ToCharge(r, ra)
    PROVE  WorksOn(r)
BY DEF IInv, Works, WorksOn, OnlyMoves, Gen, ToCharge, Fields, Arrived

-----------------------------------------------------------------------------
(* The steps of a request.                                                 *)

LEMMA AcceptKept == ASSUME IInv, NEW r \in Requests, NEW in, Accept(r, in) PROVE Kept(r)
<1>1. Learns(r) /\ PoolsKept
    BY LearnsNothing DEF Accept
<1>2. OnlyMoves(r) /\ req'[r] = Arrived(Len(runtimes), in)
    BY DEF Accept, OnlyMoves, IInv
<1>3. RequestFits(runtimes, req'[r])
    BY <1>2 DEF RequestFits, IInv, Fields, Arrived
<1> QED BY <1>1, <1>2, <1>3 DEF Kept

LEMMA BadRequestKept == ASSUME IInv, NEW r \in Requests, BadRequest(r) PROVE Kept(r)
<1>1. Works(r)
    BY BusyWorks DEF BadRequest, InProgress
<1>2. OnlyMoves(r) /\ RequestFits(runtimes, req'[r])
    BY <1>1, FailureFits DEF BadRequest
<1> QED BY <1>2, LearnsNothing DEF BadRequest, Kept

LEMMA PlanKept == ASSUME IInv, NEW r \in Requests, Plan(r) PROVE Kept(r)
<1>1. Works(r)
    BY BusyWorks DEF Plan, InProgress
<1>2. \/ \E m : FailRequest(r, m)
      \/ \E plan : req' = [req EXCEPT ![r].pc = "candidate", ![r].plan = plan, ![r].ci = 1]
    BY DEF Plan
<1>3. ASSUME NEW plan, req' = [req EXCEPT ![r].pc = "candidate", ![r].plan = plan, ![r].ci = 1]
      PROVE  WorksOn(r)
    BY <1>1, <1>3 DEF IInv, Works, WorksOn, OnlyMoves, Gen, Fields, Arrived
<1>4. OnlyMoves(r) /\ RequestFits(runtimes, req'[r])
    BY <1>1, <1>2, <1>3, FailureFits, WorkFits
<1> QED BY <1>4, LearnsNothing DEF Plan, Kept

LEMMA ExhaustedKept == ASSUME IInv, NEW r \in Requests, Exhausted(r) PROVE Kept(r)
<1>1. Works(r)
    BY BusyWorks DEF Exhausted, InProgress
<1>2. OnlyMoves(r) /\ RequestFits(runtimes, req'[r])
    BY <1>1, FailureFits DEF Exhausted
<1> QED BY <1>2, LearnsNothing DEF Exhausted, Kept

LEMMA CountFallbackKept == ASSUME IInv, NEW r \in Requests, CountFallback(r) PROVE Kept(r)
<1>1. Works(r)
    BY BusyWorks DEF CountFallback, InProgress
<1>2. WorksOn(r)
    BY <1>1 DEF CountFallback, IInv, Works, WorksOn, OnlyMoves, Gen, Fields, Arrived
<1>3. OnlyMoves(r) /\ RequestFits(runtimes, req'[r])
    BY <1>1, <1>2, WorkFits
<1> QED BY <1>3, LearnsNothing DEF CountFallback, Kept

LEMMA OutOfTimeKept == ASSUME IInv, NEW r \in Requests, OutOfTime(r) PROVE Kept(r)
<1>1. Works(r)
    BY BusyWorks DEF OutOfTime, HasTurn, InProgress
<1>2. OnlyMoves(r) /\ RequestFits(runtimes, req'[r])
    BY <1>1, FailureFits DEF OutOfTime
<1> QED BY <1>2, LearnsNothing DEF OutOfTime, Kept

LEMMA CannotPatchKept == ASSUME IInv, NEW r \in Requests, CannotPatch(r) PROVE Kept(r)
<1>1. Works(r)
    BY BusyWorks DEF CannotPatch, HasTurn, InProgress
<1>2. OnlyMoves(r) /\ RequestFits(runtimes, req'[r])
    BY <1>1, FailureFits DEF CannotPatch
<1> QED BY <1>2, LearnsNothing DEF CannotPatch, Kept

\* An answer from the cache is what was asked, and asks for no tools.
LEMMA TryCandidateKept == ASSUME IInv, NEW r \in Requests, TryCandidate(r) PROVE Kept(r)
<1>1. Works(r)
    BY BusyWorks DEF TryCandidate, HasTurn, InProgress
<1>2. ~EndsForCapacity(r)
    BY DEF TryCandidate, HasTurn, EndsForCapacity
<1> DEFINE use == Cacheable(Rt(r).cfg, Model(r), req[r].in)
           k == CacheKey(Model(r), req[r].in)
           hit == Answer(r, FALSE, Rt(r).cache.entries[k].value)
<1>3. CacheFits(Rt(r).cache)
    BY <1>1 DEF IInv, RuntimeFits, Works, Rt
<1>4. CASE use /\ IsHit(Rt(r).cache, k)
    <2>1. req' = EndedWith(r, hit) /\ UNCHANGED runtimes
        BY <1>4 DEF TryCandidate
    <2>2. Rt(r).cache.entries[k].value = k
        BY <1>3, <1>4 DEF CacheFits, IsHit
    <2>3. hit.alias = Alias(r) /\ hit.asked = Asked(Rt(r).cfg.models[Alias(r)], req[r].in)
        BY <2>2 DEF Answer, CacheKey, Model
    <2> HIDE DEF hit
    <2>4. hit.asked.request.knob # "tools"
        <3>1. Patched(Model(r), req[r].in).knob # "tools"
            BY <1>4 DEF Cacheable
        <3>2. hit.asked.request = Patched(Model(r), req[r].in)
            BY <2>3 DEF Asked, Model
        <3> QED BY <3>1, <3>2
    <2>5. OnlyMoves(r) /\ RequestFits(runtimes, req'[r])
        BY <1>1, <2>1, <2>3, <2>4, EndFits
    <2> QED BY <1>2, <2>1, <2>5, LearnsNothing DEF Kept
<1>5. CASE ~(use /\ IsHit(Rt(r).cache, k))
    <2>1. PICK b : req' = [req EXCEPT ![r].pc = "keys", ![r].budget = b]
        BY <1>5 DEF TryCandidate
    <2>2. WorksOn(r)
        BY <1>1, <2>1 DEF IInv, Works, WorksOn, OnlyMoves, Gen, Fields, Arrived
    <2>3. CacheFits(AfterGet(Rt(r).cache, k))
        BY <1>3, DropsFit DEF AfterGet
    <2>4. \/ UNCHANGED runtimes
          \/ runtimes' = WithCache(r, AfterGet(Rt(r).cache, k))
        BY <1>5 DEF TryCandidate
    <2>5. Learns(r)
        BY <1>1, <2>3, <2>4, LearnsNothing, LearnsAnswer
    <2> QED BY <1>1, <1>2, <2>2, <2>5, WorkFits DEF Kept
<1> QED BY <1>4, <1>5

LEMMA KeysExhaustedKept == ASSUME IInv, NEW r \in Requests, KeysExhausted(r) PROVE Kept(r)
<1>1. Works(r)
    BY BusyWorks DEF KeysExhausted, InProgress
<1>2. WorksOn(r)
    BY <1>1, NextCandidateWorks DEF KeysExhausted
<1> QED BY <1>1, <1>2, WorkFits, LearnsNothing DEF KeysExhausted, Kept

LEMMA TakeKeyKept == ASSUME IInv, NEW r \in Requests, TakeKey(r) PROVE Kept(r)
<1>1. Works(r)
    BY BusyWorks DEF TakeKey, InProgress
<1>2. \/ req' = NextCandidate(r)
      \/ \E k : req' = [req EXCEPT ![r].pc = "flight", ![r].key = k, ![r].timer = req[r].budget]
    BY DEF TakeKey
<1>3. ASSUME NEW k, req' = [req EXCEPT ![r].pc = "flight", ![r].key = k, ![r].timer = req[r].budget]
      PROVE  WorksOn(r)
    BY <1>1, <1>3 DEF IInv, Works, WorksOn, OnlyMoves, Gen, Fields, Arrived
<1>4. WorksOn(r)
    BY <1>1, <1>2, <1>3, NextCandidateWorks
<1>5. Learns(r)
    BY <1>1, LearnsOfKeys DEF TakeKey
<1>6. ~EndsForCapacity(r)
    BY DEF TakeKey, EndsForCapacity
<1> QED BY <1>1, <1>4, <1>5, <1>6, WorkFits DEF Kept

LEMMA AttemptCanceledKept == ASSUME IInv, NEW r \in Requests, AttemptCanceled(r) PROVE Kept(r)
<1>1. Works(r)
    BY BusyWorks DEF AttemptCanceled, InProgress
<1>2. OnlyMoves(r) /\ RequestFits(runtimes, req'[r])
    BY <1>1, FailureFits DEF AttemptCanceled
<1> QED BY <1>2, LearnsNothing DEF AttemptCanceled, Kept

LEMMA AttemptTimesOutKept == ASSUME IInv, NEW r \in Requests, AttemptTimesOut(r) PROVE Kept(r)
<1>1. Works(r)
    BY BusyWorks DEF AttemptTimesOut, InProgress
<1>2. WorksOn(r)
    BY <1>1, ToChargeWorks DEF AttemptTimesOut
<1> QED BY <1>1, <1>2, WorkFits, LearnsNothing DEF AttemptTimesOut, Kept

LEMMA TransportErrorKept == ASSUME IInv, NEW r \in Requests, TransportError(r) PROVE Kept(r)
<1>1. Works(r)
    BY BusyWorks DEF TransportError, InProgress
<1>2. WorksOn(r) /\ req'[r].pc = "keys"
    BY <1>1, NextTryWorks DEF TransportError
<1>3. Learns(r)
    BY <1>1, LearnsOfKeys DEF TransportError
<1>4. ~EndsForCapacity(r)
    BY <1>2 DEF TransportError, EndsForCapacity
<1> QED BY <1>1, <1>2, <1>3, <1>4, WorkFits DEF Kept

LEMMA HeadersKept == ASSUME IInv, NEW r \in Requests, NEW reply, Headers(r, reply) PROVE Kept(r)
<1>1. Works(r)
    BY BusyWorks DEF Headers, InProgress
<1>2. WorksOn(r)
    BY <1>1, ZenonT(30) DEF Headers, IInv, Works, WorksOn, OnlyMoves, Gen, Fields, Arrived
<1> QED BY <1>1, <1>2, WorkFits, LearnsNothing DEF Headers, Kept

\* An answer that is new is what was asked.
LEMMA NewAnswerFits ==
    ASSUME IInv, NEW r \in Requests, Works(r),
           req' = EndedWith(r, Answer(r, TRUE, Asked(Model(r), req[r].in)))
    PROVE  OnlyMoves(r) /\ RequestFits(runtimes, req'[r])
<1> DEFINE a == Answer(r, TRUE, Asked(Model(r), req[r].in))
<1>1. a.asked = Asked(Rt(r).cfg.models[a.alias], req[r].in) /\ a.fresh
    BY DEF Answer, Model
<1> HIDE DEF a
<1>2. req' = EndedWith(r, a)
    BY DEF a
<1> QED BY <1>1, <1>2, EndFits

LEMMA AcceptAnswerKept == ASSUME IInv, NEW r \in Requests, AcceptAnswer(r) PROVE Kept(r)
<1>1. Works(r)
    BY BusyWorks DEF AcceptAnswer, InProgress
<1>2. Learns(r) /\ PoolsKept
    BY <1>1, LearnsOfModels DEF AcceptAnswer
<1>3. ASSUME req' = [req EXCEPT ![r].pc = "storing", ![r].timer = NoTimer] PROVE WorksOn(r)
    BY <1>1, <1>3 DEF IInv, Works, WorksOn, OnlyMoves, Gen, Fields, Arrived
<1>4. OnlyMoves(r) /\ RequestFits(runtimes, req'[r])
    BY <1>1, <1>3, WorkFits, NewAnswerFits DEF AcceptAnswer
<1> QED BY <1>2, <1>4 DEF Kept

LEMMA RejectAnswerKept == ASSUME IInv, NEW r \in Requests, RejectAnswer(r) PROVE Kept(r)
<1>1. Works(r)
    BY BusyWorks DEF RejectAnswer, InProgress
<1>2. WorksOn(r)
    BY <1>1, ToChargeWorks DEF RejectAnswer
<1> QED BY <1>1, <1>2, WorkFits, LearnsNothing DEF RejectAnswer, Kept

LEMMA SaveAnswerKept == ASSUME IInv, NEW r \in Requests, SaveAnswer(r) PROVE Kept(r)
<1>1. Works(r)
    BY BusyWorks DEF SaveAnswer, InProgress
<1> DEFINE asked == Asked(Model(r), req[r].in)
<1>2. CacheFits(Rt(r).cache)
    BY <1>1 DEF IInv, RuntimeFits, Works, Rt
<1>3. \/ UNCHANGED runtimes
      \/ \E caps, size, ttl : \E o \in SetOutcomes(caps, Rt(r).cache, asked, asked, size, ttl) :
            runtimes' = WithCache(r, o.mem)
    BY DEF SaveAnswer, CacheKey
<1>4. req' = EndedWith(r, Answer(r, TRUE, asked))
    BY DEF SaveAnswer
<1>5. OnlyMoves(r) /\ RequestFits(runtimes, req'[r])
    BY <1>1, <1>4, NewAnswerFits
<1> HIDE DEF asked
<1>6. ASSUME NEW caps, NEW size, NEW ttl,
             NEW o \in SetOutcomes(caps, Rt(r).cache, asked, asked, size, ttl),
             runtimes' = WithCache(r, o.mem)
      PROVE  Learns(r) /\ PoolsKept
    <2>1. CacheFits(o.mem)
        BY <1>2, SetFits
    <2> QED BY <1>1, <1>6, <2>1, LearnsAnswer
<1>7. Learns(r) /\ PoolsKept
    BY <1>3, <1>6, LearnsNothing
<1> QED BY <1>5, <1>7 DEF Kept

LEMMA CapacityIsNoRateLimit ==
    ASSUME NEW kind, NEW reply, reply.status \in CapacityStatuses
    PROVE  /\ Classify(kind, reply).action = "fallback-model"
           /\ ~Classify(kind, reply).cooldownCredential
BY DEF Classify, Decision, CapacityStatuses

LEMMA ReadRejectionKept == ASSUME IInv, NEW r \in Requests, ReadRejection(r) PROVE Kept(r)
<1>1. Works(r)
    BY BusyWorks DEF ReadRejection, InProgress
<1>2. PICK d \in Decisions(r) :
        /\ \/ UNCHANGED runtimes
           \/ /\ d.action = "fallback-model" => d.cooldownCredential
              /\ \E p : runtimes' = WithPool(r, p)
        /\ \/ req' = NextTry(r) \/ req' = NextCandidate(r)
           \/ \E ra : req' = ToCharge(r, ra)
           \/ req' = EndedWith(r, [kind |-> "rejection"])
    BY DEF ReadRejection
<1>3. OnlyMoves(r) /\ RequestFits(runtimes, req'[r])
    <2>1. [kind |-> "rejection"].kind # "success"
        OBVIOUS
    <2> QED BY <1>1, <1>2, <2>1, NextTryWorks, NextCandidateWorks, ToChargeWorks, WorkFits, EndFits
<1>4. Learns(r)
    BY <1>1, <1>2, LearnsNothing, LearnsOfKeys
<1>5. ASSUME req[r].reply.status \in CapacityStatuses PROVE PoolsKept
    <2>1. \E reply : reply.status = req[r].reply.status /\ d = Classify(Kind(r), reply)
        BY <1>2 DEF Decisions
    <2>2. d.action = "fallback-model" /\ ~d.cooldownCredential
        BY <1>5, <2>1, CapacityIsNoRateLimit
    <2> QED BY <1>2, <2>2, LearnsNothing
<1>6. EndsForCapacity(r) => PoolsKept
    BY <1>5 DEF ReadRejection, EndsForCapacity
<1> QED BY <1>3, <1>4, <1>6 DEF Kept

LEMMA ChargeKept == ASSUME IInv, NEW r \in Requests, Charge(r) PROVE Kept(r)
<1>1. Works(r)
    BY BusyWorks DEF Charge, InProgress
<1>2. WorksOn(r)
    BY <1>1, NextCandidateWorks DEF Charge
<1>3. Learns(r) /\ PoolsKept
    BY <1>1, LearnsOfModels DEF Charge
<1> QED BY <1>1, <1>2, <1>3, WorkFits DEF Kept

-----------------------------------------------------------------------------
(* The steps of the environment.                                           *)

\* Where no request moves only the invariant is to be shown.
LEMMA StillIsGood ==
    ASSUME IInv', \A r \in Requests : ~Moves(r) PROVE Good
BY DEF Good, StaysHome, SparesKeys, EndsForCapacity

LEMMA ClientLeavesGood == ASSUME IInv, NEW r \in Requests, ClientLeaves(r) PROVE Good
<1>1. UNCHANGED <<runtimes, req>>
    BY DEF ClientLeaves
<1> QED BY <1>1, StillIsGood DEF IInv, Moves

LEMMA ReloadGood == ASSUME IInv, NEW c, Reload(c) PROVE Good
<1> DEFINE n == Len(runtimes) + 1
           b == BuildState(c)
<1>1. runtimes' = Append(runtimes, b) /\ UNCHANGED req
    BY DEF Reload
<1>2. RuntimeFits(b)
    BY DEF BuildState, RuntimeFits, CacheFits, EmptyMemory
<1> HIDE DEF b
<1>3. PICK S : runtimes \in Seq(S)
    BY DEF IInv
<1>4. runtimes \in Seq(S \cup {b})
    BY <1>3
<1>5. runtimes' \in Seq(S \cup {b}) /\ Len(runtimes') = n
    BY <1>1, <1>4
<1>6. \A g \in DOMAIN runtimes : g \in DOMAIN runtimes' /\ runtimes'[g] = runtimes[g]
    BY <1>1, <1>4
<1>7. \A g \in DOMAIN runtimes' : g \in DOMAIN runtimes \/ runtimes'[g] = b
    BY <1>1, <1>4
<1>8. ASSUME NEW r \in Requests PROVE RequestFits(runtimes', req'[r])
    <2>1. RequestFits(runtimes, req[r]) /\ req'[r] = req[r]
        BY <1>1 DEF IInv
    <2> QED BY <1>6, <2>1 DEF RequestFits
<1>9. \A g \in DOMAIN runtimes' : RuntimeFits(runtimes'[g])
    BY <1>2, <1>6, <1>7 DEF IInv
<1>10. Len(runtimes') > 0
    BY <1>3, <1>5
<1>11. IInv'
    BY <1>1, <1>5, <1>8, <1>9, <1>10 DEF IInv
<1> QED BY <1>1, <1>11, StillIsGood DEF Moves

\* Runtime states that are as many, and keep their configurations.
LEMMA RuntimesAge ==
    ASSUME IInv, NEW rts, DOMAIN rts = DOMAIN runtimes, \E S : rts \in Seq(S),
           \A g \in DOMAIN runtimes : RuntimeFits(rts[g]) /\ rts[g].cfg = runtimes[g].cfg,
           runtimes' = rts, DOMAIN req' = Requests,
           \A r \in Requests : RequestFits(runtimes, req'[r])
    PROVE  IInv'
<1>1. \A r \in Requests : RequestFits(runtimes', req'[r])
    BY DEF RequestFits
<1>2. Len(rts) = Len(runtimes)
    BY DEF IInv
<1> QED BY <1>1, <1>2 DEF IInv

LEMMA ScrapeGood == ASSUME IInv, Scrape PROVE Good
<1> DEFINE l == Len(runtimes)
           s == [runtimes[l] EXCEPT !.cache = Prune(runtimes[l].cache)]
<1>1. runtimes' = [runtimes EXCEPT ![l] = s] /\ UNCHANGED req
    BY DEF Scrape
<1>2. PICK S : runtimes \in Seq(S)
    BY DEF IInv
<1>3. l \in DOMAIN runtimes /\ RuntimeFits(runtimes[l])
    BY <1>2 DEF IInv
<1>4. CacheFits(Prune(runtimes[l].cache))
    BY <1>3, DropsFit DEF RuntimeFits, Prune
<1>5. RuntimeFits(s) /\ s.cfg = runtimes[l].cfg
    BY <1>3, <1>4 DEF RuntimeFits
<1> HIDE DEF s
<1>6. runtimes' \in Seq(S \cup {s}) /\ DOMAIN runtimes' = DOMAIN runtimes
    BY <1>1, <1>2, <1>3
<1>7. \A g \in DOMAIN runtimes : RuntimeFits(runtimes'[g]) /\ runtimes'[g].cfg = runtimes[g].cfg
    BY <1>1, <1>5 DEF IInv
<1>8. DOMAIN req' = Requests /\ \A r \in Requests : RequestFits(runtimes, req'[r])
    BY <1>1 DEF IInv
<1>9. IInv'
    BY <1>6, <1>7, <1>8, RuntimesAge
<1> QED BY <1>1, <1>9, StillIsGood DEF Moves

LEMMA RequestAges ==
    ASSUME IInv, Tick, NEW r \in Requests
    PROVE  RequestFits(runtimes, req'[r]) /\ req'[r].pc = req[r].pc
<1>1. CASE InProgress(r) /\ req[r].pc # "reading"
    <2>1. Works(r)
        BY <1>1, BusyWorks
    <2>2. PICK t, n : req'[r] = [req[r] EXCEPT !.timer = t, !.spent = n]
        BY <1>1 DEF Tick
    <2>3. {"pc", "gen", "timer", "spent"} \subseteq DOMAIN req[r]
        BY <2>1 DEF Works, Fields, Arrived
    <2>4. DOMAIN req'[r] = DOMAIN req[r] /\ req'[r].pc = req[r].pc /\ req'[r].gen = req[r].gen
        BY <2>2, <2>3
    <2> QED BY <2>1, <2>4 DEF RequestFits, Works, Gen
<1>2. CASE ~(InProgress(r) /\ req[r].pc # "reading")
    <2>1. req'[r] = req[r]
        BY <1>2 DEF Tick
    <2> QED BY <2>1 DEF IInv
<1> QED BY <1>1, <1>2

LEMMA TickGood == ASSUME IInv, Tick PROVE Good
<1> DEFINE aged(rt) == [rt EXCEPT !.health = ElapseHealth(@),
                                  !.pools = [p \in DOMAIN @ |-> Elapse(@[p])],
                                  !.cache = ElapseCache(@)]
<1>1. runtimes' = [g \in DOMAIN runtimes |-> aged(runtimes[g])]
    BY DEF Tick
<1>2. ASSUME NEW rt, RuntimeFits(rt) PROVE RuntimeFits(aged(rt)) /\ aged(rt).cfg = rt.cfg
    <2>1. CacheFits(ElapseCache(rt.cache))
        BY <1>2, AgesFit DEF RuntimeFits
    <2> DEFINE h == ElapseHealth(rt.health)
               p == [q \in DOMAIN rt.pools |-> Elapse(rt.pools[q])]
               c == ElapseCache(rt.cache)
    <2>2. aged(rt) = [rt EXCEPT !.health = h, !.pools = p, !.cache = c]
        BY <1>2 DEF RuntimeFits
    <2> HIDE DEF aged, h, p, c
    <2>3. /\ DOMAIN aged(rt) = DOMAIN rt /\ aged(rt).cfg = rt.cfg /\ aged(rt).cache = c
        BY <1>2, <2>2 DEF RuntimeFits
    <2> QED BY <1>2, <2>1, <2>3 DEF RuntimeFits, c
<1> HIDE DEF aged
<1>3. PICK S : runtimes \in Seq(S)
    BY DEF IInv
<1>4. runtimes' \in Seq({aged(runtimes[g]) : g \in DOMAIN runtimes}) /\ DOMAIN runtimes' = DOMAIN runtimes
    BY <1>1, <1>3
<1>5. \A g \in DOMAIN runtimes : RuntimeFits(runtimes'[g]) /\ runtimes'[g].cfg = runtimes[g].cfg
    BY <1>1, <1>2 DEF IInv
<1>6. DOMAIN req' = Requests
    BY DEF Tick
<1>7. \A r \in Requests : RequestFits(runtimes, req'[r]) /\ ~Moves(r)
    BY RequestAges DEF Moves
<1>8. IInv'
    BY <1>4, <1>5, <1>6, <1>7, RuntimesAge
<1> QED BY <1>7, <1>8, StillIsGood

-----------------------------------------------------------------------------

LEMMA FitsAtFirst == ASSUME Init PROVE IInv
<1> DEFINE b == BuildState(FirstConfig)
<1>1. RuntimeFits(b)
    BY DEF BuildState, RuntimeFits, CacheFits, EmptyMemory
<1> HIDE DEF b
<1>2. runtimes = <<b>> /\ req = [r \in Requests |-> Idle]
    BY DEF Init, b
<1>3. runtimes \in Seq({b}) /\ Len(runtimes) > 0 /\ \A g \in DOMAIN runtimes : runtimes[g] = b
    BY <1>2
<1> QED BY <1>1, <1>2, <1>3 DEF IInv, RequestFits

LEMMA RequestKept ==
    ASSUME IInv, NEW r \in Requests, Compute(r) \/ React(r) PROVE Kept(r)
<1>1. CASE Compute(r)
    BY <1>1, ExhaustedKept, CountFallbackKept, OutOfTimeKept, CannotPatchKept, TryCandidateKept,
       KeysExhaustedKept, TakeKeyKept, AttemptCanceledKept, AttemptTimesOutKept, SaveAnswerKept, ChargeKept,
       BadRequestKept, ReadRejectionKept, RejectAnswerKept, AcceptAnswerKept DEF Compute
<1>2. CASE React(r)
    BY <1>2, AcceptKept, BadRequestKept, PlanKept, TransportErrorKept, HeadersKept,
       AcceptAnswerKept, RejectAnswerKept, ReadRejectionKept DEF React
<1> QED BY <1>1, <1>2

LEMMA StepIsGood == ASSUME IInv, [Next]_vars PROVE Good
<1>1. CASE UNCHANGED vars
    BY <1>1, StillIsGood DEF vars, IInv, Moves
<1> QED BY <1>1, RequestKept, KeptIsGood, ClientLeavesGood, ReloadGood, ScrapeGood, TickGood DEF Next

LEMMA AlwaysFits == Spec => []IInv
<1> QED BY FitsAtFirst, StepIsGood, PTL DEF Spec, Good

\* Every answer a client gets is the answer to what it asked, whatever was
\* reloaded in between and whoever filled the cache (routeRequest,
\* responsecache.Key).
THEOREM AnswersAreOwn == Spec => []AnswersFit
<1>1. ASSUME IInv PROVE AnswersFit
    BY <1>1 DEF IInv, RequestFits, AnswerFits, AnswersFit, Rt, Gen, Idle, Fields
<1> QED BY <1>1, AlwaysFits, PTL

\* A call of tools is never replayed from the cache, on whosever account it is
\* in the request (requestAllowsResponseCache).
THEOREM ToolCallsAreFresh == Spec => []NoReplayedToolCalls
<1>1. ASSUME IInv PROVE NoReplayedToolCalls
    BY <1>1 DEF IInv, RequestFits, AnswerFits, NoReplayedToolCalls, Idle
<1> QED BY <1>1, AlwaysFits, PTL

\* A request that is overtaken by any number of reloads goes on with the state
\* it captured and touches no other (Reload, routeRequest).
THEOREM OldAndNewDoNotMix == Spec => VerdictsStayHome
<1>1. IInv /\ [Next]_vars => [StaysHome]_vars
    BY StepIsGood DEF Good
<1> QED BY <1>1, AlwaysFits, PTL DEF Spec, VerdictsStayHome, StaysHome

\* Want of capacity at the provider costs no key, whatever else goes on
\* (routeRequest, openAICompatible.Classify).
THEOREM CapacityCostsNoKey == Spec => CapacitySparesKeys
<1>1. IInv /\ [Next]_vars => [SparesKeys]_vars
    BY StepIsGood DEF Good
<1> QED BY <1>1, AlwaysFits, PTL DEF Spec, CapacitySparesKeys, SparesKeys, PoolsKept

-----------------------------------------------------------------------------
(* Types and times.                                                        *)

\* The steps of a request that has a candidate.
HasKey == {"flight", "success", "rejected"}
AtCandidate == {"fallback", "keys", "storing", "charging"} \cup HasKey

\* What the fields of a request under way can be.
FieldsOK(cfg, q) ==
    /\ q.plan \in Seq(DOMAIN cfg.models)
    /\ q.spent \in Nat /\ q.tries \in Nat /\ q.budget \in Int /\ q.ra \in Nat
    /\ \/ q.pc = "reading" /\ q.spent = 0
       \/ q.pc = "candidate" /\ q.plan # <<>> /\ q.ci \in 1 .. Len(q.plan) + 1
       \/ q.pc \in AtCandidate /\ q.ci \in 1 .. Len(q.plan)
    /\ q.pc \in {"reading", "candidate", "fallback"} => q.tries = 0
    /\ q.pc \in HasKey => q.key \in 0 .. KeyCount(cfg, q) - 1
    /\ q.pc = "rejected" => q.reply.retryAfter \in Nat
    /\ q.pc = "fallback" => q.ci # 1
    /\ q.pc = "storing" => Cacheable(cfg, cfg.models[q.plan[q.ci]], q.in)

\* What the attempts at a candidate may have used of the time: the first
\* `request_timeout` in all, with what was spent before, and each of the
\* others its own budget.
TimeOK(cfg, q) ==
    LET T == cfg.requestTimeout IN
    /\ q.pc \in {"candidate", "fallback", "storing", "charging"} =>
        q.spent <= T * MostKeys(cfg)
    /\ q.pc = "keys" =>
        /\ q.budget \in 0 .. T /\ q.tries <= KeyCount(cfg, q)
        /\ q.spent <= T + (q.tries - 1) * q.budget
    /\ q.pc \in HasKey =>
        /\ q.budget \in 0 .. T /\ q.tries < KeyCount(cfg, q)
        /\ q.timer \in Nat /\ q.spent + q.timer <= T + q.tries * q.budget

\* Only a stream may take longer.
Sound(cfg, q) == FieldsOK(cfg, q) /\ (~q.in.stream => TimeOK(cfg, q))

TypesFit ==
    /\ \A g \in DOMAIN runtimes : RuntimeOK(runtimes[g])
    /\ \A r \in Requests : InProgress(r) => Sound(Rt(r).cfg, req[r])
    /\ gone \subseteq Requests

LEMMA ValidConfig ==
    ASSUME NEW c \in Configs, Valid(c)
    PROVE  /\ Routes(c)
           /\ c.requestTimeout \in Nat \ {0} /\ c.cooldown \in Nat
           /\ \A a \in DOMAIN c.models :
                /\ c.models[a].timeout \in Int
                /\ c.models[a].provider \in DOMAIN c.providers
           /\ \A p \in DOMAIN c.providers : c.providers[p].usableKeys \in Nat
<1>1. ASSUME NEW n \in DOMAIN c.routes
      PROVE  c.routes[n] \in Seq(DOMAIN c.models) \ {<<>>}
    <2>1. c.routes[n] # <<>> /\ Range(c.routes[n]) \subseteq DOMAIN c.models
        BY DEF Valid
    <2>2. c.routes[n] \in Seq(Range(c.routes[n]))
        BY ConfigsAssumption
    <2> QED BY <2>1, <2>2
<1>2. c.requestTimeout \in Int /\ c.requestTimeout > 0 /\ c.cooldown \in Int /\ c.cooldown > 0
    BY ConfigsAssumption DEF Valid
<1>3. \A a \in DOMAIN c.models : c.models[a].provider \in DOMAIN c.providers
    BY DEF Valid
<1>4. /\ \A a \in DOMAIN c.models : c.models[a].timeout \in Int
      /\ \A p \in DOMAIN c.providers : c.providers[p].usableKeys \in Nat
    BY ConfigsAssumption
<1>5. Routes(c)
    BY <1>1 DEF Routes
<1>6. c.requestTimeout \in Nat \ {0} /\ c.cooldown \in Nat
    BY <1>2
<1> QED BY <1>3, <1>4, <1>5, <1>6

\* What a runtime state has.
LEMMA RuntimeHas ==
    ASSUME NEW rt, RuntimeOK(rt)
    PROVE  /\ Routes(rt.cfg)
           /\ rt.cfg.requestTimeout \in Nat \ {0} /\ rt.cfg.cooldown \in Nat
           /\ rt.health \in HealthOf(rt.cfg)
           /\ \A a \in DOMAIN rt.cfg.models :
                LET p == rt.cfg.models[a].provider IN
                /\ rt.cfg.models[a].timeout \in Int
                /\ p \in DOMAIN rt.pools
                /\ rt.cfg.providers[p].usableKeys \in Nat
                /\ rt.pools[p] \in PoolsOf(rt.cfg.providers[p].usableKeys)
BY ValidConfig DEF RuntimeOK, HealthOf

LEMMA StartsComplete == ASSUME NEW c \in Configs, Valid(c) PROVE RuntimeOK(BuildState(c))
<1> DEFINE b == BuildState(c)
<1>1. /\ b.cfg = c /\ b.health = NewHealth(c)
      /\ b.pools = [p \in DOMAIN c.providers |-> NewPool(c.providers[p].usableKeys)]
    BY DEF BuildState
<1>2. NewHealth(c) \in [DOMAIN c.models -> HealthState]
    BY NewHealthTyped DEF HealthOf
<1>3. \A n \in DOMAIN c.routes : Range(c.routes[n]) \subseteq DOMAIN c.models
    BY DEF Valid
<1>4. \A p \in DOMAIN c.providers :
        NewPool(c.providers[p].usableKeys) \in PoolsOf(c.providers[p].usableKeys)
    BY NewPoolTyped, ValidConfig
<1> HIDE DEF b
<1> QED BY <1>1, <1>2, <1>3, <1>4 DEF RuntimeOK, b

LEMMA ReplacedIsComplete ==
    ASSUME IInv, TypesFit, NEW g \in DOMAIN runtimes, NEW s, RuntimeOK(s),
           runtimes' = [runtimes EXCEPT ![g] = s]
    PROVE  \A x \in DOMAIN runtimes' : RuntimeOK(runtimes'[x])
BY DEF TypesFit

LEMMA HealthIsComplete ==
    ASSUME IInv, TypesFit, NEW r \in Requests, Works(r), NEW h \in HealthOf(Rt(r).cfg),
           runtimes' = WithHealth(r, h)
    PROVE  \A x \in DOMAIN runtimes' : RuntimeOK(runtimes'[x])
<1> DEFINE s == [Rt(r) EXCEPT !.health = h]
<1>1. runtimes' = [runtimes EXCEPT ![Gen(r)] = s]
    BY DEF WithHealth, Rt
<1>2. RuntimeFits(Rt(r)) /\ RuntimeOK(Rt(r)) /\ Gen(r) \in DOMAIN runtimes
    BY DEF IInv, TypesFit, Works, Rt
<1>3. s.health = h /\ s.cfg = Rt(r).cfg /\ s.pools = Rt(r).pools
    BY <1>2 DEF RuntimeFits
<1> HIDE DEF s
<1>4. RuntimeOK(s)
    BY <1>2, <1>3 DEF RuntimeOK, HealthOf
<1> QED BY <1>1, <1>2, <1>4, ReplacedIsComplete

LEMMA CacheIsComplete ==
    ASSUME IInv, TypesFit, NEW g \in DOMAIN runtimes, NEW c,
           runtimes' = [runtimes EXCEPT ![g].cache = c]
    PROVE  \A x \in DOMAIN runtimes' : RuntimeOK(runtimes'[x])
<1> DEFINE s == [runtimes[g] EXCEPT !.cache = c]
<1>1. runtimes' = [runtimes EXCEPT ![g] = s]
    OBVIOUS
<1>2. RuntimeFits(runtimes[g]) /\ RuntimeOK(runtimes[g])
    BY DEF IInv, TypesFit
<1>3. s.health = runtimes[g].health /\ s.cfg = runtimes[g].cfg /\ s.pools = runtimes[g].pools
    BY <1>2 DEF RuntimeFits
<1> HIDE DEF s
<1>4. RuntimeOK(s)
    BY <1>2, <1>3 DEF RuntimeOK
<1> QED BY <1>1, <1>4, ReplacedIsComplete

LEMMA PoolIsComplete ==
    ASSUME IInv, TypesFit, NEW r \in Requests, Works(r),
           Model(r).provider \in DOMAIN Rt(r).pools,
           NEW p \in PoolsOf(Rt(r).cfg.providers[Model(r).provider].usableKeys),
           runtimes' = WithPool(r, p)
    PROVE  \A x \in DOMAIN runtimes' : RuntimeOK(runtimes'[x])
<1> DEFINE v == Model(r).provider
           ps == [Rt(r).pools EXCEPT ![v] = p]
           s == [Rt(r) EXCEPT !.pools = ps]
<1>1. runtimes' = [runtimes EXCEPT ![Gen(r)] = s]
    BY DEF WithPool, Rt
<1>2. RuntimeFits(Rt(r)) /\ RuntimeOK(Rt(r)) /\ Gen(r) \in DOMAIN runtimes
    BY DEF IInv, TypesFit, Works, Rt
<1>3. s.health = Rt(r).health /\ s.cfg = Rt(r).cfg /\ s.pools = ps
    BY <1>2 DEF RuntimeFits
<1>4. DOMAIN ps = DOMAIN Rt(r).pools /\ \A q \in DOMAIN ps : ps[q] = IF q = v THEN p ELSE Rt(r).pools[q]
    OBVIOUS
<1> HIDE DEF s, ps
<1>5. RuntimeOK(s)
    BY <1>2, <1>3, <1>4 DEF RuntimeOK
<1> QED BY <1>1, <1>2, <1>5, ReplacedIsComplete

-----------------------------------------------------------------------------
(* Where a request is after a step.                                        *)

\* q goes on at the same candidate as p.
SamePlace(q, p) ==
    q.gen = p.gen /\ q.in = p.in /\ q.plan = p.plan /\ q.ci = p.ci /\ q.spent = p.spent

LEMMA NextCandidateIs ==
    ASSUME IInv, NEW r \in Requests, Works(r), req' = NextCandidate(r)
    PROVE  /\ req'[r].pc = "candidate" /\ req'[r].ci = req[r].ci + 1
           /\ req'[r].gen = req[r].gen /\ req'[r].in = req[r].in
           /\ req'[r].plan = req[r].plan /\ req'[r].spent = req[r].spent
           /\ req'[r].tries = 0 /\ req'[r].budget = 0 /\ req'[r].ra = 0
BY DEF NextCandidate, IInv, Arrived

LEMMA NextTryIs ==
    ASSUME IInv, NEW r \in Requests, Works(r), req' = NextTry(r)
    PROVE  /\ SamePlace(req'[r], req[r]) /\ req'[r].pc = "keys"
           /\ req'[r].tries = req[r].tries + 1 /\ req'[r].budget = req[r].budget
           /\ req'[r].ra = req[r].ra
BY DEF NextTry, IInv, Works, Fields, Arrived, SamePlace

LEMMA ToChargeIs ==
    ASSUME IInv, NEW r \in Requests, Works(r), NEW ra, req' = ToCharge(r, ra)
    PROVE  /\ SamePlace(req'[r], req[r]) /\ req'[r].pc = "charging"
           /\ req'[r].tries = req[r].tries /\ req'[r].budget = req[r].budget
           /\ req'[r].ra = ra
BY DEF ToCharge, IInv, Works, Fields, Arrived, SamePlace

LEMMA EndIs ==
    ASSUME IInv, NEW r \in Requests, Works(r), NEW a, req' = EndedWith(r, a)
    PROVE  req'[r].pc = "done" /\ req'[r].answer = a
BY DEF EndedWith, IInv

LEMMA FailureIs ==
    ASSUME IInv, NEW r \in Requests, Works(r), NEW m, FailRequest(r, m)
    PROVE  req'[r].pc = "done" /\ req'[r].answer = Error
BY EndIs DEF FailRequest

-----------------------------------------------------------------------------
(* Times.                                                                  *)

LEMMA MostKeysIsMost ==
    ASSUME NEW c \in Configs, Valid(c)
    PROVE  /\ MostKeys(c) \in Nat \ {0}
           /\ \A p \in DOMAIN c.providers : c.providers[p].usableKeys <= MostKeys(c)
<1> DEFINE counts == {c.providers[p].usableKeys : p \in DOMAIN c.providers}
           S == counts \cup {1}
           f == [p \in DOMAIN c.providers |-> c.providers[p].usableKeys]
<1>1. counts \subseteq Nat /\ IsFiniteSet(counts)
    <2>1. IsFiniteSet(DOMAIN c.providers) /\ f \in [DOMAIN c.providers -> counts]
        BY ConfigsAssumption
    <2>2. counts \subseteq Nat
        BY ValidConfig
    <2>3. \A x \in counts : \E p \in DOMAIN c.providers : f[p] = x
        OBVIOUS
    <2> HIDE DEF f, counts
    <2>4. f \in Surjection(DOMAIN c.providers, counts)
        BY <2>1, <2>3 DEF Surjection
    <2> QED BY <2>1, <2>2, <2>4, FS_Surjection
<1>2. IsFiniteSet(S)
    <2> HIDE DEF counts
    <2> QED BY <1>1, FS_AddElement
<1>3. S \subseteq Int /\ 1 \in S /\ S \subseteq Nat
    BY <1>1
<1>4. \A p \in DOMAIN c.providers : c.providers[p].usableKeys \in S
    OBVIOUS
<1>5. MostKeys(c) = Sets!Max(S)
    BY DEF MostKeys
<1> HIDE DEF S
<1>6. Sets!Max(S) \in S /\ \A y \in S : y <= Sets!Max(S)
    BY <1>2, <1>3, GreatestMember
<1>7. Sets!Max(S) \in Nat /\ 1 <= Sets!Max(S)
    BY <1>3, <1>6
<1> QED BY <1>4, <1>5, <1>6, <1>7

\* The time of the first attempt in full, and that of t more.
LEMMA AttemptsTakeTurns ==
    ASSUME NEW T \in Nat, NEW b \in 0 .. T, NEW K \in Nat, NEW t \in Nat, t < K
    PROVE  T + t * b <= T * K
<1>1. t * b <= t * T
    BY SMT
<1>2. t * T <= (K - 1) * T
    BY SMT
<1>3. (K - 1) * T = T * K - T
    BY SMT
<1>4. t * b \in Int /\ t * T \in Int /\ T * K \in Int /\ (K - 1) * T \in Int
    BY SMT
<1> QED BY <1>1, <1>2, <1>3, <1>4

\* Wherever a request gives a candidate up, it has kept within the bound.
LEMMA CandidateBounded ==
    ASSUME NEW c \in Configs, Valid(c), NEW q, FieldsOK(c, q), TimeOK(c, q)
    PROVE  q.pc \in AtCandidate \cup {"candidate"} => q.spent <= c.requestTimeout * MostKeys(c)
<1> DEFINE T == c.requestTimeout
           K == MostKeys(c)
           n == KeyCount(c, q)
<1>1. T \in Nat /\ K \in Nat \ {0} /\ q.spent \in Nat /\ q.tries \in Nat
    BY ValidConfig, MostKeysIsMost DEF FieldsOK
<1>2. ASSUME q.pc \in AtCandidate PROVE n \in Nat /\ n <= K
    <2>1. q.ci \in DOMAIN q.plan /\ q.plan \in Seq(DOMAIN c.models)
        BY <1>2, PlacesOf DEF FieldsOK, AtCandidate, HasKey
    <2>2. q.plan[q.ci] \in DOMAIN c.models
        BY <2>1, ElementType
    <2> QED BY <2>2, ValidConfig, MostKeysIsMost DEF KeyCount
<1>3. CASE q.pc \in HasKey
    <2>1. q.budget \in 0 .. T /\ q.tries < n /\ q.timer \in Nat /\ q.spent + q.timer <= T + q.tries * q.budget
        BY <1>3 DEF TimeOK
    <2>2. n \in Nat /\ n <= K
        BY <1>2, <1>3 DEF AtCandidate
    <2> HIDE DEF T, K, n
    <2>3. q.tries < K
        BY <1>1, <2>1, <2>2
    <2>4. T + q.tries * q.budget <= T * K
        BY <1>1, <2>1, <2>3, AttemptsTakeTurns
    <2>5. T + q.tries * q.budget \in Int /\ T * K \in Int
        BY <1>1, <2>1
    <2>6. q.spent <= T * K
        BY <1>1, <2>1, <2>4, <2>5
    <2> QED BY <2>6 DEF T, K
<1>4. CASE q.pc = "keys"
    <2>1. q.budget \in 0 .. T /\ q.tries <= n /\ q.spent <= T + (q.tries - 1) * q.budget
        BY <1>4 DEF TimeOK
    <2>2. n \in Nat /\ n <= K
        BY <1>2, <1>4 DEF AtCandidate
    <2> HIDE DEF T, K, n
    <2>3. CASE q.tries = 0
        <3>1. q.spent <= T
            BY <1>1, <2>1, <2>3
        <3>2. T <= T * K
            BY <1>1
        <3>3. q.spent <= T * K
            BY <1>1, <3>1, <3>2
        <3> QED BY <3>3 DEF T, K
    <2>4. CASE q.tries # 0
        <3>1. q.tries - 1 \in Nat /\ q.tries - 1 < K
            <4>1. q.tries \in Nat \ {0} /\ q.tries <= n
                BY <1>1, <2>1, <2>4
            <4> QED BY <1>1, <2>2, <4>1
        <3>2. T + (q.tries - 1) * q.budget <= T * K
            BY <1>1, <2>1, <3>1, AttemptsTakeTurns
        <3>3. T + (q.tries - 1) * q.budget \in Int /\ T * K \in Int
            BY <1>1, <2>1, <3>1
        <3>4. q.spent <= T * K
            BY <1>1, <2>1, <3>2, <3>3
        <3> QED BY <3>4 DEF T, K
    <2> QED BY <2>3, <2>4
<1>5. CASE q.pc \in {"candidate", "fallback", "storing", "charging"}
    BY <1>5 DEF TimeOK
<1> QED BY <1>3, <1>4, <1>5 DEF AtCandidate

LEMMA HasCandidate ==
    ASSUME NEW c \in Configs, Valid(c), NEW q, FieldsOK(c, q), q.pc \in AtCandidate
    PROVE  /\ q.ci \in 1 .. Len(q.plan) /\ Len(q.plan) \in Nat /\ q.plan # <<>>
           /\ q.plan[q.ci] \in DOMAIN c.models /\ KeyCount(c, q) \in Nat
<1>1. q.ci \in 1 .. Len(q.plan) /\ q.plan \in Seq(DOMAIN c.models)
    BY DEF FieldsOK, AtCandidate, HasKey
<1>2. q.ci \in DOMAIN q.plan
    BY <1>1, PlacesOf
<1>3. q.plan[q.ci] \in DOMAIN c.models /\ q.plan # <<>> /\ Len(q.plan) \in Nat
    BY <1>1, <1>2, ElementType, PlacesOf
<1> QED BY <1>1, <1>3, ValidConfig DEF KeyCount

-----------------------------------------------------------------------------
(* What becomes of a request that goes on.                                 *)

LEMMA ToNextCandidate ==
    ASSUME NEW c \in Configs, Valid(c), NEW p, Sound(c, p), p.pc \in AtCandidate,
           NEW q, q.pc = "candidate", q.ci = p.ci + 1, q.in = p.in, q.plan = p.plan,
           q.spent = p.spent, q.tries = 0, q.budget = 0, q.ra = 0
    PROVE  Sound(c, q)
<1>1. FieldsOK(c, p) /\ p.ci \in 1 .. Len(p.plan) /\ Len(p.plan) \in Nat /\ p.plan # <<>>
    BY HasCandidate DEF Sound
<1>2. q.ci \in 1 .. Len(q.plan) + 1
    BY <1>1
<1>3. FieldsOK(c, q)
    BY <1>1, <1>2 DEF FieldsOK, HasKey
<1>4. ~p.in.stream => p.spent <= c.requestTimeout * MostKeys(c)
    BY <1>1, CandidateBounded DEF Sound
<1> QED BY <1>3, <1>4 DEF Sound, TimeOK, HasKey

LEMMA ToCharging ==
    ASSUME NEW c \in Configs, Valid(c), NEW p, Sound(c, p), p.pc \in HasKey,
           NEW q, SamePlace(q, p), q.pc = "charging", q.ra \in Nat,
           q.tries = p.tries, q.budget = p.budget
    PROVE  Sound(c, q)
<1>1. FieldsOK(c, p) /\ p.ci \in 1 .. Len(p.plan) /\ p.pc \in AtCandidate
    BY HasCandidate DEF Sound, AtCandidate
<1>2. FieldsOK(c, q)
    BY <1>1 DEF FieldsOK, HasKey, AtCandidate, SamePlace
<1>3. ~p.in.stream => p.spent <= c.requestTimeout * MostKeys(c)
    BY <1>1, CandidateBounded DEF Sound
<1> QED BY <1>2, <1>3 DEF Sound, TimeOK, HasKey, SamePlace

LEMMA ToNextTry ==
    ASSUME NEW c \in Configs, Valid(c), NEW p, Sound(c, p), p.pc \in HasKey,
           NEW q, SamePlace(q, p), q.pc = "keys", q.ra = p.ra,
           q.tries = p.tries + 1, q.budget = p.budget
    PROVE  Sound(c, q)
<1> DEFINE T == c.requestTimeout
           n == KeyCount(c, p)
<1>1. FieldsOK(c, p) /\ p.ci \in 1 .. Len(p.plan) /\ p.pc \in AtCandidate /\ n \in Nat
    BY HasCandidate DEF Sound, AtCandidate
<1>2. FieldsOK(c, q)
    BY <1>1 DEF FieldsOK, HasKey, AtCandidate, SamePlace
<1>3. ASSUME ~p.in.stream PROVE TimeOK(c, q)
    <2>1. /\ p.budget \in 0 .. T /\ p.tries < n
          /\ p.timer \in Nat /\ p.spent + p.timer <= T + p.tries * p.budget
        BY <1>3 DEF Sound, TimeOK
    <2>2. p.tries \in Nat /\ p.spent \in Nat /\ T \in Nat
        BY <1>1, ValidConfig DEF FieldsOK
    <2>3. q.tries <= n /\ q.tries - 1 = p.tries
        <3> HIDE DEF n, T
        <3>1. p.tries \in Nat /\ n \in Nat /\ p.tries < n
            BY <1>1, <2>1, <2>2
        <3>2. \A k, m \in Nat : k < m => k + 1 <= m /\ (k + 1) - 1 = k
            OBVIOUS
        <3> QED BY <3>1, <3>2
    <2>4. q.spent <= T + (q.tries - 1) * q.budget
        <3>1. p.tries * p.budget \in Int
            BY <2>1, <2>2
        <3>2. p.spent <= T + p.tries * p.budget
            BY <2>1, <2>2, <3>1
        <3> QED BY <2>3, <3>2 DEF SamePlace
    <2>5. KeyCount(c, q) = n
        BY DEF KeyCount, SamePlace
    <2> HIDE DEF n, T
    <2>6. q.budget \in 0 .. T
        BY <2>1
    <2> QED BY <2>3, <2>4, <2>5, <2>6 DEF TimeOK, HasKey, T
<1> QED BY <1>2, <1>3 DEF Sound, SamePlace

-----------------------------------------------------------------------------
(* The steps of a request keep the types and the times.                    *)

RuntimesComplete == \A g \in DOMAIN runtimes : RuntimeOK(runtimes[g])

\* All that is to be shown of a step of request r.
StaysSound(r) ==
    /\ RuntimesComplete'
    /\ req'[r].pc # "done" => Sound(runtimes[req'[r].gen].cfg, req'[r])

\* What a request that is under way has.
LEMMA Working ==
    ASSUME IInv, TypesFit, NEW r \in Requests, InProgress(r)
    PROVE  /\ Works(r) /\ RuntimeOK(Rt(r)) /\ RuntimesComplete
           /\ Rt(r).cfg \in Configs /\ Valid(Rt(r).cfg)
           /\ Sound(Rt(r).cfg, req[r]) /\ FieldsOK(Rt(r).cfg, req[r])
<1>1. Works(r)
    BY BusyWorks
<1>2. RuntimeOK(Rt(r)) /\ Sound(Rt(r).cfg, req[r]) /\ RuntimesComplete
    BY <1>1 DEF Works, TypesFit, Rt, RuntimesComplete
<1> QED BY <1>1, <1>2 DEF RuntimeOK, Sound

\* And one that has a candidate.
LEMMA AtModel ==
    ASSUME IInv, TypesFit, NEW r \in Requests, req[r].pc \in AtCandidate
    PROVE  /\ InProgress(r) /\ Alias(r) \in DOMAIN Rt(r).cfg.models
           /\ Model(r).timeout \in Int /\ Model(r).provider \in DOMAIN Rt(r).pools
           /\ KeyCount(Rt(r).cfg, req[r]) = Rt(r).cfg.providers[Model(r).provider].usableKeys
           /\ KeyCount(Rt(r).cfg, req[r]) \in Nat
           /\ Pool(r) \in PoolsOf(KeyCount(Rt(r).cfg, req[r]))
<1>1. InProgress(r)
    BY DEF InProgress, AtCandidate, HasKey
<1>2. RuntimeOK(Rt(r)) /\ FieldsOK(Rt(r).cfg, req[r]) /\ Rt(r).cfg \in Configs /\ Valid(Rt(r).cfg)
    BY <1>1, Working
<1>3. Alias(r) \in DOMAIN Rt(r).cfg.models
    BY <1>2, HasCandidate DEF Alias
<1>4. KeyCount(Rt(r).cfg, req[r]) = Rt(r).cfg.providers[Model(r).provider].usableKeys
    BY DEF KeyCount, Model, Alias
<1>5. LET p == Model(r).provider IN
        /\ Model(r).timeout \in Int /\ p \in DOMAIN Rt(r).pools
        /\ Rt(r).cfg.providers[p].usableKeys \in Nat
        /\ Rt(r).pools[p] \in PoolsOf(Rt(r).cfg.providers[p].usableKeys)
    BY <1>2, <1>3, RuntimeHas DEF Model
<1> QED BY <1>1, <1>3, <1>4, <1>5 DEF Pool

LEMMA SameRuntimes ==
    ASSUME RuntimesComplete, UNCHANGED runtimes PROVE RuntimesComplete'
BY DEF RuntimesComplete

LEMMA AcceptSound ==
    ASSUME IInv, TypesFit, NEW r \in Requests, NEW in, Accept(r, in) PROVE StaysSound(r)
<1> DEFINE a == Arrived(Len(runtimes), in)
<1>1. req'[r] = a
    BY DEF Accept, IInv
<1>2. /\ a.pc = "reading" /\ a.plan = <<>> /\ a.spent = 0 /\ a.tries = 0
      /\ a.budget = 0 /\ a.ra = 0
    BY DEF Arrived
<1> HIDE DEF a
<1>3. <<>> \in Seq(DOMAIN runtimes[a.gen].cfg.models)
    OBVIOUS
<1>4. Sound(runtimes[a.gen].cfg, a)
    BY <1>2, <1>3 DEF Sound, FieldsOK, TimeOK, HasKey
<1>5. RuntimesComplete'
    BY SameRuntimes DEF TypesFit, RuntimesComplete, Accept
<1> QED BY <1>1, <1>4, <1>5 DEF StaysSound

LEMMA FailureSound ==
    ASSUME IInv, TypesFit, NEW r \in Requests, InProgress(r), NEW m, FailRequest(r, m),
           UNCHANGED runtimes
    PROVE  StaysSound(r)
BY Working, FailureIs, SameRuntimes DEF StaysSound

LEMMA PlanSound ==
    ASSUME IInv, TypesFit, NEW r \in Requests, Plan(r) PROVE StaysSound(r)
<1> DEFINE c == Rt(r).cfg
           plan == IF Known(c, req[r].in.name) THEN Candidates(c, Rt(r).health, req[r].in.name)
                   ELSE <<>>
<1>1. InProgress(r)
    BY DEF Plan, InProgress
<1>2. /\ Works(r) /\ RuntimeOK(Rt(r)) /\ c \in Configs /\ Valid(c)
      /\ Sound(c, req[r]) /\ FieldsOK(c, req[r]) /\ RuntimesComplete
    BY <1>1, Working
<1>3. plan \in Seq(DOMAIN c.models)
    <2>1. Routes(c) /\ Rt(r).health \in HealthOf(c)
        BY <1>2, RuntimeHas
    <2>2. CASE Known(c, req[r].in.name)
        BY <2>1, <2>2, CandidatesTyped
    <2>3. CASE ~Known(c, req[r].in.name)
        BY <2>3
    <2> QED BY <2>2, <2>3
<1>4. UNCHANGED runtimes
    BY DEF Plan
<1>5. CASE plan = <<>>
    BY <1>1, <1>4, <1>5, FailureSound DEF Plan
<1>6. CASE plan # <<>>
    <2>1. req' = [req EXCEPT ![r].pc = "candidate", ![r].plan = plan, ![r].ci = 1]
        BY <1>6 DEF Plan
    <2>2. 1 \in 1 .. Len(plan) + 1
        <3> HIDE DEF plan
        <3> QED BY <1>3
    <2> HIDE DEF plan
    <2>3. /\ req'[r].pc = "candidate" /\ req'[r].plan = plan /\ req'[r].ci = 1
          /\ req'[r].gen = req[r].gen /\ req'[r].in = req[r].in /\ req'[r].spent = req[r].spent
          /\ req'[r].tries = req[r].tries /\ req'[r].budget = req[r].budget /\ req'[r].ra = req[r].ra
        BY <1>2, <2>1 DEF IInv, Works, Fields, Arrived
    <2>4. req[r].tries = 0 /\ req[r].spent = 0
        BY <1>2 DEF FieldsOK, AtCandidate, HasKey, Plan
    <2>5. FieldsOK(c, req'[r])
        BY <1>2, <1>3, <1>6, <2>2, <2>3, <2>4 DEF FieldsOK, HasKey
    <2>6. ASSUME ~req[r].in.stream PROVE TimeOK(c, req'[r])
        <3>1. c.requestTimeout * MostKeys(c) \in Nat
            BY <1>2, ValidConfig, MostKeysIsMost
        <3>2. 0 <= c.requestTimeout * MostKeys(c)
            BY <3>1
        <3> QED BY <2>3, <2>4, <3>2 DEF TimeOK, HasKey
    <2> QED BY <1>2, <1>4, <2>3, <2>5, <2>6, SameRuntimes DEF StaysSound, Sound, Rt, Gen
<1> QED BY <1>5, <1>6

LEMMA CountFallbackSound ==
    ASSUME IInv, TypesFit, NEW r \in Requests, CountFallback(r) PROVE StaysSound(r)
<1> DEFINE c == Rt(r).cfg
<1>1. InProgress(r) /\ UNCHANGED runtimes /\ req[r].pc = "candidate"
      /\ req[r].ci \in 2 .. Len(req[r].plan)
      /\ req' = [req EXCEPT ![r].pc = "fallback"]
    BY DEF CountFallback, InProgress
<1>2. Works(r) /\ Sound(c, req[r]) /\ FieldsOK(c, req[r]) /\ RuntimesComplete
    BY <1>1, Working
<1>3. /\ req'[r].pc = "fallback" /\ SamePlace(req'[r], req[r])
      /\ req'[r].tries = req[r].tries /\ req'[r].budget = req[r].budget /\ req'[r].ra = req[r].ra
    BY <1>1, <1>2 DEF IInv, Works, Fields, Arrived, SamePlace
<1>4. req[r].ci \in 1 .. Len(req[r].plan)
    <2>1. Len(req[r].plan) \in Nat
        BY <1>2, PlacesOf DEF FieldsOK
    <2> QED BY <1>1, <2>1
<1>5. FieldsOK(c, req'[r])
    <2>1. req[r].ci # 1 /\ req[r].tries = 0
        BY <1>1, <1>2 DEF FieldsOK
    <2> QED BY <1>2, <1>3, <1>4, <2>1 DEF FieldsOK, AtCandidate, HasKey, SamePlace
<1>6. ~req[r].in.stream => TimeOK(c, req'[r])
    BY <1>1, <1>2, <1>3 DEF Sound, TimeOK, HasKey, SamePlace
<1> QED BY <1>1, <1>2, <1>3, <1>5, <1>6, SameRuntimes DEF StaysSound, Sound, Rt, Gen, SamePlace

\* The time limit of the attempts at a candidate is what is left at most.
LEMMA LimitIsLeft ==
    ASSUME NEW timeout \in Int, NEW left \in Nat \ {0}
    PROVE  AttemptTimeout(timeout, left) \in 1 .. left
BY DEF AttemptTimeout

LEMMA TryCandidateSound ==
    ASSUME IInv, TypesFit, NEW r \in Requests, TryCandidate(r) PROVE StaysSound(r)
<1> DEFINE c == Rt(r).cfg
           q == req'[r]
           T == c.requestTimeout
           b == AttemptTimeout(Model(r).timeout, T - req[r].spent)
           k == CacheKey(Model(r), req[r].in)
           use == Cacheable(c, Model(r), req[r].in)
<1>1. InProgress(r) /\ (req[r].pc = "fallback" \/ (req[r].pc = "candidate" /\ req[r].ci = 1))
    BY DEF TryCandidate, HasTurn, InProgress
<1>2. /\ Works(r) /\ RuntimesComplete /\ c \in Configs /\ Valid(c) /\ RuntimeOK(Rt(r))
      /\ Sound(c, req[r]) /\ FieldsOK(c, req[r])
    BY <1>1, Working
<1>3. RuntimesComplete'
    <2>1. UNCHANGED runtimes \/ runtimes' = WithCache(r, AfterGet(Rt(r).cache, k))
        BY DEF TryCandidate
    <2>2. Gen(r) \in DOMAIN runtimes
        BY <1>2 DEF Works
    <2>3. CASE runtimes' = WithCache(r, AfterGet(Rt(r).cache, k))
        <3>1. \A x \in DOMAIN runtimes' : RuntimeOK(runtimes'[x])
            BY <2>2, <2>3, CacheIsComplete DEF WithCache
        <3> QED BY <3>1 DEF RuntimesComplete
    <2> QED BY <1>2, <2>1, <2>3, SameRuntimes
<1>4. CASE use /\ IsHit(Rt(r).cache, k)
    <2>1. \E a : req' = EndedWith(r, a)
        BY <1>4 DEF TryCandidate
    <2> QED BY <1>2, <1>3, <2>1, EndIs DEF StaysSound
<1>5. CASE ~(use /\ IsHit(Rt(r).cache, k))
    <2>1. req' = [req EXCEPT ![r].pc = "keys", ![r].budget = b]
        BY <1>5 DEF TryCandidate
    <2>2. /\ q.pc = "keys" /\ q.budget = b /\ SamePlace(q, req[r])
          /\ q.tries = req[r].tries /\ q.ra = req[r].ra
        <3> HIDE DEF b
        <3> QED BY <1>2, <2>1 DEF IInv, Works, Fields, Arrived, SamePlace
    <2>3. T - req[r].spent \in Nat \ {0} /\ T \in Nat /\ req[r].spent \in Nat
        <3>1. req[r].spent < T /\ req[r].spent \in Nat
            BY <1>2 DEF TryCandidate, FieldsOK
        <3>2. T \in Nat
            BY <1>2, ValidConfig
        <3> HIDE DEF T
        <3> QED BY <3>1, <3>2
    <2>4. req[r].ci \in 1 .. Len(req[r].plan) /\ Len(req[r].plan) \in Nat
        <3>1. req[r].plan # <<>> => Len(req[r].plan) \in Nat \ {0}
            BY <1>2 DEF FieldsOK
        <3>2. CASE req[r].pc = "candidate"
            BY <1>1, <1>2, <3>1, <3>2 DEF FieldsOK, AtCandidate, HasKey
        <3>3. CASE req[r].pc = "fallback"
            BY <1>2, <3>3, HasCandidate DEF AtCandidate
        <3> QED BY <1>1, <3>2, <3>3
    <2>5. req[r].plan[req[r].ci] \in DOMAIN c.models /\ Alias(r) \in DOMAIN c.models
        <3>1. req[r].ci \in DOMAIN req[r].plan
            BY <1>2, <2>4, PlacesOf DEF FieldsOK
        <3> QED BY <1>2, <3>1, ElementType DEF FieldsOK, Alias
    <2>6. b \in 1 .. T - req[r].spent
        <3>1. Model(r).timeout \in Int
            BY <1>2, <2>5, ValidConfig DEF Model
        <3> QED BY <2>3, <3>1, LimitIsLeft
    <2>7. FieldsOK(c, q)
        <3>1. b \in Int
            BY <2>6
        <3> HIDE DEF b
        <3> QED BY <1>2, <2>2, <2>4, <3>1 DEF FieldsOK, AtCandidate, HasKey, SamePlace
    <2>8. ASSUME ~req[r].in.stream PROVE TimeOK(c, q)
        <3>1. req[r].tries = 0
            BY <1>1, <1>2 DEF FieldsOK
        <3>2. KeyCount(c, q) \in Nat
            BY <2>2, <2>5, <1>2, ValidConfig DEF KeyCount, SamePlace
        <3>3. b \in 0 .. T /\ req[r].spent <= T + (0 - 1) * b
            <4> HIDE DEF b, T
            <4> QED BY <2>3, <2>6
        <3>4. 0 <= KeyCount(c, q)
            BY <3>2
        <3> HIDE DEF b, q
        <3> QED BY <2>2, <3>1, <3>3, <3>4 DEF TimeOK, HasKey, SamePlace
    <2> QED BY <1>3, <2>2, <2>7, <2>8 DEF StaysSound, Sound, SamePlace, Rt, Gen
<1> QED BY <1>4, <1>5

\* A request that gives its candidate up.
LEMMA GivesUpSound ==
    ASSUME IInv, TypesFit, NEW r \in Requests, req[r].pc \in AtCandidate,
           req' = NextCandidate(r)
    PROVE  Sound(runtimes[req'[r].gen].cfg, req'[r])
<1>1. InProgress(r)
    BY AtModel
<1>2. Works(r) /\ Sound(Rt(r).cfg, req[r]) /\ Rt(r).cfg \in Configs /\ Valid(Rt(r).cfg)
    BY <1>1, Working
<1>3. Sound(Rt(r).cfg, req'[r])
    BY <1>2, NextCandidateIs, ToNextCandidate
<1> QED BY <1>2, <1>3, NextCandidateIs DEF Rt, Gen

\* One whose attempt ended, and charges the model for it.
LEMMA ChargingSound ==
    ASSUME IInv, TypesFit, NEW r \in Requests, req[r].pc \in HasKey, NEW ra \in Nat,
           req' = ToCharge(r, ra)
    PROVE  Sound(runtimes[req'[r].gen].cfg, req'[r])
<1>1. InProgress(r)
    BY DEF InProgress, HasKey
<1>2. Works(r) /\ Sound(Rt(r).cfg, req[r]) /\ Rt(r).cfg \in Configs /\ Valid(Rt(r).cfg)
    BY <1>1, Working
<1>3. Sound(Rt(r).cfg, req'[r])
    BY <1>2, ToChargeIs, ToCharging
<1> QED BY <1>2, <1>3, ToChargeIs DEF Rt, Gen, SamePlace

\* And one that tries another key.
LEMMA RetrySound ==
    ASSUME IInv, TypesFit, NEW r \in Requests, req[r].pc \in HasKey, req' = NextTry(r)
    PROVE  Sound(runtimes[req'[r].gen].cfg, req'[r])
<1>1. InProgress(r)
    BY DEF InProgress, HasKey
<1>2. Works(r) /\ Sound(Rt(r).cfg, req[r]) /\ Rt(r).cfg \in Configs /\ Valid(Rt(r).cfg)
    BY <1>1, Working
<1>3. Sound(Rt(r).cfg, req'[r])
    BY <1>2, NextTryIs, ToNextTry
<1> QED BY <1>2, <1>3, NextTryIs DEF Rt, Gen, SamePlace

\* What is done to the pool of the candidate's provider.
LEMMA PoolChanges ==
    ASSUME IInv, TypesFit, NEW r \in Requests, req[r].pc \in AtCandidate,
           NEW p \in PoolsOf(KeyCount(Rt(r).cfg, req[r])), runtimes' = WithPool(r, p)
    PROVE  RuntimesComplete'
<1>1. Works(r)
    BY AtModel, Working
<1>2. /\ Model(r).provider \in DOMAIN Rt(r).pools
      /\ p \in PoolsOf(Rt(r).cfg.providers[Model(r).provider].usableKeys)
    BY AtModel
<1>3. \A x \in DOMAIN runtimes' : RuntimeOK(runtimes'[x])
    BY <1>1, <1>2, PoolIsComplete
<1> QED BY <1>3 DEF RuntimesComplete

LEMMA KeysExhaustedSound ==
    ASSUME IInv, TypesFit, NEW r \in Requests, KeysExhausted(r) PROVE StaysSound(r)
<1>1. req[r].pc \in AtCandidate /\ req' = NextCandidate(r) /\ UNCHANGED runtimes
    BY DEF KeysExhausted, AtCandidate
<1>2. RuntimesComplete'
    BY <1>1, SameRuntimes DEF TypesFit, RuntimesComplete
<1> QED BY <1>1, <1>2, GivesUpSound DEF StaysSound

LEMMA AttemptTimesOutSound ==
    ASSUME IInv, TypesFit, NEW r \in Requests, AttemptTimesOut(r) PROVE StaysSound(r)
<1>1. req[r].pc \in HasKey /\ req' = ToCharge(r, 0) /\ UNCHANGED runtimes
    BY DEF AttemptTimesOut, HasKey
<1>2. RuntimesComplete'
    BY <1>1, SameRuntimes DEF TypesFit, RuntimesComplete
<1> QED BY <1>1, <1>2, ChargingSound DEF StaysSound

LEMMA RejectAnswerSound ==
    ASSUME IInv, TypesFit, NEW r \in Requests, RejectAnswer(r) PROVE StaysSound(r)
<1>1. req[r].pc \in HasKey /\ req' = ToCharge(r, 0) /\ UNCHANGED runtimes
    BY DEF RejectAnswer, HasKey
<1>2. RuntimesComplete'
    BY <1>1, SameRuntimes DEF TypesFit, RuntimesComplete
<1> QED BY <1>1, <1>2, ChargingSound DEF StaysSound

LEMMA TakeKeySound ==
    ASSUME IInv, TypesFit, NEW r \in Requests, TakeKey(r) PROVE StaysSound(r)
<1> DEFINE c == Rt(r).cfg
           n == KeyCount(c, req[r])
           k == NextKey(Pool(r))
           q == req'[r]
<1>1. req[r].pc \in AtCandidate /\ req[r].pc = "keys"
    BY DEF TakeKey, AtCandidate
<1>2. InProgress(r) /\ n \in Nat /\ Pool(r) \in PoolsOf(n)
    BY <1>1, AtModel
<1>3. /\ Works(r) /\ c \in Configs /\ Valid(c) /\ Sound(c, req[r]) /\ FieldsOK(c, req[r])
    BY <1>2, Working
<1>4. RuntimesComplete'
    <2>1. Advance(Pool(r)) \in PoolsOf(n)
        BY <1>2, PoolStays
    <2> QED BY <1>1, <2>1, PoolChanges DEF TakeKey
<1>5. CASE k = NoKey
    BY <1>1, <1>4, <1>5, GivesUpSound DEF TakeKey, StaysSound
<1>6. CASE k # NoKey
    <2>1. req' = [req EXCEPT ![r].pc = "flight", ![r].key = k, ![r].timer = req[r].budget]
        BY <1>6 DEF TakeKey
    <2>2. k \in 0 .. n - 1
        <3>1. Hits(Pool(r)) # {}
            BY <1>6 DEF NextKey
        <3> QED BY <1>2, <3>1, HandsOutUsable
    <2> HIDE DEF k
    <2>3. /\ q.pc = "flight" /\ q.key = k /\ q.timer = req[r].budget /\ SamePlace(q, req[r])
          /\ q.tries = req[r].tries /\ q.budget = req[r].budget /\ q.ra = req[r].ra
        BY <1>3, <2>1 DEF IInv, Works, Fields, Arrived, SamePlace
    <2>4. KeyCount(c, q) = n
        BY <2>3 DEF KeyCount, SamePlace
    <2> HIDE DEF q
    <2>5. FieldsOK(c, q)
        <3> HIDE DEF n
        <3>1. req[r].ci \in 1 .. Len(req[r].plan)
            BY <1>1, <1>3, HasCandidate
        <3> QED BY <1>3, <2>2, <2>3, <2>4, <3>1 DEF FieldsOK, AtCandidate, HasKey, SamePlace
    <2>6. ASSUME ~req[r].in.stream PROVE TimeOK(c, q)
        <3> DEFINE T == c.requestTimeout
                   b == req[r].budget
                   t == req[r].tries
        <3>1. b \in 0 .. T /\ req[r].spent <= T + (t - 1) * b
            BY <1>1, <1>3, <2>6 DEF Sound, TimeOK
        <3>2. t < n
            BY <1>2 DEF TakeKey, PoolsOf
        <3>3. t \in Nat /\ req[r].spent \in Nat /\ T \in Nat
            BY <1>3, ValidConfig DEF FieldsOK
        <3>4. b \in Nat
            <4> HIDE DEF T, b
            <4> QED BY <3>1, <3>3
        <3>5. req[r].spent + b <= T + t * b
            <4> HIDE DEF T, b, t
            <4>1. (t - 1) * b = t * b - b /\ t * b \in Int
                BY <3>3, <3>4
            <4> QED BY <3>1, <3>3, <3>4, <4>1
        <3> HIDE DEF n, T
        <3> QED BY <2>3, <2>4, <3>1, <3>2, <3>4, <3>5 DEF TimeOK, HasKey, SamePlace, T
    <2>7. q.gen = Gen(r) /\ q.in = req[r].in
        BY <2>3 DEF SamePlace, Gen
    <2>8. Sound(runtimes[q.gen].cfg, q)
        BY <2>5, <2>6, <2>7 DEF Sound, Rt
    <2> QED BY <1>4, <2>8 DEF StaysSound, q
<1> QED BY <1>5, <1>6

LEMMA CoolingDown ==
    ASSUME IInv, TypesFit, NEW r \in Requests, req[r].pc \in AtCandidate, NEW d \in Nat,
           NEW k, runtimes' = WithPool(r, CoolDown(Pool(r), k, d))
    PROVE  RuntimesComplete'
<1>1. KeyCount(Rt(r).cfg, req[r]) \in Nat /\ Pool(r) \in PoolsOf(KeyCount(Rt(r).cfg, req[r]))
    BY AtModel
<1>2. CoolDown(Pool(r), k, d) \in PoolsOf(KeyCount(Rt(r).cfg, req[r]))
    BY <1>1, PoolStays
<1> QED BY <1>2, PoolChanges

LEMMA TransportErrorSound ==
    ASSUME IInv, TypesFit, NEW r \in Requests, TransportError(r) PROVE StaysSound(r)
<1>1. req[r].pc \in HasKey /\ req[r].pc \in AtCandidate /\ req' = NextTry(r)
    BY DEF TransportError, HasKey, AtCandidate
<1>2. RuntimesComplete'
    BY <1>1, CoolingDown, TimesAssumption DEF TransportError
<1> QED BY <1>1, <1>2, RetrySound DEF StaysSound

LEMMA HeadersSound ==
    ASSUME IInv, TypesFit, NEW r \in Requests, NEW reply \in Replies, Headers(r, reply)
    PROVE  StaysSound(r)
<1> DEFINE c == Rt(r).cfg
           q == req'[r]
           p == req[r]
<1>1. p.pc = "flight" /\ InProgress(r) /\ UNCHANGED runtimes
    BY DEF Headers, InProgress
<1>2. /\ Works(r) /\ c \in Configs /\ Valid(c) /\ Sound(c, p) /\ FieldsOK(c, p)
      /\ RuntimesComplete
    BY <1>1, Working
<1>3. /\ q.pc \in {"success", "rejected"} /\ q.reply = reply
      /\ q.timer = IF p.in.stream THEN NoTimer ELSE p.timer
      /\ SamePlace(q, p) /\ q.key = p.key
      /\ q.tries = p.tries /\ q.budget = p.budget /\ q.ra = p.ra
    BY <1>2, ZenonT(30) DEF Headers, IInv, Works, Fields, Arrived, SamePlace
<1>4. reply.retryAfter \in Nat /\ KeyCount(c, q) = KeyCount(c, p)
    BY <1>3, TimesAssumption DEF KeyCount, SamePlace
<1> HIDE DEF q
<1>5. FieldsOK(c, q)
    <2>1. p.ci \in 1 .. Len(p.plan)
        BY <1>1, <1>2, HasCandidate DEF AtCandidate, HasKey
    <2>2. p.key \in 0 .. KeyCount(c, p) - 1
        BY <1>1, <1>2 DEF FieldsOK, HasKey
    <2> QED BY <1>2, <1>3, <1>4, <2>1, <2>2 DEF FieldsOK, AtCandidate, HasKey, SamePlace
<1>6. ~p.in.stream => TimeOK(c, q)
    BY <1>1, <1>2, <1>3, <1>4 DEF Sound, TimeOK, HasKey, SamePlace
<1>7. q.gen = Gen(r) /\ q.in = p.in
    BY <1>3 DEF SamePlace, Gen
<1>8. Sound(runtimes[q.gen].cfg, q)
    BY <1>5, <1>6, <1>7 DEF Sound, Rt
<1> QED BY <1>1, <1>2, <1>8, SameRuntimes DEF StaysSound, q

LEMMA HealthChanges ==
    ASSUME IInv, TypesFit, NEW r \in Requests, Works(r), NEW h \in HealthOf(Rt(r).cfg),
           runtimes' = WithHealth(r, h)
    PROVE  RuntimesComplete'
<1>1. \A x \in DOMAIN runtimes' : RuntimeOK(runtimes'[x])
    BY HealthIsComplete
<1> QED BY <1>1 DEF RuntimesComplete

LEMMA AcceptAnswerSound ==
    ASSUME IInv, TypesFit, NEW r \in Requests, AcceptAnswer(r) PROVE StaysSound(r)
<1> DEFINE c == Rt(r).cfg
           q == req'[r]
           p == req[r]
<1>1. p.pc = "success" /\ InProgress(r)
    BY DEF AcceptAnswer, InProgress
<1>2. /\ Works(r) /\ c \in Configs /\ Valid(c) /\ Sound(c, p) /\ FieldsOK(c, p)
      /\ RuntimeOK(Rt(r))
    BY <1>1, Working
<1>3. RuntimesComplete'
    <2>1. Success(Rt(r).health, Alias(r)) \in HealthOf(c)
        BY <1>2, RuntimeHas, HealthStays
    <2> QED BY <1>2, <2>1, HealthChanges DEF AcceptAnswer
<1>4. ASSUME NEW a, req' = EndedWith(r, a) PROVE StaysSound(r)
    BY <1>2, <1>3, <1>4, EndIs DEF StaysSound
<1>5. ASSUME req' = [req EXCEPT ![r].pc = "storing", ![r].timer = NoTimer],
             Cacheable(c, Model(r), req[r].in)
      PROVE  StaysSound(r)
    <2>1. /\ q.pc = "storing" /\ SamePlace(q, p)
          /\ q.tries = p.tries /\ q.budget = p.budget /\ q.ra = p.ra
        BY <1>2, <1>5 DEF IInv, Works, Fields, Arrived, SamePlace
    <2> HIDE DEF q
    <2>2. FieldsOK(c, q)
        <3>1. p.ci \in 1 .. Len(p.plan)
            BY <1>1, <1>2, HasCandidate DEF AtCandidate, HasKey
        <3>2. Cacheable(c, c.models[q.plan[q.ci]], q.in)
            BY <1>5, <2>1 DEF SamePlace, Model, Alias
        <3> QED BY <1>2, <2>1, <3>1, <3>2 DEF FieldsOK, AtCandidate, HasKey, SamePlace
    <2>3. ~p.in.stream => p.spent <= c.requestTimeout * MostKeys(c)
        BY <1>1, <1>2, CandidateBounded DEF Sound, AtCandidate, HasKey
    <2>4. ~p.in.stream => TimeOK(c, q)
        BY <2>1, <2>3 DEF TimeOK, HasKey, SamePlace
    <2>5. q.gen = Gen(r) /\ q.in = p.in
        BY <2>1 DEF SamePlace, Gen
    <2>6. Sound(runtimes[q.gen].cfg, q)
        BY <2>2, <2>4, <2>5 DEF Sound, Rt
    <2> QED BY <1>3, <2>6 DEF StaysSound, q
<1> QED BY <1>4, <1>5 DEF AcceptAnswer

LEMMA SaveAnswerSound ==
    ASSUME IInv, TypesFit, NEW r \in Requests, SaveAnswer(r) PROVE StaysSound(r)
<1>1. InProgress(r)
    BY DEF SaveAnswer, InProgress
<1>2. Works(r) /\ RuntimesComplete
    BY <1>1, Working
<1>3. UNCHANGED runtimes \/ \E m : runtimes' = WithCache(r, m)
    BY DEF SaveAnswer
<1>4. ASSUME NEW m, runtimes' = WithCache(r, m) PROVE RuntimesComplete'
    <2>1. Gen(r) \in DOMAIN runtimes
        BY <1>2 DEF Works
    <2>2. \A x \in DOMAIN runtimes' : RuntimeOK(runtimes'[x])
        BY <1>4, <2>1, CacheIsComplete DEF WithCache
    <2> QED BY <2>2 DEF RuntimesComplete
<1>5. RuntimesComplete'
    BY <1>2, <1>3, <1>4, SameRuntimes
<1>6. \E a : req' = EndedWith(r, a)
    BY DEF SaveAnswer
<1> QED BY <1>2, <1>5, <1>6, EndIs DEF StaysSound

LEMMA DecisionsTyped ==
    ASSUME NEW kind, NEW reply, reply.retryAfter \in Nat
    PROVE  Classify(kind, reply).retryAfter \in Nat
BY DEF Classify, Decision

LEMMA ReadRejectionSound ==
    ASSUME IInv, TypesFit, NEW r \in Requests, ReadRejection(r) PROVE StaysSound(r)
<1>1. req[r].pc = "rejected" /\ req[r].pc \in HasKey /\ req[r].pc \in AtCandidate
    BY DEF ReadRejection, HasKey, AtCandidate
<1>2. InProgress(r) /\ Pool(r) \in PoolsOf(KeyCount(Rt(r).cfg, req[r]))
      /\ KeyCount(Rt(r).cfg, req[r]) \in Nat
    BY <1>1, AtModel
<1>3. Works(r) /\ RuntimesComplete /\ req[r].reply.retryAfter \in Nat
    BY <1>1, <1>2, Working DEF FieldsOK
<1>4. \A d \in Decisions(r) : d.retryAfter \in Nat
    <2>1. ASSUME NEW d \in Decisions(r) PROVE d.retryAfter \in Nat
        <3>1. PICK x : d = Classify(Kind(r), [status |-> req[r].reply.status,
                                contextLength |-> x, retryAfter |-> req[r].reply.retryAfter])
            BY DEF Decisions
        <3> QED BY <1>3, <3>1, DecisionsTyped
    <2> QED BY <2>1
<1>5. PICK d \in Decisions(r) :
        \/ /\ runtimes' = WithPool(r, DisableKey(Pool(r), req[r].key))
           /\ req' = NextTry(r)
        \/ /\ runtimes' = WithPool(r, CoolDown(Pool(r), req[r].key,
                            IF d.retryAfter > KeyCooldown THEN d.retryAfter
                            ELSE KeyCooldown))
           /\ req' = NextTry(r)
        \/ /\ runtimes' = IF d.cooldownCredential
                          THEN WithPool(r, CoolDown(Pool(r), req[r].key,
                                            MinPositive(d.retryAfter, KeyCooldown)))
                          ELSE runtimes
           /\ req' = ToCharge(r, d.retryAfter)
        \/ req' = NextCandidate(r) /\ UNCHANGED runtimes
        \/ req' = EndedWith(r, [kind |-> "rejection"]) /\ UNCHANGED runtimes
    BY DEF ReadRejection
<1>6. d.retryAfter \in Nat /\ KeyCooldown \in Nat
    BY <1>4, TimesAssumption
<1>7. /\ (IF d.retryAfter > KeyCooldown THEN d.retryAfter ELSE KeyCooldown) \in Nat
      /\ MinPositive(d.retryAfter, KeyCooldown) \in Nat
    BY <1>6 DEF MinPositive
<1>8. DisableKey(Pool(r), req[r].key) \in PoolsOf(KeyCount(Rt(r).cfg, req[r]))
    BY <1>2, PoolStays
<1>9. RuntimesComplete'
    <2>1. ASSUME runtimes' = WithPool(r, DisableKey(Pool(r), req[r].key)) PROVE RuntimesComplete'
        BY <1>1, <1>8, <2>1, PoolChanges
    <2>2. ASSUME NEW w \in Nat, runtimes' = WithPool(r, CoolDown(Pool(r), req[r].key, w))
          PROVE  RuntimesComplete'
        BY <1>1, <2>2, CoolingDown
    <2> QED BY <1>3, <1>5, <1>7, <2>1, <2>2, SameRuntimes
<1>10. req'[r].pc # "done" => Sound(runtimes[req'[r].gen].cfg, req'[r])
    BY <1>1, <1>3, <1>5, <1>6, RetrySound, ChargingSound, GivesUpSound, EndIs
<1> QED BY <1>9, <1>10 DEF StaysSound

LEMMA ChargeSound ==
    ASSUME IInv, TypesFit, NEW r \in Requests, Charge(r) PROVE StaysSound(r)
<1>1. req[r].pc \in AtCandidate /\ InProgress(r)
    BY DEF Charge, AtCandidate, InProgress
<1>2. Works(r) /\ RuntimeOK(Rt(r)) /\ FieldsOK(Rt(r).cfg, req[r])
    BY <1>1, Working
<1>3. Failure(Rt(r).cfg, Rt(r).health, Alias(r), req[r].ra) \in HealthOf(Rt(r).cfg)
    BY <1>2, RuntimeHas, HealthStays DEF FieldsOK
<1>4. RuntimesComplete'
    BY <1>2, <1>3, HealthChanges DEF Charge
<1> QED BY <1>1, <1>4, GivesUpSound DEF Charge, StaysSound

LEMMA RequestSound ==
    ASSUME IInv, TypesFit, NEW r \in Requests, Compute(r) \/ React(r) PROVE StaysSound(r)
<1>1. ASSUME FailRequest(r, metrics) \/ \E m : FailRequest(r, m), InProgress(r), UNCHANGED runtimes
      PROVE  StaysSound(r)
    BY <1>1, FailureSound
<1>2. BadRequest(r) \/ Exhausted(r) \/ OutOfTime(r) \/ CannotPatch(r)
        \/ AttemptCanceled(r) => StaysSound(r)
    BY <1>1 DEF BadRequest, Exhausted, OutOfTime, CannotPatch, HasTurn, AttemptCanceled, InProgress
<1>3. CASE Compute(r)
    BY <1>2, <1>3, CountFallbackSound, TryCandidateSound, KeysExhaustedSound, TakeKeySound,
       AttemptTimesOutSound, SaveAnswerSound, ChargeSound, ReadRejectionSound,
       RejectAnswerSound, AcceptAnswerSound DEF Compute
<1>4. CASE React(r)
    BY <1>2, <1>4, AcceptSound, PlanSound, TransportErrorSound, HeadersSound,
       AcceptAnswerSound, RejectAnswerSound, ReadRejectionSound DEF React
<1> QED BY <1>3, <1>4

LEMMA GoneStays == ASSUME NEW r \in Requests, Compute(r) \/ React(r) PROVE gone' = gone
BY DEF Compute, React, Exhausted, CountFallback, OutOfTime, CannotPatch, TryCandidate,
       KeysExhausted, TakeKey, AttemptCanceled, AttemptTimesOut, SaveAnswer, Charge, BadRequest, ReadRejection,
       RejectAnswer, AcceptAnswer, Accept, Plan, TransportError, Headers

LEMMA RequestStepFits ==
    ASSUME IInv, TypesFit, NEW r \in Requests, Compute(r) \/ React(r) PROVE TypesFit'
<1>1. Kept(r) /\ StaysSound(r) /\ gone' = gone
    BY RequestKept, RequestSound, GoneStays
<1>2. \A g \in DOMAIN runtimes : runtimes'[g].cfg = runtimes[g].cfg
    BY <1>1 DEF Kept, Learns
<1>3. ASSUME NEW x \in Requests \ {r}, InProgress(x)' PROVE Sound(Rt(x).cfg, req[x])'
    <2>1. req'[x] = req[x] /\ InProgress(x)
        BY <1>1, <1>3 DEF Kept, OnlyMoves, InProgress
    <2>2. Works(x) /\ Sound(Rt(x).cfg, req[x])
        BY <2>1, Working
    <2> QED BY <1>2, <2>1, <2>2 DEF Works, Rt, Gen
<1>4. ASSUME InProgress(r)' PROVE Sound(Rt(r).cfg, req[r])'
    <2>1. req'[r].pc # "done" /\ req'[r].gen \in DOMAIN runtimes
        BY <1>1, <1>4 DEF InProgress, Kept, RequestFits, Idle
    <2> QED BY <1>1, <1>2, <2>1 DEF StaysSound, Rt, Gen
<1>5. RuntimesComplete' /\ gone' \subseteq Requests
    BY <1>1 DEF StaysSound, TypesFit
<1> QED BY <1>3, <1>4, <1>5 DEF TypesFit, RuntimesComplete

-----------------------------------------------------------------------------
(* The environment keeps them too.                                         *)

LEMMA ReloadFits == ASSUME IInv, TypesFit, NEW c \in Configs, Reload(c) PROVE TypesFit'
<1> DEFINE b == BuildState(c)
<1>1. runtimes' = Append(runtimes, b) /\ UNCHANGED <<req, gone>> /\ RuntimeOK(b)
    BY StartsComplete DEF Reload
<1> HIDE DEF b
<1>2. PICK S : runtimes \in Seq(S)
    BY DEF IInv
<1>3. runtimes \in Seq(S \cup {b})
    BY <1>2
<1>4. \A g \in DOMAIN runtimes : runtimes'[g] = runtimes[g]
    BY <1>1, <1>3
<1>5. \A g \in DOMAIN runtimes' : g \in DOMAIN runtimes \/ runtimes'[g] = b
    BY <1>1, <1>3
<1>6. \A g \in DOMAIN runtimes' : RuntimeOK(runtimes'[g])
    BY <1>1, <1>4, <1>5 DEF TypesFit
<1>7. ASSUME NEW x \in Requests, InProgress(x)' PROVE Sound(Rt(x).cfg, req[x])'
    <2>1. req'[x] = req[x] /\ InProgress(x)
        BY <1>1, <1>7 DEF InProgress
    <2>2. Works(x) /\ Sound(Rt(x).cfg, req[x])
        BY <2>1, Working
    <2> QED BY <1>4, <2>1, <2>2 DEF Works, Rt, Gen
<1> QED BY <1>1, <1>6, <1>7 DEF TypesFit

LEMMA ScrapeFits == ASSUME IInv, TypesFit, Scrape PROVE TypesFit'
<1> DEFINE l == Len(runtimes)
<1>1. PICK S : runtimes \in Seq(S)
    BY DEF IInv
<1>2. l \in DOMAIN runtimes
    BY <1>1 DEF IInv
<1>3. runtimes' = [runtimes EXCEPT ![l].cache = Prune(runtimes[l].cache)]
      /\ UNCHANGED <<req, gone>>
    BY DEF Scrape
<1>4. \A g \in DOMAIN runtimes' : RuntimeOK(runtimes'[g])
    BY <1>2, <1>3, CacheIsComplete
<1>5. \A g \in DOMAIN runtimes : runtimes'[g].cfg = runtimes[g].cfg
    <2>1. RuntimeFits(runtimes[l])
        BY <1>2 DEF IInv
    <2> QED BY <1>2, <1>3, <2>1 DEF RuntimeFits
<1>6. ASSUME NEW x \in Requests, InProgress(x)' PROVE Sound(Rt(x).cfg, req[x])'
    <2>1. req'[x] = req[x] /\ InProgress(x)
        BY <1>3, <1>6 DEF InProgress
    <2>2. Works(x) /\ Sound(Rt(x).cfg, req[x])
        BY <2>1, Working
    <2> QED BY <1>5, <2>1, <2>2 DEF Works, Rt, Gen
<1> QED BY <1>3, <1>4, <1>6 DEF TypesFit

\* What time does to a runtime state.
Aged(rt) == [rt EXCEPT !.health = ElapseHealth(@),
                       !.pools = [p \in DOMAIN @ |-> Elapse(@[p])],
                       !.cache = ElapseCache(@)]

LEMMA AgedIsComplete ==
    ASSUME NEW rt, RuntimeFits(rt), RuntimeOK(rt)
    PROVE  RuntimeOK(Aged(rt)) /\ Aged(rt).cfg = rt.cfg
<1> DEFINE h == ElapseHealth(rt.health)
           ps == [p \in DOMAIN rt.pools |-> Elapse(rt.pools[p])]
           a == Aged(rt)
<1>1. a.cfg = rt.cfg /\ a.health = h /\ a.pools = ps
    BY DEF RuntimeFits, Aged
<1>2. h \in [DOMAIN rt.cfg.models -> HealthState]
    BY RuntimeHas, HealthStays DEF HealthOf
<1>3. ASSUME NEW p \in DOMAIN rt.pools
      PROVE  Elapse(rt.pools[p]) \in PoolsOf(rt.cfg.providers[p].usableKeys)
    <2>1. rt.cfg.providers[p].usableKeys \in Nat
        BY ValidConfig DEF RuntimeOK
    <2> QED BY <2>1, PoolStays DEF RuntimeOK
<1>4. DOMAIN rt.health = DOMAIN rt.cfg.models
    BY DEF RuntimeOK
<1> HIDE DEF a, h
<1> QED BY <1>1, <1>2, <1>3, <1>4 DEF RuntimeOK, a

LEMMA RequestAgesSoundly ==
    ASSUME IInv, TypesFit, Tick, NEW r \in Requests, InProgress(r)
    PROVE  Sound(Rt(r).cfg, req'[r]) /\ req'[r].gen = req[r].gen
<1> DEFINE c == Rt(r).cfg
           p == req[r]
           q == req'[r]
<1>1. /\ Works(r) /\ Sound(c, p) /\ FieldsOK(c, p) /\ c \in Configs /\ Valid(c)
      /\ Waiting(r)
    BY Working DEF Tick
<1>2. CASE p.pc = "reading"
    <2>1. q = p
        BY <1>2 DEF Tick
    <2> QED BY <1>1, <2>1
<1>3. CASE p.pc # "reading"
    <2> DEFINE t == IF p.timer > 0 THEN p.timer - 1 ELSE p.timer
               n == IF p.spent < MaxSpent THEN p.spent + 1 ELSE p.spent
    <2>1. q = [p EXCEPT !.timer = t, !.spent = n]
        BY <1>3 DEF Tick
    <2>2. p.pc \in HasKey /\ p.timer # 0
        BY <1>1, <1>3 DEF Waiting, HasKey
    <2>3. n \in Nat /\ n <= p.spent + 1 /\ p.spent \in Nat
        BY <1>1 DEF FieldsOK
    <2>4. p.timer \in Nat => p.timer \in Nat \ {0} /\ t = p.timer - 1
        BY <2>2
    <2> HIDE DEF t, n, q
    <2>5. /\ q.pc = p.pc /\ q.gen = p.gen /\ q.in = p.in /\ q.plan = p.plan /\ q.ci = p.ci
          /\ q.key = p.key /\ q.reply = p.reply /\ q.tries = p.tries /\ q.budget = p.budget
          /\ q.ra = p.ra /\ q.timer = t /\ q.spent = n
        BY <1>1, <2>1 DEF Works, Fields, Arrived
    <2>6. KeyCount(c, q) = KeyCount(c, p)
        BY <2>5 DEF KeyCount
    <2>7. FieldsOK(c, q)
        BY <1>1, <2>2, <2>3, <2>5, <2>6 DEF FieldsOK, HasKey
    <2>8. ASSUME ~p.in.stream PROVE TimeOK(c, q)
        <3>1. /\ p.budget \in 0 .. c.requestTimeout /\ p.tries < KeyCount(c, p)
              /\ p.timer \in Nat /\ p.spent + p.timer <= c.requestTimeout + p.tries * p.budget
            BY <1>1, <2>2, <2>8 DEF Sound, TimeOK
        <3>2. t \in Nat /\ n + t <= p.spent + p.timer
            BY <2>3, <2>4, <3>1
        <3>3. c.requestTimeout + p.tries * p.budget \in Int
            BY <1>1, <3>1, ValidConfig DEF FieldsOK
        <3>4. n + t <= c.requestTimeout + p.tries * p.budget
            BY <2>3, <3>1, <3>2, <3>3
        <3> QED BY <2>2, <2>5, <2>6, <3>1, <3>2, <3>4 DEF TimeOK, HasKey
    <2> QED BY <2>5, <2>7, <2>8 DEF Sound, q
<1> QED BY <1>2, <1>3

LEMMA TickFits == ASSUME IInv, TypesFit, Tick PROVE TypesFit'
<1>1. runtimes' = [g \in DOMAIN runtimes |-> Aged(runtimes[g])] /\ UNCHANGED gone
    BY DEF Tick, Aged
<1>2. \A g \in DOMAIN runtimes :
        RuntimeOK(runtimes'[g]) /\ runtimes'[g].cfg = runtimes[g].cfg
    BY <1>1, AgedIsComplete DEF IInv, TypesFit
<1>3. ASSUME NEW x \in Requests, InProgress(x)' PROVE Sound(Rt(x).cfg, req[x])'
    <2>1. InProgress(x)
        BY <1>3, RequestAges DEF InProgress
    <2>2. Works(x) /\ Sound(Rt(x).cfg, req'[x]) /\ req'[x].gen = req[x].gen
        BY <2>1, Working, RequestAgesSoundly
    <2> QED BY <1>2, <2>2 DEF Works, Rt, Gen
<1>4. \A g \in DOMAIN runtimes' : RuntimeOK(runtimes'[g])
    BY <1>1, <1>2
<1> QED BY <1>1, <1>3, <1>4 DEF TypesFit

LEMMA FitAtFirst == ASSUME Init PROVE TypesFit
<1> DEFINE b == BuildState(FirstConfig)
<1>1. RuntimeOK(b)
    BY ConfigsAssumption, StartsComplete
<1> HIDE DEF b
<1>2. runtimes = <<b>> /\ req = [r \in Requests |-> Idle] /\ gone = {}
    BY DEF Init, b
<1>3. \A r \in Requests : ~InProgress(r)
    BY <1>2 DEF InProgress, Idle
<1> QED BY <1>1, <1>2, <1>3 DEF TypesFit

LEMMA StepFits == ASSUME IInv, TypesFit, [Next]_vars PROVE TypesFit'
<1>1. CASE UNCHANGED vars
    BY <1>1 DEF vars, TypesFit, InProgress, Rt, Gen
<1>2. ASSUME NEW r \in Requests, ClientLeaves(r) PROVE TypesFit'
    BY <1>2 DEF ClientLeaves, TypesFit, InProgress, Rt, Gen
<1> QED BY <1>1, <1>2, RequestStepFits, ReloadFits, ScrapeFits, TickFits DEF Next

LEMMA TypesAlwaysFit == Spec => []TypesFit
BY FitAtFirst, StepFits, AlwaysFits, PTL DEF Spec

\* Whatever is reloaded while it is under way, a request has its plan, its
\* model and its key in the runtime state it captured, and every such state is
\* complete (buildState, Reload, routeRequest).
THEOREM GatewayTypeCorrect == Spec => []TypeOK
<1>1. ASSUME IInv, TypesFit, NEW r \in Requests, InProgress(r) PROVE RequestOK(r)
    <2> DEFINE c == Rt(r).cfg
               n == KeyCount(c, req[r])
    <2>1. Works(r) /\ c \in Configs /\ Valid(c) /\ FieldsOK(c, req[r])
        BY <1>1, Working
    <2>2. Range(req[r].plan) \subseteq DOMAIN c.models
        <3>1. req[r].plan \in Seq(DOMAIN c.models)
            BY <2>1 DEF FieldsOK
        <3> HIDE DEF c
        <3> QED BY <3>1, ElementType DEF Range
    <2>3. ASSUME req[r].pc \notin {"reading", "candidate"} PROVE req[r].ci \in DOMAIN req[r].plan
        BY <2>1, <2>3, PlacesOf DEF FieldsOK
    <2>4. ASSUME req[r].pc \in {"flight", "rejected"} PROVE req[r].key \in DOMAIN Pool(r).keys
        <3>1. req[r].pc \in HasKey /\ req[r].pc \in AtCandidate
            BY <2>4 DEF HasKey, AtCandidate
        <3>2. req[r].key \in 0 .. n - 1
            BY <2>1, <3>1 DEF FieldsOK
        <3>3. Pool(r) \in PoolsOf(n)
            BY <1>1, <3>1, AtModel
        <3> HIDE DEF n
        <3> QED BY <3>2, <3>3 DEF PoolsOf
    <2> QED BY <2>1, <2>2, <2>3, <2>4 DEF RequestOK, Works
<1>2. IInv /\ TypesFit => TypeOK
    BY <1>1 DEF TypeOK, TypesFit, RequestOK
<1> QED BY <1>2, AlwaysFits, TypesAlwaysFit, PTL

\* A request that is no stream is routed within `request_timeout` for each key
\* of the candidate that has most, however its attempts end and whatever the
\* others do (routeRequest, effectiveAttemptTimeout).
THEOREM RoutingTakesBoundedTime == Spec => []RoutingIsBounded
<1>1. ASSUME IInv, TypesFit, NEW r \in Requests, InProgress(r), ~req[r].in.stream
      PROVE  req[r].spent <= Rt(r).cfg.requestTimeout * MostKeys(Rt(r).cfg)
    <2> DEFINE c == Rt(r).cfg
    <2>1. c \in Configs /\ Valid(c) /\ FieldsOK(c, req[r]) /\ TimeOK(c, req[r])
        BY <1>1, Working DEF Sound
    <2>2. CASE req[r].pc = "reading"
        <3>1. req[r].spent = 0
            BY <2>1, <2>2 DEF FieldsOK, AtCandidate, HasKey
        <3>2. c.requestTimeout * MostKeys(c) \in Nat
            BY <2>1, ValidConfig, MostKeysIsMost
        <3> QED BY <3>1, <3>2
    <2>3. CASE req[r].pc # "reading"
        <3>1. req[r].pc \in AtCandidate \cup {"candidate"}
            BY <2>1, <2>3 DEF FieldsOK
        <3> QED BY <2>1, <3>1, CandidateBounded
    <2> QED BY <2>2, <2>3
<1>2. IInv /\ TypesFit => RoutingIsBounded
    BY <1>1 DEF RoutingIsBounded
<1> QED BY <1>2, AlwaysFits, TypesAlwaysFit, PTL

-----------------------------------------------------------------------------
(* The counters.                                                           *)

ModelMetrics == [attempts : Nat, successes : Nat, failures : Nat, timeouts : Nat, fallbacks : Nat]
Metrics ==
    [requests : Nat, attempts : Nat, fallbacks : Nat, errors : Nat,
     cacheHits : Nat, cacheMisses : Nat, cacheStores : Nat,
     models : [AllAliases -> ModelMetrics]]

\* The counters of each model agree with each other.
ModelsAgree(m) ==
    \A a \in AllAliases :
        /\ m.models[a].attempts = m.models[a].successes + m.models[a].failures
        /\ m.models[a].timeouts <= m.models[a].failures

\* What the counters of m say of the attempts that are under way, of the
\* fallbacks that are not yet a model's, and of the answers that were looked
\* for in a cache and not stored there.
OfModels(m, counter) == SumOver([a \in AllAliases |-> m.models[a][counter]], AllAliases)
Flying(m) == m.attempts - OfModels(m, "attempts")
Between(m) == m.fallbacks - OfModels(m, "fallbacks")
Unstored(m) == m.cacheMisses - m.cacheStores

\* A request that looked for its answer in a cache and may yet store it there.
Looking(cfg, q) ==
    /\ q.pc \in {"keys", "storing"} \cup HasKey
    /\ Cacheable(cfg, cfg.models[q.plan[q.ci]], q.in)

Failed(q) == q.pc = "done" /\ q.answer.kind = "error"

\* The requests the counters count.
Came == {r \in Requests : req[r].pc # "idle"}
Erred == {r \in Requests : Failed(req[r])}
FallingBack == {r \in Requests : req[r].pc = "fallback"}
Lookers == {r \in Requests : Looking(Rt(r).cfg, req[r])}

CountsFit ==
    /\ metrics \in Metrics /\ ModelsAgree(metrics)
    /\ metrics.requests = Cardinality(Came)
    /\ metrics.errors = Cardinality(Erred)
    /\ Between(metrics) = Cardinality(FallingBack)
    /\ Flying(metrics) = Cardinality(UnderWay)
    /\ Cardinality(Lookers) <= Unstored(metrics)

\* 1 for what is so.
One(b) == IF b THEN 1 ELSE 0

LEMMA CountMoves ==
    ASSUME NEW R, IsFiniteSet(R), NEW S \in SUBSET R, NEW T \in SUBSET R, NEW x,
           \A y \in R \ {x} : y \in S <=> y \in T
    PROVE  /\ Cardinality(S) \in Nat /\ Cardinality(T) \in Nat
           /\ Cardinality(T) = Cardinality(S) + One(x \in T) - One(x \in S)
<1> DEFINE U == S \ {x}
<1>1. IsFiniteSet(S) /\ IsFiniteSet(T) /\ IsFiniteSet(U)
    BY FS_Subset
<1>2. Cardinality(S) \in Nat /\ Cardinality(T) \in Nat /\ Cardinality(U) \in Nat
    BY <1>1, FS_CardinalityType
<1>3. T \ {x} = U
    OBVIOUS
<1>4. Cardinality(S) = Cardinality(U) + One(x \in S)
    <2>1. CASE x \in S
        <3>1. Cardinality(S \ {x}) = Cardinality(S) - 1
            BY <1>1, <2>1, FS_RemoveElement
        <3> QED BY <1>2, <2>1, <3>1 DEF One
    <2>2. CASE x \notin S
        <3>1. S = U
            BY <2>2
        <3> QED BY <1>2, <2>2, <3>1 DEF One
    <2> QED BY <2>1, <2>2
<1>5. Cardinality(T) = Cardinality(U) + One(x \in T)
    <2>1. CASE x \in T
        <3>1. Cardinality(T \ {x}) = Cardinality(T) - 1
            BY <1>1, <2>1, FS_RemoveElement
        <3> QED BY <1>2, <1>3, <2>1, <3>1 DEF One
    <2>2. CASE x \notin T
        <3>1. T = U
            BY <1>3, <2>2
        <3> QED BY <1>2, <2>2, <3>1 DEF One
    <2> QED BY <2>1, <2>2
<1> HIDE DEF U
<1> QED BY <1>2, <1>4, <1>5 DEF One

\* The sums over the models, and how they change with one model's counters.
LEMMA SumsOfModels ==
    ASSUME NEW m \in Metrics, NEW counter \in {"attempts", "fallbacks"}
    PROVE  OfModels(m, counter) \in Int
<1> DEFINE f == [a \in AllAliases |-> m.models[a][counter]]
<1>1. \A a \in AllAliases : f[a] \in Int
    BY DEF Metrics, ModelMetrics
<1> HIDE DEF f
<1>2. SumOver(f, AllAliases) \in Int
    BY <1>1, CountsAssumption, SumType
<1> QED BY <1>2 DEF OfModels, f

LEMMA OneModelCounts ==
    ASSUME NEW m \in Metrics, NEW n \in Metrics, NEW counter \in {"attempts", "fallbacks"},
           NEW a \in AllAliases, \A b \in AllAliases \ {a} : n.models[b] = m.models[b]
    PROVE  OfModels(n, counter) =
                OfModels(m, counter) + n.models[a][counter] - m.models[a][counter]
<1> DEFINE f == [b \in AllAliases |-> m.models[b][counter]]
           g == [b \in AllAliases |-> n.models[b][counter]]
<1>1. \A b \in AllAliases : f[b] \in Int /\ g[b] \in Int
    BY DEF Metrics, ModelMetrics
<1>2. \A b \in AllAliases \ {a} : f[b] = g[b]
    OBVIOUS
<1>3. f[a] = m.models[a][counter] /\ g[a] = n.models[a][counter]
    OBVIOUS
<1> HIDE DEF f, g
<1>4. SumOver(g, AllAliases) = SumOver(f, AllAliases) + g[a] - f[a]
    BY <1>1, <1>2, CountsAssumption, SumChanges
<1> QED BY <1>3, <1>4 DEF OfModels, f, g

-----------------------------------------------------------------------------
(* How the counters move.                                                  *)

\* From m to n the counters move by so much.
Shifts(m, n, came, erred, falling, flying, unstored) ==
    /\ n \in Metrics /\ ModelsAgree(n)
    /\ n.requests = m.requests + came
    /\ n.errors = m.errors + erred
    /\ Between(n) = Between(m) + falling
    /\ Flying(n) = Flying(m) + flying
    /\ Unstored(n) = Unstored(m) + unstored

LEMMA Balances ==
    ASSUME NEW m \in Metrics
    PROVE  /\ m.requests \in Int /\ m.errors \in Int
           /\ Between(m) \in Int /\ Flying(m) \in Int /\ Unstored(m) \in Int
<1>1. m.attempts \in Int /\ m.fallbacks \in Int /\ m.cacheMisses \in Int /\ m.cacheStores \in Int
      /\ m.requests \in Int /\ m.errors \in Int
    BY DEF Metrics
<1>2. OfModels(m, "attempts") \in Int /\ OfModels(m, "fallbacks") \in Int
    BY SumsOfModels
<1> QED BY <1>1, <1>2 DEF Between, Flying, Unstored

LEMMA NothingShifts ==
    ASSUME NEW m \in Metrics, ModelsAgree(m) PROVE Shifts(m, m, 0, 0, 0, 0, 0)
BY Balances DEF Shifts

LEMMA ShiftsAdd ==
    ASSUME NEW m \in Metrics, NEW n, NEW k,
           NEW a1 \in Int, NEW a2 \in Int, NEW a3 \in Int, NEW a4 \in Int, NEW a5 \in Int,
           NEW b1 \in Int, NEW b2 \in Int, NEW b3 \in Int, NEW b4 \in Int, NEW b5 \in Int,
           Shifts(m, n, a1, a2, a3, a4, a5), Shifts(n, k, b1, b2, b3, b4, b5)
    PROVE  Shifts(m, k, a1 + b1, a2 + b2, a3 + b3, a4 + b4, a5 + b5)
<1>1. /\ m.requests \in Int /\ m.errors \in Int
      /\ Between(m) \in Int /\ Flying(m) \in Int /\ Unstored(m) \in Int
    BY Balances
<1> QED BY <1>1 DEF Shifts

\* A counter of the gateway's own.
LEMMA OwnCounts ==
    ASSUME NEW m \in Metrics, ModelsAgree(m), NEW n, n.models = m.models, n \in Metrics
    PROVE  /\ ModelsAgree(n)
           /\ Between(n) = Between(m) + n.fallbacks - m.fallbacks
           /\ Flying(n) = Flying(m) + n.attempts - m.attempts
<1>1. OfModels(n, "attempts") = OfModels(m, "attempts") /\ OfModels(n, "fallbacks") = OfModels(m, "fallbacks")
    BY DEF OfModels
<1>2. OfModels(m, "attempts") \in Int /\ OfModels(m, "fallbacks") \in Int
    BY SumsOfModels
<1>3. n.fallbacks \in Int /\ m.fallbacks \in Int /\ n.attempts \in Int /\ m.attempts \in Int
    BY DEF Metrics
<1>4. ModelsAgree(n)
    BY DEF ModelsAgree
<1> QED BY <1>1, <1>2, <1>3, <1>4 DEF Between, Flying

\* What one of the gateway's own counters does.
LEMMA OwnCountersShift ==
    ASSUME NEW m \in Metrics, ModelsAgree(m)
    PROVE  /\ Shifts(m, [m EXCEPT !.requests = @ + 1], 1, 0, 0, 0, 0)
           /\ Shifts(m, [m EXCEPT !.errors = @ + 1], 0, 1, 0, 0, 0)
           /\ Shifts(m, [m EXCEPT !.fallbacks = @ + 1], 0, 0, 1, 0, 0)
           /\ Shifts(m, [m EXCEPT !.attempts = @ + 1], 0, 0, 0, 1, 0)
           /\ Shifts(m, [m EXCEPT !.cacheHits = @ + 1], 0, 0, 0, 0, 0)
           /\ Shifts(m, [m EXCEPT !.cacheMisses = @ + 1], 0, 0, 0, 0, 1)
           /\ Shifts(m, [m EXCEPT !.cacheStores = @ + 1], 0, 0, 0, 0, -1)
<1>1. ASSUME NEW n \in Metrics, n.models = m.models,
             NEW d1 \in Int, n.requests = m.requests + d1,
             NEW d2 \in Int, n.errors = m.errors + d2,
             NEW d3 \in Int, n.fallbacks = m.fallbacks + d3,
             NEW d4 \in Int, n.attempts = m.attempts + d4,
             NEW d5 \in Int, n.cacheMisses - n.cacheStores = m.cacheMisses - m.cacheStores + d5
      PROVE  Shifts(m, n, d1, d2, d3, d4, d5)
    <2>1. ModelsAgree(n) /\ Between(n) = Between(m) + n.fallbacks - m.fallbacks
          /\ Flying(n) = Flying(m) + n.attempts - m.attempts
        BY <1>1, OwnCounts
    <2>2. m.fallbacks \in Int /\ m.attempts \in Int
        BY DEF Metrics
    <2> QED BY <1>1, <2>1, <2>2, Balances DEF Shifts, Unstored
<1>2. m.models = m.models /\ 0 \in Int /\ 1 \in Int /\ -1 \in Int
    OBVIOUS
<1>3. Shifts(m, [m EXCEPT !.requests = @ + 1], 1, 0, 0, 0, 0)
    <2> DEFINE n == [m EXCEPT !.requests = @ + 1]
    <2>1. /\ n \in Metrics /\ n.models = m.models /\ n.requests = m.requests + 1
          /\ n.errors = m.errors + 0 /\ n.fallbacks = m.fallbacks + 0 /\ n.attempts = m.attempts + 0
          /\ n.cacheMisses - n.cacheStores = m.cacheMisses - m.cacheStores + 0
        BY DEF Metrics
    <2> HIDE DEF n
    <2> QED BY <1>1, <1>2, <2>1 DEF n
<1>4. Shifts(m, [m EXCEPT !.errors = @ + 1], 0, 1, 0, 0, 0)
    <2> DEFINE n == [m EXCEPT !.errors = @ + 1]
    <2>1. /\ n \in Metrics /\ n.models = m.models /\ n.requests = m.requests + 0
          /\ n.errors = m.errors + 1 /\ n.fallbacks = m.fallbacks + 0 /\ n.attempts = m.attempts + 0
          /\ n.cacheMisses - n.cacheStores = m.cacheMisses - m.cacheStores + 0
        BY DEF Metrics
    <2> HIDE DEF n
    <2> QED BY <1>1, <1>2, <2>1 DEF n
<1>5. Shifts(m, [m EXCEPT !.fallbacks = @ + 1], 0, 0, 1, 0, 0)
    <2> DEFINE n == [m EXCEPT !.fallbacks = @ + 1]
    <2>1. /\ n \in Metrics /\ n.models = m.models /\ n.requests = m.requests + 0
          /\ n.errors = m.errors + 0 /\ n.fallbacks = m.fallbacks + 1 /\ n.attempts = m.attempts + 0
          /\ n.cacheMisses - n.cacheStores = m.cacheMisses - m.cacheStores + 0
        BY DEF Metrics
    <2> HIDE DEF n
    <2> QED BY <1>1, <1>2, <2>1 DEF n
<1>6. Shifts(m, [m EXCEPT !.attempts = @ + 1], 0, 0, 0, 1, 0)
    <2> DEFINE n == [m EXCEPT !.attempts = @ + 1]
    <2>1. /\ n \in Metrics /\ n.models = m.models /\ n.requests = m.requests + 0
          /\ n.errors = m.errors + 0 /\ n.fallbacks = m.fallbacks + 0 /\ n.attempts = m.attempts + 1
          /\ n.cacheMisses - n.cacheStores = m.cacheMisses - m.cacheStores + 0
        BY DEF Metrics
    <2> HIDE DEF n
    <2> QED BY <1>1, <1>2, <2>1 DEF n
<1>7. Shifts(m, [m EXCEPT !.cacheHits = @ + 1], 0, 0, 0, 0, 0)
    <2> DEFINE n == [m EXCEPT !.cacheHits = @ + 1]
    <2>1. /\ n \in Metrics /\ n.models = m.models /\ n.requests = m.requests + 0
          /\ n.errors = m.errors + 0 /\ n.fallbacks = m.fallbacks + 0 /\ n.attempts = m.attempts + 0
          /\ n.cacheMisses - n.cacheStores = m.cacheMisses - m.cacheStores + 0
        BY DEF Metrics
    <2> HIDE DEF n
    <2> QED BY <1>1, <1>2, <2>1 DEF n
<1>8. Shifts(m, [m EXCEPT !.cacheMisses = @ + 1], 0, 0, 0, 0, 1)
    <2> DEFINE n == [m EXCEPT !.cacheMisses = @ + 1]
    <2>1. /\ n \in Metrics /\ n.models = m.models /\ n.requests = m.requests + 0
          /\ n.errors = m.errors + 0 /\ n.fallbacks = m.fallbacks + 0 /\ n.attempts = m.attempts + 0
          /\ n.cacheMisses - n.cacheStores = m.cacheMisses - m.cacheStores + 1
        BY DEF Metrics
    <2> HIDE DEF n
    <2> QED BY <1>1, <1>2, <2>1 DEF n
<1>9. Shifts(m, [m EXCEPT !.cacheStores = @ + 1], 0, 0, 0, 0, -1)
    <2> DEFINE n == [m EXCEPT !.cacheStores = @ + 1]
    <2>1. /\ n \in Metrics /\ n.models = m.models /\ n.requests = m.requests + 0
          /\ n.errors = m.errors + 0 /\ n.fallbacks = m.fallbacks + 0 /\ n.attempts = m.attempts + 0
          /\ n.cacheMisses - n.cacheStores = m.cacheMisses - m.cacheStores + (-1)
        BY DEF Metrics
    <2> HIDE DEF n
    <2> QED BY <1>1, <1>2, <2>1 DEF n
<1> QED BY <1>3, <1>4, <1>5, <1>6, <1>7, <1>8, <1>9

LEMMA AttemptIsCounted ==
    ASSUME NEW m \in ModelMetrics, NEW success \in BOOLEAN, NEW timeout \in BOOLEAN
    PROVE  LET k == Counted(m, success, timeout) IN
           /\ k \in ModelMetrics
           /\ k.attempts = m.attempts + 1 /\ k.fallbacks = m.fallbacks
           /\ k.successes = m.successes + One(success)
           /\ k.failures = m.failures + One(~success)
           /\ k.timeouts = m.timeouts + One(timeout)
<1> DEFINE k == Counted(m, success, timeout)
           s == IF success THEN m.successes + 1 ELSE m.successes
           f == IF success THEN m.failures ELSE m.failures + 1
           t == IF timeout THEN m.timeouts + 1 ELSE m.timeouts
<1>1. /\ m.attempts + 1 \in Nat /\ s \in Nat /\ f \in Nat /\ t \in Nat
      /\ m.successes \in Nat /\ m.failures \in Nat /\ m.timeouts \in Nat
    BY DEF ModelMetrics
<1>2. k = [m EXCEPT !.attempts = m.attempts + 1, !.successes = s, !.failures = f, !.timeouts = t]
    BY DEF Counted
<1>3. s = m.successes + One(success) /\ f = m.failures + One(~success) /\ t = m.timeouts + One(timeout)
    <2>1. CASE success
        BY <1>1, <2>1 DEF One
    <2>2. CASE ~success
        BY <1>1, <2>2 DEF One
    <2> QED BY <2>1, <2>2
<1> HIDE DEF k, s, f, t
<1>4. k \in ModelMetrics /\ k.attempts = m.attempts + 1 /\ k.fallbacks = m.fallbacks
      /\ k.successes = s /\ k.failures = f /\ k.timeouts = t
    BY <1>1, <1>2 DEF ModelMetrics
<1> QED BY <1>3, <1>4 DEF k

\* An attempt that is recorded for its model is no longer under way.
LEMMA RecordedShifts ==
    ASSUME NEW m \in Metrics, ModelsAgree(m), NEW a \in AllAliases,
           NEW success \in BOOLEAN, NEW timeout \in BOOLEAN, timeout => ~success
    PROVE  Shifts(m, Recorded(m, a, success, timeout), 0, 0, 0, -1, 0)
<1> DEFINE n == Recorded(m, a, success, timeout)
           k == Counted(m.models[a], success, timeout)
<1>1. m.models[a] \in ModelMetrics /\ m.models \in [AllAliases -> ModelMetrics]
    BY DEF Metrics
<1>2. /\ k \in ModelMetrics
      /\ k.attempts = m.models[a].attempts + 1 /\ k.fallbacks = m.models[a].fallbacks
      /\ k.successes = m.models[a].successes + One(success)
      /\ k.failures = m.models[a].failures + One(~success)
      /\ k.timeouts = m.models[a].timeouts + One(timeout)
    BY <1>1, AttemptIsCounted
<1> HIDE DEF k
<1>3. n = [m EXCEPT !.models[a] = k]
    BY DEF Recorded, k
<1> HIDE DEF n
<1>4. n.models = [m.models EXCEPT ![a] = k] /\ n \in Metrics
      /\ n.requests = m.requests /\ n.errors = m.errors
      /\ n.fallbacks = m.fallbacks /\ n.attempts = m.attempts
      /\ n.cacheMisses = m.cacheMisses /\ n.cacheStores = m.cacheStores
    BY <1>2, <1>3 DEF Metrics
<1>5. n.models[a] = k /\ \A b \in AllAliases \ {a} : n.models[b] = m.models[b]
    BY <1>1, <1>4
<1>6. /\ OfModels(n, "attempts") = OfModels(m, "attempts") + 1
      /\ OfModels(n, "fallbacks") = OfModels(m, "fallbacks")
    <2>1. ASSUME NEW counter \in {"attempts", "fallbacks"}
          PROVE  OfModels(n, counter) = OfModels(m, counter) + k[counter] - m.models[a][counter]
        <3>1. n \in Metrics /\ \A b \in AllAliases \ {a} : n.models[b] = m.models[b]
            BY <1>4, <1>5
        <3>2. OfModels(n, counter) = OfModels(m, counter) + n.models[a][counter] - m.models[a][counter]
            BY <3>1, OneModelCounts
        <3> QED BY <1>5, <3>2
    <2>2. OfModels(m, "attempts") \in Int /\ OfModels(m, "fallbacks") \in Int
        BY SumsOfModels
    <2> QED BY <1>1, <1>2, <2>1, <2>2 DEF ModelMetrics
<1>7. ModelsAgree(n)
    <2>1. /\ m.models[a].attempts = m.models[a].successes + m.models[a].failures
          /\ m.models[a].timeouts <= m.models[a].failures
        BY DEF ModelsAgree
    <2>2. k.attempts = k.successes + k.failures /\ k.timeouts <= k.failures
        BY <1>1, <1>2, <2>1 DEF ModelMetrics, One
    <2> QED BY <1>5, <2>2 DEF ModelsAgree
<1>8. m.fallbacks \in Int /\ m.attempts \in Int /\ OfModels(m, "attempts") \in Int
      /\ OfModels(m, "fallbacks") \in Int
    BY SumsOfModels DEF Metrics
<1> QED BY <1>4, <1>6, <1>7, <1>8, Balances DEF Shifts, Flying, Between, Unstored, n

\* A fallback that is recorded for the candidate that was given up is no longer
\* between the two counters.
LEMMA FallbackShifts ==
    ASSUME NEW m \in Metrics, ModelsAgree(m), NEW a \in AllAliases
    PROVE  Shifts(m, [m EXCEPT !.models[a].fallbacks = @ + 1], 0, 0, -1, 0, 0)
<1> DEFINE n == [m EXCEPT !.models[a].fallbacks = @ + 1]
           k == [m.models[a] EXCEPT !.fallbacks = @ + 1]
<1>1. m.models[a] \in ModelMetrics /\ m.models \in [AllAliases -> ModelMetrics]
    BY DEF Metrics
<1>2. /\ k \in ModelMetrics
      /\ k.attempts = m.models[a].attempts /\ k.fallbacks = m.models[a].fallbacks + 1
      /\ k.successes = m.models[a].successes /\ k.failures = m.models[a].failures
      /\ k.timeouts = m.models[a].timeouts
    BY <1>1 DEF ModelMetrics
<1>3. n = [m EXCEPT !.models[a] = k]
    OBVIOUS
<1> HIDE DEF n, k
<1>4. n.models = [m.models EXCEPT ![a] = k] /\ n \in Metrics
      /\ n.requests = m.requests /\ n.errors = m.errors
      /\ n.fallbacks = m.fallbacks /\ n.attempts = m.attempts
      /\ n.cacheMisses = m.cacheMisses /\ n.cacheStores = m.cacheStores
    BY <1>2, <1>3 DEF Metrics
<1>5. n.models[a] = k /\ \A b \in AllAliases \ {a} : n.models[b] = m.models[b]
    BY <1>1, <1>4
<1>6. /\ OfModels(n, "attempts") = OfModels(m, "attempts")
      /\ OfModels(n, "fallbacks") = OfModels(m, "fallbacks") + 1
    <2>1. ASSUME NEW counter \in {"attempts", "fallbacks"}
          PROVE  OfModels(n, counter) = OfModels(m, counter) + k[counter] - m.models[a][counter]
        <3>1. n \in Metrics /\ \A b \in AllAliases \ {a} : n.models[b] = m.models[b]
            BY <1>4, <1>5
        <3>2. OfModels(n, counter) = OfModels(m, counter) + n.models[a][counter] - m.models[a][counter]
            BY <3>1, OneModelCounts
        <3> QED BY <1>5, <3>2
    <2>2. OfModels(m, "attempts") \in Int /\ OfModels(m, "fallbacks") \in Int
        BY SumsOfModels
    <2> QED BY <1>1, <1>2, <2>1, <2>2 DEF ModelMetrics
<1>7. ModelsAgree(n)
    BY <1>2, <1>5 DEF ModelsAgree
<1>8. m.fallbacks \in Int /\ m.attempts \in Int /\ OfModels(m, "attempts") \in Int
      /\ OfModels(m, "fallbacks") \in Int
    BY SumsOfModels DEF Metrics
<1> QED BY <1>4, <1>6, <1>7, <1>8, Balances DEF Shifts, Flying, Between, Unstored, n

-----------------------------------------------------------------------------
(* The counters move with the requests.                                    *)

\* What a request counts for.
CountsFor(cfg, q) ==
    [came |-> One(q.pc # "idle"), erred |-> One(Failed(q)), falling |-> One(q.pc = "fallback"),
     flying |-> One(q.pc \in HasKey), looking |-> One(Looking(cfg, q))]

\* The counters follow a request from p to q.
Follows(cfg, p, q, u) ==
    LET a == CountsFor(cfg, p)
        b == CountsFor(cfg, q)
    IN  /\ Shifts(metrics, metrics', b.came - a.came, b.erred - a.erred,
                  b.falling - a.falling, b.flying - a.flying, u)
        /\ b.looking - a.looking <= u

LEMMA LookersStay ==
    ASSUME IInv, NEW x \in Requests, req'[x] = req[x],
           \A g \in DOMAIN runtimes : runtimes'[g].cfg = runtimes[g].cfg
    PROVE  x \in Lookers <=> x \in Lookers'
<1>1. CASE InProgress(x)
    <2>1. Gen(x) \in DOMAIN runtimes
        BY <1>1, BusyWorks DEF Works
    <2>2. Rt(x)'.cfg = Rt(x).cfg
        BY <2>1 DEF Rt, Gen
    <2> QED BY <2>2 DEF Lookers
<1>2. CASE ~InProgress(x)
    <2>1. req[x].pc \in {"idle", "done"}
        BY <1>2 DEF InProgress
    <2> QED BY <2>1 DEF Lookers, Looking, HasKey
<1> QED BY <1>1, <1>2

LEMMA CountsFollow ==
    ASSUME IInv, CountsFit, NEW r \in Requests, Kept(r), NEW u \in Int,
           NEW c, InProgress(r) => c = Rt(r).cfg, InProgress(r)' => c = Rt(r)'.cfg,
           Follows(c, req[r], req'[r], u)
    PROVE  CountsFit'
<1> DEFINE p == req[r]
           q == req'[r]
<1>1. \A x \in Requests \ {r} : req'[x] = req[x]
    BY DEF Kept, OnlyMoves
<1>2. \A g \in DOMAIN runtimes : runtimes'[g].cfg = runtimes[g].cfg
    BY DEF Kept, Learns
<1>3. /\ r \in Came <=> p.pc # "idle"
      /\ r \in Came' <=> q.pc # "idle"
      /\ r \in Erred <=> Failed(p)
      /\ r \in Erred' <=> Failed(q)
      /\ r \in FallingBack <=> p.pc = "fallback"
      /\ r \in FallingBack' <=> q.pc = "fallback"
      /\ r \in UnderWay <=> p.pc \in HasKey
      /\ r \in UnderWay' <=> q.pc \in HasKey
    BY DEF Came, Erred, FallingBack, UnderWay, HasKey
<1>4. (r \in Lookers <=> Looking(c, p)) /\ (r \in Lookers' <=> Looking(c, q))
    BY DEF Lookers, Looking, InProgress, HasKey
<1>5. \A x \in Requests \ {r} :
        /\ x \in Came <=> x \in Came'
        /\ x \in Erred <=> x \in Erred'
        /\ x \in FallingBack <=> x \in FallingBack'
        /\ x \in UnderWay <=> x \in UnderWay'
        /\ x \in Lookers <=> x \in Lookers'
    BY <1>1, <1>2, LookersStay DEF Came, Erred, FallingBack, UnderWay
<1>6. /\ Came \subseteq Requests /\ Came' \subseteq Requests
      /\ Erred \subseteq Requests /\ Erred' \subseteq Requests
      /\ FallingBack \subseteq Requests /\ FallingBack' \subseteq Requests
      /\ UnderWay \subseteq Requests /\ UnderWay' \subseteq Requests
      /\ Lookers \subseteq Requests /\ Lookers' \subseteq Requests
    BY DEF Came, Erred, FallingBack, UnderWay, Lookers
<1>7. /\ Cardinality(Came) \in Nat
      /\ Cardinality(Came') = Cardinality(Came) + One(q.pc # "idle") - One(p.pc # "idle")
    BY <1>3, <1>5, <1>6, CountsAssumption, CountMoves
<1>8. /\ Cardinality(Erred) \in Nat
      /\ Cardinality(Erred') = Cardinality(Erred) + One(Failed(q)) - One(Failed(p))
    <2>1. One(r \in Erred') = One(Failed(q)) /\ One(r \in Erred) = One(Failed(p))
        BY <1>3 DEF One
    <2> QED BY <1>5, <1>6, <2>1, CountsAssumption, CountMoves
<1>9. /\ Cardinality(FallingBack) \in Nat
      /\ Cardinality(FallingBack') = Cardinality(FallingBack) + One(q.pc = "fallback") - One(p.pc = "fallback")
    BY <1>3, <1>5, <1>6, CountsAssumption, CountMoves
<1>10. /\ Cardinality(UnderWay) \in Nat
       /\ Cardinality(UnderWay') = Cardinality(UnderWay) + One(q.pc \in HasKey) - One(p.pc \in HasKey)
    BY <1>3, <1>5, <1>6, CountsAssumption, CountMoves
<1>11. /\ Cardinality(Lookers) \in Nat
       /\ Cardinality(Lookers') = Cardinality(Lookers) + One(Looking(c, q)) - One(Looking(c, p))
    <2>1. One(r \in Lookers') = One(Looking(c, q)) /\ One(r \in Lookers) = One(Looking(c, p))
        BY <1>4 DEF One
    <2> QED BY <1>5, <1>6, <2>1, CountsAssumption, CountMoves
<1>12. /\ Shifts(metrics, metrics', One(q.pc # "idle") - One(p.pc # "idle"),
                 One(Failed(q)) - One(Failed(p)), One(q.pc = "fallback") - One(p.pc = "fallback"),
                 One(q.pc \in HasKey) - One(p.pc \in HasKey), u)
       /\ One(Looking(c, q)) - One(Looking(c, p)) <= u
    BY DEF Follows, CountsFor
<1>13. \A b \in BOOLEAN : One(b) \in Int
    BY DEF One
<1> HIDE DEF p, q
<1>14. /\ metrics' \in Metrics /\ ModelsAgree(metrics')
       /\ metrics'.requests = Cardinality(Came')
       /\ metrics'.errors = Cardinality(Erred')
    BY <1>7, <1>8, <1>12 DEF CountsFit, Shifts, One
<1>15. /\ Between(metrics') = Cardinality(FallingBack')
       /\ Flying(metrics') = Cardinality(UnderWay')
    BY <1>9, <1>10, <1>12 DEF CountsFit, Shifts, One
<1>16. Cardinality(Lookers') <= Unstored(metrics')
    <2>1. Unstored(metrics') = Unstored(metrics) + u /\ Unstored(metrics) \in Int
        BY <1>12, Balances DEF Shifts, CountsFit
    <2> QED BY <1>11, <1>12, <2>1 DEF CountsFit, One
<1>17. ModelsAgree(metrics)' /\ Between(metrics)' = Between(metrics') /\ Flying(metrics)' = Flying(metrics')
       /\ Unstored(metrics)' = Unstored(metrics')
    BY <1>14 DEF ModelsAgree, Between, Flying, Unstored, OfModels
<1> QED BY <1>14, <1>15, <1>16, <1>17 DEF CountsFit

-----------------------------------------------------------------------------
(* The steps of a request and the counters.                                *)

\* A request that is under way, and how the counters must move when it is at q.
LEMMA StepCounted ==
    ASSUME IInv, TypesFit, CountsFit, NEW r \in Requests, InProgress(r), Kept(r), NEW u \in Int,
           NEW q, q = req'[r], q.pc # "idle", q.pc # "done" => q.gen = Gen(r),
           Shifts(metrics, metrics', 0, One(Failed(q)),
                  One(q.pc = "fallback") - One(req[r].pc = "fallback"),
                  One(q.pc \in HasKey) - One(req[r].pc \in HasKey), u),
           One(Looking(Rt(r).cfg, q)) - One(Looking(Rt(r).cfg, req[r])) <= u
    PROVE  CountsFit'
<1> DEFINE c == Rt(r).cfg
<1>1. Gen(r) \in DOMAIN runtimes
    BY BusyWorks DEF Works
<1>2. InProgress(r)' => Rt(r)'.cfg = c
    BY <1>1 DEF InProgress, Kept, Learns, Rt, Gen
<1>3. req[r].pc # "idle" /\ ~Failed(req[r])
    BY DEF InProgress, Failed
<1>4. /\ One(q.pc # "idle") - One(req[r].pc # "idle") = 0
      /\ One(Failed(q)) - One(Failed(req[r])) = One(Failed(q))
    BY <1>3 DEF One
<1>5. Follows(c, req[r], q, u)
    BY <1>4 DEF Follows, CountsFor
<1> HIDE DEF c
<1> QED BY <1>2, <1>5, CountsFollow DEF c

LEMMA NoLooking ==
    ASSUME NEW c, NEW q, q.pc \notin {"keys", "storing"} \cup HasKey
    PROVE  ~Looking(c, q)
BY DEF Looking

LEMMA LooksOn ==
    ASSUME NEW c, NEW p, NEW q, SamePlace(q, p), p.pc \in {"keys", "storing"} \cup HasKey
    PROVE  Looking(c, q) => Looking(c, p)
BY DEF Looking, SamePlace

LEMMA LooksNoMore ==
    ASSUME NEW a, NEW b, a => b PROVE One(a) - One(b) <= 0
BY DEF One

\* The models of the candidates are counted.
LEMMA AliasIsCounted ==
    ASSUME IInv, TypesFit, NEW r \in Requests, req[r].pc \in AtCandidate
    PROVE  Alias(r) \in AllAliases
<1>1. Alias(r) \in DOMAIN Rt(r).cfg.models /\ Rt(r).cfg \in Configs
    BY AtModel, Working
<1> QED BY <1>1 DEF AllAliases

LEMMA AcceptCounted ==
    ASSUME IInv, TypesFit, CountsFit, NEW r \in Requests, NEW in, Accept(r, in) PROVE CountsFit'
<1> DEFINE q == req'[r]
           c == Rt(r)'.cfg
<1>1. Kept(r)
    BY AcceptKept
<1>2. q.pc = "reading" /\ req[r].pc = "idle" /\ metrics' = [metrics EXCEPT !.requests = @ + 1]
    BY DEF Accept, IInv, Arrived
<1>3. Shifts(metrics, metrics', 1, 0, 0, 0, 0)
    BY <1>2, OwnCountersShift DEF CountsFit
<1>4. ~Looking(c, q) /\ ~Looking(c, req[r]) /\ ~Failed(q) /\ ~Failed(req[r])
    BY <1>2, NoLooking DEF Failed, HasKey
<1>5. Follows(c, req[r], q, 0)
    BY <1>2, <1>3, <1>4 DEF Follows, CountsFor, One, HasKey
<1> HIDE DEF c, q
<1>6. ~InProgress(r) /\ 0 \in Int
    BY <1>2 DEF InProgress
<1> QED BY <1>1, <1>5, <1>6, CountsFollow DEF c, q

\* A request that fails counts for nothing but its error.
LEMMA FailureCounted ==
    ASSUME IInv, TypesFit, CountsFit, NEW r \in Requests, InProgress(r), Kept(r),
           NEW m \in Metrics, FailRequest(r, m),
           Shifts(metrics, m, 0, 0, 0 - One(req[r].pc = "fallback"),
                  0 - One(req[r].pc \in HasKey), 0)
    PROVE  CountsFit'
<1> DEFINE q == req'[r]
<1>1. q.pc = "done" /\ q.answer = Error /\ metrics' = [m EXCEPT !.errors = @ + 1]
    BY FailureIs, Working DEF FailRequest
<1>2. Failed(q) /\ ~Looking(Rt(r).cfg, q)
    BY <1>1 DEF Failed, Error, Looking, HasKey
<1>3. Shifts(m, metrics', 0, 1, 0, 0, 0)
    BY <1>1, OwnCountersShift DEF Shifts
<1>4. Shifts(metrics, metrics', 0, 1, 0 - One(req[r].pc = "fallback"),
             0 - One(req[r].pc \in HasKey), 0)
    <2> DEFINE x == 0 - One(req[r].pc = "fallback")
               y == 0 - One(req[r].pc \in HasKey)
    <2>1. x \in Int /\ y \in Int /\ 0 \in Int /\ 1 \in Int
        BY DEF One
    <2> HIDE DEF x, y
    <2>2. Shifts(metrics, metrics', 0 + 0, 0 + 1, x + 0, y + 0, 0 + 0)
        BY <1>3, <2>1, ShiftsAdd DEF x, y, CountsFit
    <2>3. 0 + 0 = 0 /\ 0 + 1 = 1 /\ x + 0 = x /\ y + 0 = y
        BY <2>1
    <2> QED BY <2>2, <2>3 DEF x, y
<1>5. /\ q.pc # "idle" /\ 0 \in Int
      /\ One(Failed(q)) = 1 /\ One(q.pc = "fallback") = 0 /\ One(q.pc \in HasKey) = 0
    BY <1>1, <1>2 DEF One, HasKey
<1>6. One(Looking(Rt(r).cfg, q)) - One(Looking(Rt(r).cfg, req[r])) <= 0
    BY <1>2, LooksNoMore
<1> HIDE DEF q
<1>7. q = req'[r] /\ q.pc = "done"
    BY <1>1 DEF q
<1> QED BY <1>4, <1>5, <1>6, <1>7, StepCounted

\* One that fails before it has a candidate, and between candidates.
LEMMA EarlyFailureCounted ==
    ASSUME IInv, TypesFit, CountsFit, NEW r \in Requests, Kept(r),
           req[r].pc \in {"reading", "candidate"}, FailRequest(r, metrics)
    PROVE  CountsFit'
<1>1. InProgress(r) /\ metrics \in Metrics
    BY DEF InProgress, CountsFit
<1>2. 0 - One(req[r].pc = "fallback") = 0 /\ 0 - One(req[r].pc \in HasKey) = 0
    <2>1. One(req[r].pc = "fallback") = 0 /\ One(req[r].pc \in HasKey) = 0
        BY DEF One, HasKey
    <2> QED BY <2>1
<1>3. Shifts(metrics, metrics, 0, 0, 0, 0, 0)
    BY NothingShifts DEF CountsFit
<1> QED BY <1>1, <1>2, <1>3, FailureCounted

LEMMA TurnShifts ==
    ASSUME IInv, TypesFit, CountsFit, NEW r \in Requests, HasTurn(r)
    PROVE  Shifts(metrics, FallbackRecorded(metrics, r), 0, 0, 0 - One(req[r].pc = "fallback"), 0, 0)
<1>1. metrics \in Metrics /\ ModelsAgree(metrics)
    BY DEF CountsFit
<1>2. CASE req[r].pc = "fallback"
    <2> DEFINE c == Rt(r).cfg
               a == req[r].plan[req[r].ci - 1]
    <2>1. InProgress(r)
        BY <1>2 DEF InProgress
    <2>2. c \in Configs /\ Valid(c) /\ FieldsOK(c, req[r])
        BY <2>1, Working
    <2>3. req[r].ci \in 1 .. Len(req[r].plan) /\ Len(req[r].plan) \in Nat /\ req[r].ci # 1
        BY <1>2, <2>2, HasCandidate DEF AtCandidate, FieldsOK
    <2>4. req[r].ci - 1 \in DOMAIN req[r].plan
        <3>1. req[r].ci - 1 \in 1 .. Len(req[r].plan)
            BY <2>3
        <3> QED BY <2>2, <3>1, PlacesOf DEF FieldsOK
    <2>5. a \in DOMAIN c.models
        BY <2>2, <2>4, ElementType DEF FieldsOK
    <2>6. a \in AllAliases
        BY <2>2, <2>5 DEF AllAliases
    <2>7. FallbackRecorded(metrics, r) = [metrics EXCEPT !.models[a].fallbacks = @ + 1]
        BY <2>3 DEF FallbackRecorded
    <2>8. 0 - One(req[r].pc = "fallback") = -1
        BY <1>2 DEF One
    <2> HIDE DEF a, c
    <2> QED BY <1>1, <2>6, <2>7, <2>8, FallbackShifts, ZenonT(30)
<1>3. CASE req[r].pc # "fallback"
    <2>1. FallbackRecorded(metrics, r) = metrics
        BY <1>3 DEF HasTurn, FallbackRecorded
    <2>2. 0 - One(req[r].pc = "fallback") = 0
        <3>1. One(req[r].pc = "fallback") = 0
            BY <1>3 DEF One
        <3> QED BY <3>1
    <2> QED BY <1>1, <2>1, <2>2, NothingShifts
<1> QED BY <1>2, <1>3

LEMMA NoTurnCounted ==
    ASSUME IInv, TypesFit, CountsFit, NEW r \in Requests, OutOfTime(r) \/ CannotPatch(r)
    PROVE  CountsFit'
<1>1. Kept(r) /\ InProgress(r) /\ HasTurn(r)
    BY OutOfTimeKept, CannotPatchKept DEF OutOfTime, CannotPatch, HasTurn, InProgress
<1>2. Shifts(metrics, FallbackRecorded(metrics, r), 0, 0, 0 - One(req[r].pc = "fallback"), 0, 0)
    BY <1>1, TurnShifts
<1>3. 0 - One(req[r].pc \in HasKey) = 0
    <2>1. One(req[r].pc \in HasKey) = 0
        BY <1>1 DEF One, HasKey, HasTurn
    <2> QED BY <2>1
<1>4. FallbackRecorded(metrics, r) \in Metrics
    BY <1>2 DEF Shifts
<1>5. FailRequest(r, FallbackRecorded(metrics, r))
    BY DEF OutOfTime, CannotPatch
<1> QED BY <1>1, <1>2, <1>3, <1>4, <1>5, FailureCounted

LEMMA AttemptCanceledCounted ==
    ASSUME IInv, TypesFit, CountsFit, NEW r \in Requests, AttemptCanceled(r) PROVE CountsFit'
<1> DEFINE m == Recorded(metrics, Alias(r), FALSE, FALSE)
<1>1. Kept(r) /\ InProgress(r) /\ req[r].pc = "flight" /\ FailRequest(r, m)
    BY AttemptCanceledKept DEF AttemptCanceled, InProgress
<1>2. Alias(r) \in AllAliases
    BY <1>1, AliasIsCounted DEF AtCandidate, HasKey
<1>3. Shifts(metrics, m, 0, 0, 0, -1, 0)
    BY <1>2, RecordedShifts DEF CountsFit
<1>4. 0 - One(req[r].pc \in HasKey) = -1 /\ 0 - One(req[r].pc = "fallback") = 0
    BY <1>1 DEF One, HasKey
<1> HIDE DEF m
<1>5. m \in Metrics
    BY <1>3 DEF Shifts
<1> QED BY <1>1, <1>3, <1>4, <1>5, FailureCounted

\* A request that goes on while nothing is counted.
LEMMA NothingCounted ==
    ASSUME IInv, TypesFit, CountsFit, NEW r \in Requests, InProgress(r), Kept(r),
           UNCHANGED metrics, NEW q, q = req'[r], q.pc \notin {"idle", "done", "fallback"},
           req[r].pc # "fallback", q.gen = Gen(r), q.pc \in HasKey <=> req[r].pc \in HasKey,
           Looking(Rt(r).cfg, q) => Looking(Rt(r).cfg, req[r])
    PROVE  CountsFit'
<1>1. Shifts(metrics, metrics', 0, 0, 0, 0, 0)
    BY NothingShifts DEF CountsFit
<1>2. /\ One(Failed(q)) = 0 /\ One(q.pc = "fallback") - One(req[r].pc = "fallback") = 0
      /\ One(q.pc \in HasKey) - One(req[r].pc \in HasKey) = 0 /\ 0 \in Int
    BY DEF One, Failed
<1>3. One(Looking(Rt(r).cfg, q)) - One(Looking(Rt(r).cfg, req[r])) <= 0
    BY LooksNoMore
<1> QED BY <1>1, <1>2, <1>3, StepCounted

LEMMA PlanCounted ==
    ASSUME IInv, TypesFit, CountsFit, NEW r \in Requests, Plan(r) PROVE CountsFit'
<1>1. Kept(r) /\ InProgress(r) /\ req[r].pc = "reading"
    BY PlanKept DEF Plan, InProgress
<1>2. Works(r)
    BY <1>1, BusyWorks
<1>3. \/ FailRequest(r, metrics)
      \/ /\ \E plan : req' = [req EXCEPT ![r].pc = "candidate", ![r].plan = plan, ![r].ci = 1]
         /\ UNCHANGED metrics
    BY DEF Plan
<1>4. ASSUME NEW plan, req' = [req EXCEPT ![r].pc = "candidate", ![r].plan = plan, ![r].ci = 1],
             UNCHANGED metrics
      PROVE  CountsFit'
    <2> DEFINE q == req'[r]
    <2>1. q.pc = "candidate" /\ q.gen = Gen(r)
        BY <1>2, <1>4 DEF IInv, Works, Fields, Arrived, Gen
    <2>2. ~Looking(Rt(r).cfg, q)
        BY <2>1, NoLooking DEF HasKey
    <2> HIDE DEF q
    <2>3. q = req'[r] /\ q.pc \notin HasKey /\ req[r].pc \notin HasKey
        BY <1>1, <2>1 DEF q, HasKey
    <2> QED BY <1>1, <1>4, <2>1, <2>2, <2>3, NothingCounted
<1> QED BY <1>1, <1>3, <1>4, EarlyFailureCounted

\* Between the two counters a request counts as one that is falling back.
LEMMA CountFallbackCounted ==
    ASSUME IInv, TypesFit, CountsFit, NEW r \in Requests, CountFallback(r) PROVE CountsFit'
<1> DEFINE q == req'[r]
<1>1. Kept(r) /\ InProgress(r) /\ req[r].pc = "candidate"
      /\ metrics' = [metrics EXCEPT !.fallbacks = @ + 1]
    BY CountFallbackKept DEF CountFallback, InProgress
<1>2. Works(r)
    BY <1>1, BusyWorks
<1>3. q.pc = "fallback" /\ q.gen = Gen(r)
    BY <1>2 DEF CountFallback, IInv, Works, Fields, Arrived, Gen
<1>4. Shifts(metrics, metrics', 0, 0, 1, 0, 0)
    BY <1>1, OwnCountersShift DEF CountsFit
<1>5. ~Looking(Rt(r).cfg, q)
    BY <1>3, NoLooking DEF HasKey
<1>6. /\ One(Failed(q)) = 0 /\ One(q.pc = "fallback") - One(req[r].pc = "fallback") = 1
      /\ One(q.pc \in HasKey) - One(req[r].pc \in HasKey) = 0 /\ 0 \in Int
    BY <1>1, <1>3 DEF One, Failed, HasKey
<1>7. One(Looking(Rt(r).cfg, q)) - One(Looking(Rt(r).cfg, req[r])) <= 0
    BY <1>5, LooksNoMore
<1> HIDE DEF q
<1>8. q = req'[r]
    BY DEF q
<1> QED BY <1>1, <1>3, <1>4, <1>6, <1>7, <1>8, StepCounted

\* A request whose turn comes is a hit, or a miss that may be made up for.
LEMMA TryCandidateCounted ==
    ASSUME IInv, TypesFit, CountsFit, NEW r \in Requests, TryCandidate(r) PROVE CountsFit'
<1> DEFINE q == req'[r]
           c == Rt(r).cfg
           m == FallbackRecorded(metrics, r)
           x == 0 - One(req[r].pc = "fallback")
           use == Cacheable(c, Model(r), req[r].in)
           k == CacheKey(Model(r), req[r].in)
<1>1. Kept(r) /\ InProgress(r) /\ HasTurn(r) /\ req[r].pc \notin HasKey
    BY TryCandidateKept DEF TryCandidate, HasTurn, InProgress, HasKey
<1>2. Works(r)
    BY <1>1, BusyWorks
<1>3. Shifts(metrics, m, 0, 0, x, 0, 0)
    BY <1>1, TurnShifts
<1>4. m \in Metrics /\ ModelsAgree(m) /\ metrics \in Metrics
    BY <1>3 DEF Shifts, CountsFit
<1>5. x \in Int /\ 0 \in Int /\ 1 \in Int /\ x + 0 = x /\ 0 + 0 = 0 /\ 0 + 1 = 1
    BY DEF One
<1>6. ASSUME NEW n, NEW u \in {0, 1}, Shifts(m, n, 0, 0, 0, 0, u)
      PROVE  Shifts(metrics, n, 0, 0, x, 0, u)
    <2> HIDE DEF x, m
    <2>1. Shifts(metrics, n, 0 + 0, 0 + 0, x + 0, 0 + 0, 0 + u) /\ 0 + u = u
        BY <1>3, <1>4, <1>5, <1>6, ShiftsAdd
    <2> QED BY <1>5, <2>1
<1>7. ~Looking(c, req[r])
    BY <1>1, NoLooking DEF HasTurn
<1>8. CASE use /\ IsHit(Rt(r).cache, k)
    <2>1. PICK a : req' = EndedWith(r, a) /\ a.kind = "success"
        BY <1>8 DEF TryCandidate, Answer
    <2>2. metrics' = [m EXCEPT !.cacheHits = @ + 1]
        BY <1>8 DEF TryCandidate
    <2>3. q.pc = "done" /\ ~Failed(q)
        BY <1>2, <2>1, EndIs DEF Failed
    <2>4. Shifts(m, metrics', 0, 0, 0, 0, 0)
        BY <1>4, <2>2, OwnCountersShift
    <2>5. Shifts(metrics, metrics', 0, 0, x, 0, 0)
        BY <1>6, <2>4
    <2>6. ~Looking(c, q)
        BY <2>3, NoLooking DEF HasKey
    <2>7. /\ One(Failed(q)) = 0 /\ One(q.pc = "fallback") - One(req[r].pc = "fallback") = x
          /\ One(q.pc \in HasKey) - One(req[r].pc \in HasKey) = 0
        BY <1>1, <2>3 DEF One, HasKey
    <2>8. One(Looking(c, q)) - One(Looking(c, req[r])) <= 0
        BY <2>6, LooksNoMore
    <2> HIDE DEF q, x
    <2>9. q = req'[r]
        BY DEF q
    <2> QED BY <1>1, <1>5, <2>3, <2>5, <2>7, <2>8, <2>9, StepCounted
<1>9. CASE ~(use /\ IsHit(Rt(r).cache, k))
    <2>1. /\ \E b : req' = [req EXCEPT ![r].pc = "keys", ![r].budget = b]
          /\ metrics' = [m EXCEPT !.cacheMisses = IF use THEN @ + 1 ELSE @]
        BY <1>9 DEF TryCandidate
    <2>2. q.pc = "keys" /\ SamePlace(q, req[r])
        BY <1>2, <2>1 DEF IInv, Works, Fields, Arrived, SamePlace
    <2>3. Looking(c, q) <=> use
        BY <2>2 DEF Looking, SamePlace, Model, Alias
    <2>4. Shifts(m, metrics', 0, 0, 0, 0, One(use))
        <3>1. CASE use
            <4>1. metrics' = [m EXCEPT !.cacheMisses = @ + 1] /\ One(use) = 1
                BY <2>1, <3>1 DEF One
            <4> QED BY <1>4, <4>1, OwnCountersShift
        <3>2. CASE ~use
            <4>1. metrics' = m /\ One(use) = 0
                <5> HIDE DEF m, use
                <5> QED BY <1>4, <2>1, <3>2 DEF One, Metrics
            <4> QED BY <1>4, <4>1, NothingShifts
        <3> QED BY <3>1, <3>2
    <2>5. One(use) \in {0, 1}
        BY DEF One
    <2>6. Shifts(metrics, metrics', 0, 0, x, 0, One(use))
        BY <1>6, <2>4, <2>5
    <2>7. /\ One(Failed(q)) = 0 /\ One(q.pc = "fallback") - One(req[r].pc = "fallback") = x
          /\ One(q.pc \in HasKey) - One(req[r].pc \in HasKey) = 0
        BY <1>1, <2>2 DEF One, HasKey, Failed
    <2>8. One(Looking(c, q)) - One(Looking(c, req[r])) <= One(use) /\ One(use) \in Int
        BY <1>7, <2>3 DEF One
    <2>9. q.gen = Gen(r)
        BY <2>2 DEF SamePlace, Gen
    <2> HIDE DEF q, x, use
    <2>10. q = req'[r] /\ q.pc = "keys"
        BY <2>2 DEF q
    <2> QED BY <1>1, <2>6, <2>7, <2>8, <2>9, <2>10, StepCounted
<1> QED BY <1>8, <1>9

\* One that gives its candidate up while no attempt is under way.
LEMMA GivingUpCounted ==
    ASSUME IInv, TypesFit, CountsFit, NEW r \in Requests, Kept(r), UNCHANGED metrics,
           req[r].pc \in {"keys", "charging"}, req' = NextCandidate(r)
    PROVE  CountsFit'
<1> DEFINE q == req'[r]
<1>1. InProgress(r) /\ req[r].pc \notin HasKey
    BY DEF InProgress, HasKey
<1>2. q.pc = "candidate" /\ q.gen = Gen(r)
    BY <1>1, BusyWorks, NextCandidateIs DEF Gen
<1>3. ~Looking(Rt(r).cfg, q) /\ q.pc \notin HasKey
    BY <1>2, NoLooking DEF HasKey
<1> HIDE DEF q
<1>4. q = req'[r]
    BY DEF q
<1> QED BY <1>1, <1>2, <1>3, <1>4, NothingCounted

LEMMA TakeKeyCounted ==
    ASSUME IInv, TypesFit, CountsFit, NEW r \in Requests, TakeKey(r) PROVE CountsFit'
<1> DEFINE q == req'[r]
<1>1. Kept(r) /\ InProgress(r) /\ req[r].pc = "keys"
    BY TakeKeyKept DEF TakeKey, InProgress
<1>2. Works(r)
    BY <1>1, BusyWorks
<1>3. \/ req' = NextCandidate(r) /\ UNCHANGED metrics
      \/ /\ \E k : req' = [req EXCEPT ![r].pc = "flight", ![r].key = k, ![r].timer = req[r].budget]
         /\ metrics' = [metrics EXCEPT !.attempts = @ + 1]
    BY DEF TakeKey
<1>4. ASSUME NEW k, metrics' = [metrics EXCEPT !.attempts = @ + 1],
             req' = [req EXCEPT ![r].pc = "flight", ![r].key = k, ![r].timer = req[r].budget]
      PROVE  CountsFit'
    <2>1. q.pc = "flight" /\ SamePlace(q, req[r])
        BY <1>2, <1>4 DEF IInv, Works, Fields, Arrived, SamePlace
    <2>2. Shifts(metrics, metrics', 0, 0, 0, 1, 0)
        BY <1>4, OwnCountersShift DEF CountsFit
    <2>3. Looking(Rt(r).cfg, q) => Looking(Rt(r).cfg, req[r])
        BY <1>1, <2>1, LooksOn
    <2>4. One(Looking(Rt(r).cfg, q)) - One(Looking(Rt(r).cfg, req[r])) <= 0
        BY <2>3, LooksNoMore
    <2>5. /\ One(Failed(q)) = 0 /\ One(q.pc = "fallback") - One(req[r].pc = "fallback") = 0
          /\ One(q.pc \in HasKey) - One(req[r].pc \in HasKey) = 1 /\ 0 \in Int
        BY <1>1, <2>1 DEF One, Failed, HasKey
    <2>6. q.gen = Gen(r)
        BY <2>1 DEF SamePlace, Gen
    <2> HIDE DEF q
    <2>7. q = req'[r] /\ q.pc = "flight"
        BY <2>1 DEF q
    <2> QED BY <1>1, <2>2, <2>4, <2>5, <2>6, <2>7, StepCounted
<1> QED BY <1>1, <1>3, <1>4, GivingUpCounted

LEMMA HeadersCounted ==
    ASSUME IInv, TypesFit, CountsFit, NEW r \in Requests, NEW reply, Headers(r, reply)
    PROVE  CountsFit'
<1> DEFINE q == req'[r]
<1>1. Kept(r) /\ InProgress(r) /\ req[r].pc = "flight" /\ UNCHANGED metrics
    BY HeadersKept DEF Headers, InProgress
<1>2. Works(r)
    BY <1>1, BusyWorks
<1>3. q.pc \in {"success", "rejected"} /\ SamePlace(q, req[r])
    BY <1>2 DEF Headers, IInv, Works, Fields, Arrived, SamePlace
<1>4. Looking(Rt(r).cfg, q) => Looking(Rt(r).cfg, req[r])
    BY <1>1, <1>3, LooksOn DEF HasKey
<1>5. q.pc \in HasKey /\ req[r].pc \in HasKey /\ q.gen = Gen(r)
    BY <1>1, <1>3 DEF HasKey, SamePlace, Gen
<1> HIDE DEF q
<1>6. q = req'[r]
    BY DEF q
<1> QED BY <1>1, <1>3, <1>4, <1>5, <1>6, NothingCounted

\* An attempt ends: it is recorded, and is no longer under way.
LEMMA AttemptCounted ==
    ASSUME IInv, TypesFit, CountsFit, NEW r \in Requests, Kept(r), req[r].pc \in HasKey,
           NEW success \in BOOLEAN, NEW timeout \in BOOLEAN, timeout => ~success,
           metrics' = Recorded(metrics, Alias(r), success, timeout),
           NEW q, q = req'[r], q.pc \notin HasKey \cup {"idle", "fallback"}, ~Failed(q),
           q.pc # "done" => q.gen = Gen(r),
           Looking(Rt(r).cfg, q) => Looking(Rt(r).cfg, req[r])
    PROVE  CountsFit'
<1>1. InProgress(r) /\ req[r].pc \in AtCandidate
    BY DEF InProgress, HasKey, AtCandidate
<1>2. Shifts(metrics, metrics', 0, 0, 0, -1, 0)
    BY <1>1, AliasIsCounted, RecordedShifts DEF CountsFit
<1>3. /\ One(Failed(q)) = 0 /\ One(q.pc = "fallback") - One(req[r].pc = "fallback") = 0
      /\ One(q.pc \in HasKey) - One(req[r].pc \in HasKey) = -1 /\ 0 \in Int
    BY DEF One, HasKey
<1>4. One(Looking(Rt(r).cfg, q)) - One(Looking(Rt(r).cfg, req[r])) <= 0
    BY LooksNoMore
<1> QED BY <1>1, <1>2, <1>3, <1>4, StepCounted

\* Where a request is whose attempt has failed.
LEMMA AfterFailedAttempt ==
    ASSUME IInv, TypesFit, NEW r \in Requests, req[r].pc \in HasKey, NEW q, q = req'[r],
           \/ req' = NextTry(r) \/ req' = NextCandidate(r)
           \/ \E ra : req' = ToCharge(r, ra)
           \/ req' = EndedWith(r, [kind |-> "rejection"])
    PROVE  /\ q.pc \notin HasKey \cup {"idle", "fallback"} /\ ~Failed(q)
           /\ q.pc # "done" => q.gen = Gen(r)
           /\ Looking(Rt(r).cfg, q) => Looking(Rt(r).cfg, req[r])
<1>1. Works(r)
    BY BusyWorks DEF InProgress, HasKey
<1>2. CASE req' = NextTry(r)
    <2>1. SamePlace(q, req[r]) /\ q.pc = "keys"
        BY <1>1, <1>2, NextTryIs
    <2> QED BY <2>1, LooksOn DEF HasKey, Failed, SamePlace, Gen
<1>3. CASE req' = NextCandidate(r)
    <2>1. q.pc = "candidate" /\ q.gen = Gen(r)
        BY <1>1, <1>3, NextCandidateIs DEF Gen
    <2> QED BY <2>1, NoLooking DEF HasKey, Failed
<1>4. ASSUME NEW ra, req' = ToCharge(r, ra)
      PROVE  q.pc = "charging" /\ q.gen = Gen(r) /\ ~Looking(Rt(r).cfg, q)
    <2>1. SamePlace(q, req[r]) /\ q.pc = "charging"
        BY <1>1, <1>4, ToChargeIs
    <2> QED BY <2>1, NoLooking DEF HasKey, SamePlace, Gen
<1>5. CASE req' = EndedWith(r, [kind |-> "rejection"])
    <2>1. q.pc = "done" /\ q.answer = [kind |-> "rejection"]
        BY <1>1, <1>5, EndIs
    <2>2. ~Failed(q)
        BY <2>1 DEF Failed
    <2> QED BY <2>1, <2>2, NoLooking DEF HasKey
<1> QED BY <1>2, <1>3, <1>4, <1>5 DEF HasKey, Failed

\* The attempts that fail, and leave the request to go on or end.
LEMMA FailedAttemptCounted ==
    ASSUME IInv, TypesFit, CountsFit, NEW r \in Requests, Kept(r), req[r].pc \in HasKey,
           NEW timeout \in BOOLEAN, metrics' = Recorded(metrics, Alias(r), FALSE, timeout),
           \/ req' = NextTry(r) \/ req' = NextCandidate(r)
           \/ \E ra : req' = ToCharge(r, ra)
           \/ req' = EndedWith(r, [kind |-> "rejection"])
    PROVE  CountsFit'
<1> DEFINE q == req'[r]
<1>1. q = req'[r]
    OBVIOUS
<1> HIDE DEF q
<1>2. /\ q.pc \notin HasKey \cup {"idle", "fallback"} /\ ~Failed(q)
      /\ q.pc # "done" => q.gen = Gen(r)
      /\ Looking(Rt(r).cfg, q) => Looking(Rt(r).cfg, req[r])
    BY <1>1, AfterFailedAttempt
<1> QED BY <1>1, <1>2, AttemptCounted

LEMMA EndsCounted ==
    ASSUME IInv, TypesFit, CountsFit, NEW r \in Requests,
           AttemptTimesOut(r) \/ TransportError(r) \/ RejectAnswer(r) \/ ReadRejection(r)
    PROVE  CountsFit'
<1>1. Kept(r)
    BY AttemptTimesOutKept, TransportErrorKept, RejectAnswerKept, ReadRejectionKept
<1>2. req[r].pc \in HasKey
    BY DEF AttemptTimesOut, TransportError, RejectAnswer, ReadRejection, HasKey
<1>3. \E timeout \in BOOLEAN : metrics' = Recorded(metrics, Alias(r), FALSE, timeout)
    BY DEF AttemptTimesOut, TransportError, RejectAnswer, ReadRejection
<1>4. \/ req' = NextTry(r) \/ req' = NextCandidate(r)
      \/ \E ra : req' = ToCharge(r, ra)
      \/ req' = EndedWith(r, [kind |-> "rejection"])
    BY DEF AttemptTimesOut, TransportError, RejectAnswer, ReadRejection
<1> QED BY <1>1, <1>2, <1>3, <1>4, FailedAttemptCounted

LEMMA AcceptAnswerCounted ==
    ASSUME IInv, TypesFit, CountsFit, NEW r \in Requests, AcceptAnswer(r) PROVE CountsFit'
<1> DEFINE q == req'[r]
           c == Rt(r).cfg
<1>1. Kept(r) /\ InProgress(r) /\ req[r].pc = "success" /\ req[r].pc \in HasKey
      /\ metrics' = Recorded(metrics, Alias(r), TRUE, FALSE)
    BY AcceptAnswerKept DEF AcceptAnswer, InProgress, HasKey
<1>2. Works(r)
    BY <1>1, BusyWorks
<1>3. CASE req' = [req EXCEPT ![r].pc = "storing", ![r].timer = NoTimer]
    <2>1. q.pc = "storing" /\ SamePlace(q, req[r])
        BY <1>2, <1>3 DEF IInv, Works, Fields, Arrived, SamePlace
    <2>2. Looking(c, q) => Looking(c, req[r])
        BY <1>1, <2>1, LooksOn
    <2>3. q.gen = Gen(r) /\ q.pc \notin HasKey \cup {"idle", "fallback"} /\ ~Failed(q)
        BY <2>1 DEF SamePlace, Gen, HasKey, Failed
    <2> HIDE DEF q
    <2>4. q = req'[r]
        BY DEF q
    <2> QED BY <1>1, <2>2, <2>3, <2>4, AttemptCounted
<1>4. ASSUME NEW a, req' = EndedWith(r, a), a.kind = "success" PROVE CountsFit'
    <2>1. q.pc = "done" /\ q.answer = a
        BY <1>2, <1>4, EndIs
    <2>2. ~Looking(c, q) /\ ~Failed(q) /\ q.pc \notin HasKey \cup {"idle", "fallback"}
        BY <1>4, <2>1, NoLooking DEF HasKey, Failed
    <2> HIDE DEF q
    <2>3. q = req'[r]
        BY DEF q
    <2> QED BY <1>1, <2>1, <2>2, <2>3, AttemptCounted
<1>5. \A asked : Answer(r, TRUE, asked).kind = "success"
    BY DEF Answer
<1> QED BY <1>3, <1>4, <1>5 DEF AcceptAnswer

\* An answer is stored at most once for the miss it makes up for.
LEMMA SaveAnswerCounted ==
    ASSUME IInv, TypesFit, CountsFit, NEW r \in Requests, SaveAnswer(r) PROVE CountsFit'
<1> DEFINE q == req'[r]
           c == Rt(r).cfg
<1>1. Kept(r) /\ InProgress(r) /\ req[r].pc = "storing"
    BY SaveAnswerKept DEF SaveAnswer, InProgress
<1>2. Works(r) /\ FieldsOK(c, req[r])
    BY <1>1, Working
<1>3. PICK a : req' = EndedWith(r, a) /\ a.kind = "success"
    BY DEF SaveAnswer, Answer
<1>4. q.pc = "done" /\ q.answer = a
    BY <1>2, <1>3, EndIs
<1>5. Looking(c, req[r])
    BY <1>1, <1>2 DEF FieldsOK, Looking
<1>6. ~Looking(c, q) /\ ~Failed(q)
    BY <1>3, <1>4, NoLooking DEF HasKey, Failed
<1>7. metrics \in Metrics /\ ModelsAgree(metrics)
    BY DEF CountsFit
<1>8. \/ metrics' = metrics
      \/ metrics' = [metrics EXCEPT !.cacheStores = @ + 1]
    <2>1. metrics = [metrics EXCEPT !.cacheStores = metrics.cacheStores]
        BY <1>7 DEF Metrics
    <2>2. \/ UNCHANGED metrics
          \/ \E b : metrics' = [metrics EXCEPT !.cacheStores = IF b THEN metrics.cacheStores + 1
                                                               ELSE metrics.cacheStores]
        BY DEF SaveAnswer
    <2> QED BY <2>1, <2>2
<1>9. PICK u \in {0, -1} : Shifts(metrics, metrics', 0, 0, 0, 0, u)
    BY <1>7, <1>8, NothingShifts, OwnCountersShift
<1>10. /\ One(Failed(q)) = 0 /\ One(q.pc = "fallback") - One(req[r].pc = "fallback") = 0
       /\ One(q.pc \in HasKey) - One(req[r].pc \in HasKey) = 0 /\ u \in Int
    BY <1>1, <1>4, <1>6 DEF One, HasKey
<1>11. One(Looking(c, q)) - One(Looking(c, req[r])) <= u
    BY <1>5, <1>6, <1>9 DEF One
<1> HIDE DEF q, c
<1>12. q = req'[r] /\ c = Rt(r).cfg
    BY DEF q, c
<1> QED BY <1>1, <1>4, <1>9, <1>10, <1>11, <1>12, StepCounted

LEMMA RequestCounted ==
    ASSUME IInv, TypesFit, CountsFit, NEW r \in Requests, Compute(r) \/ React(r)
    PROVE  CountsFit'
<1>1. BadRequest(r) \/ Exhausted(r) => CountsFit'
    BY BadRequestKept, ExhaustedKept, EarlyFailureCounted DEF BadRequest, Exhausted
<1>2. KeysExhausted(r) \/ Charge(r) => CountsFit'
    BY KeysExhaustedKept, ChargeKept, GivingUpCounted DEF KeysExhausted, Charge
<1>3. CASE Compute(r)
    BY <1>1, <1>2, <1>3, CountFallbackCounted, NoTurnCounted, TryCandidateCounted,
       TakeKeyCounted, AttemptCanceledCounted, EndsCounted, SaveAnswerCounted,
       AcceptAnswerCounted DEF Compute
<1>4. CASE React(r)
    BY <1>1, <1>4, AcceptCounted, PlanCounted, EndsCounted, HeadersCounted,
       AcceptAnswerCounted DEF React
<1> QED BY <1>3, <1>4


-----------------------------------------------------------------------------
(* The environment counts nothing.                                         *)

\* The request is where it was.
Stands(r) ==
    /\ req'[r].pc = req[r].pc
    /\ req[r].pc = "done" => req'[r] = req[r]
    /\ InProgress(r) =>
        /\ req'[r].gen = req[r].gen /\ req'[r].in = req[r].in
        /\ req'[r].plan = req[r].plan /\ req'[r].ci = req[r].ci

LEMMA StillCounted ==
    ASSUME IInv, CountsFit, UNCHANGED metrics, \A r \in Requests : Stands(r),
           \A g \in DOMAIN runtimes : runtimes'[g].cfg = runtimes[g].cfg
    PROVE  CountsFit'
<1>1. Came' = Came /\ FallingBack' = FallingBack /\ UnderWay' = UnderWay
    BY DEF Came, FallingBack, UnderWay, Stands
<1>2. Erred' = Erred
    BY DEF Erred, Failed, Stands
<1>3. ASSUME NEW r \in Requests PROVE r \in Lookers' <=> r \in Lookers
    <2>1. CASE InProgress(r)
        <3>1. Gen(r) \in DOMAIN runtimes
            BY <2>1, BusyWorks DEF Works
        <3>2. Rt(r)'.cfg = Rt(r).cfg
            BY <2>1, <3>1 DEF Rt, Gen, Stands
        <3> QED BY <2>1, <3>2 DEF Lookers, Looking, Stands
    <2>2. CASE ~InProgress(r)
        <3>1. req[r].pc \in {"idle", "done"} /\ req'[r].pc \in {"idle", "done"}
            BY <2>2 DEF InProgress, Stands
        <3> QED BY <3>1 DEF Lookers, Looking, HasKey
    <2> QED BY <2>1, <2>2
<1>4. Lookers' = Lookers
    BY <1>3 DEF Lookers
<1> QED BY <1>1, <1>2, <1>4 DEF CountsFit, ModelsAgree, Between, Flying, Unstored, OfModels

LEMMA UnmovedCounted ==
    ASSUME IInv, CountsFit, UNCHANGED <<metrics, req>>,
           \A g \in DOMAIN runtimes : runtimes'[g].cfg = runtimes[g].cfg
    PROVE  CountsFit'
<1>1. \A r \in Requests : Stands(r)
    BY DEF Stands
<1> QED BY <1>1, StillCounted

LEMMA ReloadCounted == ASSUME IInv, CountsFit, NEW c, Reload(c) PROVE CountsFit'
<1> DEFINE b == BuildState(c)
<1>1. runtimes' = Append(runtimes, b) /\ UNCHANGED <<metrics, req>>
    BY DEF Reload
<1> HIDE DEF b
<1>2. PICK S : runtimes \in Seq(S)
    BY DEF IInv
<1>3. runtimes \in Seq(S \cup {b})
    BY <1>2
<1>4. \A g \in DOMAIN runtimes : runtimes'[g] = runtimes[g]
    BY <1>1, <1>3
<1> QED BY <1>1, <1>4, UnmovedCounted

LEMMA ScrapeCounted == ASSUME IInv, CountsFit, Scrape PROVE CountsFit'
<1> DEFINE l == Len(runtimes)
<1>1. runtimes' = [runtimes EXCEPT ![l].cache = Prune(runtimes[l].cache)]
      /\ UNCHANGED <<metrics, req>>
    BY DEF Scrape
<1>2. \A g \in DOMAIN runtimes : DOMAIN runtimes[g] = {"cfg", "health", "pools", "cache"}
    BY DEF IInv, RuntimeFits
<1>3. \A g \in DOMAIN runtimes : runtimes'[g].cfg = runtimes[g].cfg
    BY <1>1, <1>2
<1> QED BY <1>1, <1>3, UnmovedCounted

LEMMA TickCounted == ASSUME IInv, TypesFit, CountsFit, Tick PROVE CountsFit'
<1>1. runtimes' = [g \in DOMAIN runtimes |-> Aged(runtimes[g])] /\ UNCHANGED metrics
    BY DEF Tick, Aged
<1>2. \A g \in DOMAIN runtimes : runtimes'[g].cfg = runtimes[g].cfg
    BY <1>1, AgedIsComplete DEF IInv, TypesFit
<1>3. ASSUME NEW r \in Requests PROVE Stands(r)
    <2>1. CASE InProgress(r) /\ req[r].pc # "reading"
        <3>1. PICK t, n : req'[r] = [req[r] EXCEPT !.timer = t, !.spent = n]
            BY <2>1 DEF Tick
        <3>2. DOMAIN req[r] = Fields
            BY <2>1, BusyWorks DEF Works
        <3> QED BY <2>1, <3>1, <3>2 DEF Stands, Fields, Arrived, InProgress
    <2>2. CASE ~(InProgress(r) /\ req[r].pc # "reading")
        <3>1. req'[r] = req[r]
            BY <2>2 DEF Tick
        <3> QED BY <3>1 DEF Stands
    <2> QED BY <2>1, <2>2
<1> QED BY <1>1, <1>2, <1>3, StillCounted

LEMMA StepCounts == ASSUME IInv, TypesFit, CountsFit, [Next]_vars PROVE CountsFit'
<1>1. UNCHANGED vars => CountsFit'
    BY UnmovedCounted DEF vars
<1>2. ASSUME NEW r \in Requests, ClientLeaves(r) PROVE CountsFit'
    BY <1>2, UnmovedCounted DEF ClientLeaves
<1> QED BY <1>1, <1>2, RequestCounted, ReloadCounted, ScrapeCounted, TickCounted DEF Next

LEMMA CountAtFirst == ASSUME Init PROVE CountsFit
<1>1. metrics \in Metrics /\ ModelsAgree(metrics)
      /\ metrics.requests = 0 /\ metrics.errors = 0 /\ metrics.fallbacks = 0
      /\ metrics.attempts = 0 /\ metrics.cacheMisses = 0 /\ metrics.cacheStores = 0
    BY DEF Init, Metrics, ModelMetrics, NoModelMetric, ModelsAgree
<1>2. Came = {} /\ Erred = {} /\ FallingBack = {} /\ UnderWay = {} /\ Lookers = {}
    BY DEF Init, Idle, Came, Erred, Failed, FallingBack, UnderWay, Lookers, Looking, HasKey
<1>3. ASSUME NEW counter \in {"attempts", "fallbacks"} PROVE OfModels(metrics, counter) = 0
    <2> DEFINE f == [a \in AllAliases |-> metrics.models[a][counter]]
    <2>1. \A a \in AllAliases : f[a] = 0
        BY DEF Init, NoModelMetric
    <2> HIDE DEF f
    <2>2. SumOver(f, AllAliases) = 0
        BY <2>1, CountsAssumption, SumOfZeros
    <2> QED BY <2>2 DEF OfModels, f
<1>4. Between(metrics) = 0 /\ Flying(metrics) = 0 /\ Unstored(metrics) = 0
    BY <1>1, <1>3 DEF Between, Flying, Unstored
<1> QED BY <1>1, <1>2, <1>4, FS_EmptySet DEF CountsFit

LEMMA CountsAlwaysFit == Spec => []CountsFit
BY CountAtFirst, StepCounts, AlwaysFits, TypesAlwaysFit, PTL DEF Spec

\* Whatever the attempts of concurrent requests end in, /metrics counts each
\* once, for the gateway and for its model, and tells no more answers stored in
\* a cache than were missed there (recordModelAttempt, recordModelFallback,
\* routeRequest).
THEOREM CountersAgree == Spec => []MetricsAgree
<1>1. ASSUME CountsFit PROVE MetricsAgree
    <2>1. metrics \in Metrics /\ ModelsAgree(metrics)
        BY <1>1 DEF CountsFit
    <2>2. /\ OfModels(metrics, "attempts") \in Int /\ OfModels(metrics, "fallbacks") \in Int
          /\ metrics.attempts \in Int /\ metrics.fallbacks \in Int
          /\ metrics.cacheMisses \in Int /\ metrics.cacheStores \in Int
        BY <2>1, SumsOfModels DEF Metrics
    <2>3. /\ Came \subseteq Requests /\ FallingBack \subseteq Requests
          /\ UnderWay \subseteq Requests /\ Lookers \subseteq Requests
        BY DEF Came, FallingBack, UnderWay, Lookers
    <2>4. /\ Cardinality(FallingBack) \in Nat /\ Cardinality(UnderWay) \in Nat
          /\ Cardinality(Lookers) \in Nat
        BY <2>3, CountsAssumption, FS_Subset, FS_CardinalityType
    <2>5. /\ metrics.attempts = OfModels(metrics, "attempts") + Cardinality(UnderWay)
          /\ metrics.fallbacks = OfModels(metrics, "fallbacks") + Cardinality(FallingBack)
          /\ metrics.cacheStores <= metrics.cacheMisses
        BY <1>1, <2>2, <2>4 DEF CountsFit, Flying, Between, Unstored
    <2>6. Total("attempts") = OfModels(metrics, "attempts") /\ Total("fallbacks") = OfModels(metrics, "fallbacks")
        BY DEF Total, OfModels
    <2> QED BY <1>1, <2>1, <2>5, <2>6 DEF MetricsAgree, CountsFit, ModelsAgree, Came, Erred, Failed, FallingBack
<1> QED BY <1>1, CountsAlwaysFit, PTL
-----------------------------------------------------------------------------
(* How far a request has come.                                             *)

LEMMA CourseIs ==
    ASSUME NEW cfg, NEW q
    PROVE  /\ q.pc = "idle" => CourseOf(cfg, q) = Fallback!New
           /\ q.pc = "reading" => CourseOf(cfg, q) = Fallback!Reading
           /\ q.pc \in {"candidate", "fallback"} => CourseOf(cfg, q) = Place(cfg, q, "next", 0)
           /\ q.pc = "keys" => CourseOf(cfg, q) = Place(cfg, q, "at", KeyCount(cfg, q) - q.tries)
           /\ q.pc \in HasKey =>
                CourseOf(cfg, q) = Place(cfg, q, "asking", KeyCount(cfg, q) - q.tries - 1)
           /\ q.pc = "charging" => CourseOf(cfg, q) = Place(cfg, q, "at", 0)
           /\ q.pc = "storing" => CourseOf(cfg, q) = Place(cfg, q, "answered", 0)
           /\ q.pc = "done" /\ q.answer.kind # "success" =>
                CourseOf(cfg, q) = Fallback!Ended([kind |-> q.answer.kind])
           /\ q.pc = "done" /\ q.answer.kind = "success" =>
                CourseOf(cfg, q) = Fallback!Ended([kind |-> "success", alias |-> q.answer.alias,
                                                   fresh |-> q.answer.fresh])
BY DEF CourseOf, HasKey, Fallback!New, Fallback!Reading, Fallback!Ended

LEMMA PlaceIs ==
    ASSUME NEW cfg, NEW q, NEW stage, NEW left
    PROVE  Place(cfg, q, stage, left) =
                Fallback!Routed(stage, q.plan, q.ci, left, Barred(cfg, q))
BY DEF Place, Fallback!Routed

\* The steps of a request that has a plan, one by one.
LEMMA RoutedSteps ==
    ASSUME NEW plan, NEW place, NEW left, NEW barred
    PROVE  LET at(stage, p, l) == Fallback!Routed(stage, plan, p, l, barred) IN
           /\ \A s \in {"at", "asking"} :
                Fallback!Move(at(s, place, left), at("next", place + 1, 0))
           /\ Fallback!Fail(at("asking", place, left), at("at", place, 0))
           /\ Fallback!Fail(at("asking", place, left), at("at", place, left))
           /\ Fallback!Succeed(at("asking", place, left), at("answered", place, 0))
           /\ left > 0 => Fallback!Attempt(at("at", place, left), at("asking", place, left - 1))
           /\ ~barred /\ place <= Len(plan) =>
                \A n \in AllKeyCounts : Fallback!TakeTurn(at("next", place, left), at("at", place, n))
BY DEF Fallback!Routed, Fallback!Onward, Fallback!Move, Fallback!Fail, Fallback!Succeed,
       Fallback!Attempt, Fallback!TakeTurn, Fallback!HasTurn

\* And its ends.
LEMMA RoutedEnds ==
    ASSUME NEW plan, NEW place, NEW left, NEW barred, NEW hasLeft
    PROVE  LET at(stage) == Fallback!Routed(stage, plan, place, left, barred)
               from(fresh) == Fallback!Ended([kind |-> "success", alias |-> plan[place], fresh |-> fresh])
           IN  /\ ~barred /\ place <= Len(plan) => Fallback!Reuse(at("next"), from(FALSE))
               /\ Fallback!Deliver(at("asking"), from(TRUE)) /\ Fallback!Deliver(at("answered"), from(TRUE))
               /\ Fallback!Deny(at("asking"), Fallback!Ended(Fallback!Rejection))
               /\ barred \/ place > Len(plan) =>
                    Fallback!GiveUp(at("next"), Fallback!Ended(Fallback!NoAnswer), hasLeft)
               /\ hasLeft => Fallback!GiveUp(at("asking"), Fallback!Ended(Fallback!NoAnswer), hasLeft)
BY DEF Fallback!Routed, Fallback!Reuse, Fallback!Deliver, Fallback!Deny, Fallback!GiveUp,
       Fallback!HasTurn, Fallback!AnswerOf

-----------------------------------------------------------------------------
(* What a step of a request does to how far it has come.                   *)

Before(r) == CourseOf(Rt(r).cfg, req[r])
After(r) == CourseOf(runtimes[req'[r].gen].cfg, req'[r])

\* r goes on as OrderedFallback has it, or has come no further.
GoesWell(r) == After(r) = Before(r) \/ Fallback!GoesOn(Before(r), After(r), r \in gone)

\* Where the plan of r can bring it, without the clock.
At(r, stage, place, left) ==
    Fallback!Routed(stage, req[r].plan, place, left, Barred(Rt(r).cfg, req[r]))

\* Where a request is that has a plan.
LEMMA BeforeIs ==
    ASSUME NEW r \in Requests
    PROVE  LET n == KeyCount(Rt(r).cfg, req[r]) IN
           /\ req[r].pc \in {"candidate", "fallback"} => Before(r) = At(r, "next", req[r].ci, 0)
           /\ req[r].pc = "keys" => Before(r) = At(r, "at", req[r].ci, n - req[r].tries)
           /\ req[r].pc \in HasKey => Before(r) = At(r, "asking", req[r].ci, n - req[r].tries - 1)
           /\ req[r].pc = "charging" => Before(r) = At(r, "at", req[r].ci, 0)
           /\ req[r].pc = "storing" => Before(r) = At(r, "answered", req[r].ci, 0)
BY CourseIs, PlaceIs DEF Before, At

\* And where it is when it has gone on.
LEMMA AfterIs ==
    ASSUME NEW r \in Requests, req'[r].gen = req[r].gen, req'[r].in = req[r].in,
           req'[r].plan = req[r].plan, req'[r].spent = req[r].spent
    PROVE  LET n == KeyCount(Rt(r).cfg, req'[r]) IN
           /\ req'[r].pc \in {"candidate", "fallback"} => After(r) = At(r, "next", req'[r].ci, 0)
           /\ req'[r].pc = "keys" => After(r) = At(r, "at", req'[r].ci, n - req'[r].tries)
           /\ req'[r].pc \in HasKey => After(r) = At(r, "asking", req'[r].ci, n - req'[r].tries - 1)
           /\ req'[r].pc = "charging" => After(r) = At(r, "at", req'[r].ci, 0)
           /\ req'[r].pc = "storing" => After(r) = At(r, "answered", req'[r].ci, 0)
<1> DEFINE q == req'[r]
<1>1. \A stage, left : Place(Rt(r).cfg, q, stage, left) = At(r, stage, q.ci, left)
    BY PlaceIs DEF At, Barred
<1> HIDE DEF q
<1>2. CourseOf(Rt(r).cfg, q) = After(r)
    BY DEF After, q, Rt, Gen
<1> QED BY <1>1, <1>2, CourseIs DEF q

LEMMA SameKeyCount ==
    ASSUME NEW cfg, NEW q, NEW p, SamePlace(q, p) PROVE KeyCount(cfg, q) = KeyCount(cfg, p)
BY DEF KeyCount, SamePlace

\* Its end, with an answer or without.
LEMMA EndIsAnswer ==
    ASSUME IInv, NEW r \in Requests, Works(r), NEW a, req' = EndedWith(r, a)
    PROVE  /\ a.kind # "success" => After(r) = Fallback!Ended([kind |-> a.kind])
           /\ a.kind = "success" =>
                After(r) = Fallback!Ended([kind |-> "success", alias |-> a.alias, fresh |-> a.fresh])
BY EndIs, CourseIs DEF After

LEMMA FailureEnds ==
    ASSUME IInv, NEW r \in Requests, Works(r), NEW m, FailRequest(r, m)
    PROVE  After(r) = Fallback!Ended(Fallback!NoAnswer)
<1>1. After(r) = Fallback!Ended([kind |-> Error.kind])
    <2>1. req' = EndedWith(r, Error)
        BY DEF FailRequest
    <2>2. Error.kind # "success"
        BY DEF Error
    <2> QED BY <2>1, <2>2, EndIsAnswer
<1> QED BY <1>1 DEF Error, Fallback!NoAnswer

\* The request gives its model up.
LEMMA NextCandidateGoesWell ==
    ASSUME IInv, NEW r \in Requests, Works(r), req[r].pc \in HasKey \cup {"keys", "charging"},
           req' = NextCandidate(r)
    PROVE  GoesWell(r)
<1>1. After(r) = At(r, "next", req[r].ci + 1, 0)
    BY NextCandidateIs, AfterIs
<1>2. \E left : \E s \in {"at", "asking"} : Before(r) = At(r, s, req[r].ci, left)
    BY BeforeIs
<1>3. Fallback!Move(Before(r), After(r))
    BY <1>1, <1>2, RoutedSteps DEF At
<1> QED BY <1>3 DEF GoesWell, Fallback!GoesOn

\* An attempt fails, and with it the model.
LEMMA ToChargeGoesWell ==
    ASSUME IInv, NEW r \in Requests, Works(r), req[r].pc \in HasKey,
           NEW ra, req' = ToCharge(r, ra)
    PROVE  GoesWell(r)
<1>1. After(r) = At(r, "at", req[r].ci, 0)
    BY ToChargeIs, AfterIs DEF SamePlace
<1>2. \E left : Before(r) = At(r, "asking", req[r].ci, left)
    BY BeforeIs
<1>3. Fallback!Fail(Before(r), After(r))
    BY <1>1, <1>2, RoutedSteps DEF At
<1> QED BY <1>3 DEF GoesWell, Fallback!GoesOn

\* It fails, and the next key may be tried.
LEMMA NextTryGoesWell ==
    ASSUME IInv, TypesFit, NEW r \in Requests, req[r].pc \in HasKey, req' = NextTry(r)
    PROVE  GoesWell(r)
<1> DEFINE n == KeyCount(Rt(r).cfg, req[r])
           t == req[r].tries
<1>1. InProgress(r) /\ n \in Nat
    BY AtModel DEF AtCandidate
<1>2. Works(r) /\ t \in Nat
    BY <1>1, Working DEF FieldsOK
<1>3. SamePlace(req'[r], req[r]) /\ req'[r].pc = "keys" /\ req'[r].tries = t + 1
    BY <1>2, NextTryIs
<1>4. KeyCount(Rt(r).cfg, req'[r]) = n
    BY <1>3, SameKeyCount
<1>5. After(r) = At(r, "at", req[r].ci, n - (t + 1))
    BY <1>3, <1>4, AfterIs DEF SamePlace
<1>6. Before(r) = At(r, "asking", req[r].ci, n - t - 1)
    BY BeforeIs
<1>7. n - (t + 1) = n - t - 1
    <2> HIDE DEF n, t
    <2> QED BY <1>1, <1>2
<1>8. Fallback!Fail(Before(r), After(r))
    BY <1>5, <1>6, <1>7, RoutedSteps DEF At
<1> QED BY <1>8 DEF GoesWell, Fallback!GoesOn

-----------------------------------------------------------------------------
(* The steps of a request, one by one.                                     *)

LEMMA AcceptGoesWell ==
    ASSUME IInv, NEW r \in Requests, NEW in, Accept(r, in) PROVE GoesWell(r)
<1>1. req[r].pc = "idle" /\ req'[r].pc = "reading"
    BY DEF Accept, IInv, Arrived
<1>2. Before(r) = Fallback!New /\ After(r) = Fallback!Reading
    BY <1>1, CourseIs DEF Before, After
<1>3. Fallback!Come(Before(r), After(r))
    BY <1>2 DEF Fallback!Come, Fallback!New
<1> QED BY <1>3 DEF GoesWell, Fallback!GoesOn

\* It ends without an answer before it has a plan.
LEMMA RefusedGoesWell ==
    ASSUME IInv, NEW r \in Requests, Works(r), req[r].pc = "reading", NEW m, FailRequest(r, m)
    PROVE  GoesWell(r)
<1>1. Before(r) = Fallback!Reading /\ After(r) = Fallback!Ended(Fallback!NoAnswer)
    BY FailureEnds, CourseIs DEF Before
<1>2. Fallback!Refuse(Before(r), After(r))
    BY <1>1 DEF Fallback!Refuse, Fallback!Reading
<1> QED BY <1>2 DEF GoesWell, Fallback!GoesOn

LEMMA BadRequestGoesWell ==
    ASSUME IInv, NEW r \in Requests, BadRequest(r) PROVE GoesWell(r)
<1>1. Works(r)
    BY BusyWorks DEF BadRequest, InProgress
<1> QED BY <1>1, RefusedGoesWell DEF BadRequest

\* The plan is made of a route.
LEMMA PlanIsOfRoute ==
    ASSUME NEW cfg \in Configs, Routes(cfg), NEW h \in HealthOf(cfg), NEW n, Known(cfg, n)
    PROVE  Candidates(cfg, h, n) \in AllPlans
<1> DEFINE as == Aliases(cfg, n)
<1>1. as \in RoutesOf(cfg)
    <2>1. n \in DOMAIN cfg.routes \cup DOMAIN cfg.models \/ "default" \in DOMAIN cfg.routes
        BY Zenon DEF Known
    <2> QED BY <2>1 DEF Aliases, RoutesOf, Range
<1>2. Candidates(cfg, h, n) = Select(as, ClosedAt(h, as)) /\ ClosedAt(h, as) \subseteq DOMAIN as
    BY CandidatesAreClosed DEF ClosedAt
<1>3. Candidates(cfg, h, n) \in PartsOf(as)
    BY <1>2 DEF PartsOf
<1> HIDE DEF as
<1> QED BY <1>1, <1>3 DEF AllPlans

LEMMA PlanGoesWell ==
    ASSUME IInv, TypesFit, NEW r \in Requests, Plan(r) PROVE GoesWell(r)
<1> DEFINE c == Rt(r).cfg
           plan == IF Known(c, req[r].in.name) THEN Candidates(c, Rt(r).health, req[r].in.name)
                   ELSE <<>>
<1>1. req[r].pc = "reading" /\ InProgress(r)
    BY DEF Plan, InProgress
<1>2. /\ Works(r) /\ RuntimeOK(Rt(r)) /\ c \in Configs /\ FieldsOK(c, req[r])
      /\ Routes(c) /\ Rt(r).health \in HealthOf(c) /\ c.requestTimeout \in Nat \ {0}
    BY <1>1, Working, RuntimeHas
<1>3. CASE plan = <<>>
    BY <1>1, <1>2, <1>3, RefusedGoesWell DEF Plan
<1>4. CASE plan # <<>>
    <2>1. req' = [req EXCEPT ![r].pc = "candidate", ![r].plan = plan, ![r].ci = 1]
        BY <1>4 DEF Plan
    <2>2. plan \in AllPlans \ {<<>>}
        BY <1>2, <1>4, PlanIsOfRoute
    <2> HIDE DEF plan
    <2>3. /\ req'[r].pc = "candidate" /\ req'[r].plan = plan /\ req'[r].ci = 1
          /\ req'[r].gen = req[r].gen
        BY <1>2, <2>1 DEF IInv, Works, Fields, Arrived
    <2> DEFINE barred == Barred(c, req'[r])
    <2>4. barred \in BOOLEAN
        BY DEF Barred
    <2>5. After(r) = Fallback!Routed("next", plan, 1, 0, barred)
        BY <2>3, CourseIs, PlaceIs DEF After, Rt, Gen
    <2> HIDE DEF barred
    <2>6. \E b \in BOOLEAN : After(r) = Fallback!Routed("next", plan, 1, 0, b)
        BY <2>4, <2>5
    <2>7. Before(r).stage = "reading"
        <3>1. Before(r) = Fallback!Reading
            BY <1>1, CourseIs DEF Before
        <3> QED BY <3>1 DEF Fallback!Reading
    <2>8. Fallback!Choose(Before(r), After(r))
        BY <2>2, <2>6, <2>7, Zenon DEF Fallback!Choose
    <2> QED BY <2>8 DEF GoesWell, Fallback!GoesOn
<1> QED BY <1>3, <1>4

\* A model's turn would come, but there is none left, or none may have it.
LEMMA GivenUpGoesWell ==
    ASSUME IInv, NEW r \in Requests, Works(r), req[r].pc \in {"candidate", "fallback"},
           Barred(Rt(r).cfg, req[r]) \/ req[r].ci > Len(req[r].plan),
           NEW m, FailRequest(r, m)
    PROVE  GoesWell(r)
<1>1. Before(r) = At(r, "next", req[r].ci, 0) /\ After(r) = Fallback!Ended(Fallback!NoAnswer)
    BY BeforeIs, FailureEnds
<1>2. Fallback!GiveUp(Before(r), After(r), r \in gone)
    BY <1>1, RoutedEnds DEF At
<1> QED BY <1>2 DEF GoesWell, Fallback!GoesOn

LEMMA ExhaustedGoesWell ==
    ASSUME IInv, NEW r \in Requests, Exhausted(r) PROVE GoesWell(r)
<1>1. Works(r)
    BY BusyWorks DEF Exhausted, InProgress
<1> QED BY <1>1, GivenUpGoesWell DEF Exhausted

LEMMA OutOfTimeGoesWell ==
    ASSUME IInv, NEW r \in Requests, OutOfTime(r) PROVE GoesWell(r)
<1>1. Works(r) /\ req[r].pc \in {"candidate", "fallback"}
    BY BusyWorks DEF OutOfTime, HasTurn, InProgress
<1> QED BY <1>1, GivenUpGoesWell DEF OutOfTime, Barred

LEMMA CannotPatchGoesWell ==
    ASSUME IInv, NEW r \in Requests, CannotPatch(r) PROVE GoesWell(r)
<1>1. Works(r) /\ req[r].pc \in {"candidate", "fallback"}
    BY BusyWorks DEF CannotPatch, HasTurn, InProgress
<1> QED BY <1>1, GivenUpGoesWell DEF CannotPatch, Barred

LEMMA CountFallbackGoesWell ==
    ASSUME IInv, NEW r \in Requests, CountFallback(r) PROVE GoesWell(r)
<1>1. Works(r) /\ req[r].pc = "candidate" /\ req' = [req EXCEPT ![r].pc = "fallback"]
    BY BusyWorks DEF CountFallback, InProgress
<1>2. SamePlace(req'[r], req[r]) /\ req'[r].pc = "fallback"
    BY <1>1 DEF IInv, Works, Fields, Arrived, SamePlace
<1>3. Before(r) = At(r, "next", req[r].ci, 0) /\ After(r) = At(r, "next", req[r].ci, 0)
    BY <1>1, <1>2, BeforeIs, AfterIs DEF SamePlace
<1> QED BY <1>3 DEF GoesWell

LEMMA TryCandidateGoesWell ==
    ASSUME IInv, TypesFit, NEW r \in Requests, TryCandidate(r) PROVE GoesWell(r)
<1> DEFINE c == Rt(r).cfg
           n == KeyCount(c, req[r])
           k == CacheKey(Model(r), req[r].in)
<1>1. /\ req[r].pc \in {"candidate", "fallback"} /\ InProgress(r)
      /\ req[r].pc = "candidate" => req[r].ci = 1
    BY DEF TryCandidate, HasTurn, InProgress
<1>2. Works(r) /\ c \in Configs /\ Valid(c) /\ FieldsOK(c, req[r])
    BY <1>1, Working
<1>3. /\ req[r].tries = 0 /\ req[r].ci \in 1 .. Len(req[r].plan) /\ Len(req[r].plan) \in Nat
      /\ Alias(r) \in DOMAIN c.models
    <2>1. req[r].plan # <<>> /\ req[r].ci \in 1 .. Len(req[r].plan)
        BY <1>1, <1>2, PlacesOf DEF FieldsOK, AtCandidate, HasKey
    <2>2. Len(req[r].plan) \in Nat /\ req[r].ci \in DOMAIN req[r].plan
        BY <1>2, <2>1, PlacesOf DEF FieldsOK
    <2>3. Alias(r) \in DOMAIN c.models
        BY <1>2, <2>2, ElementType DEF FieldsOK, Alias
    <2> QED BY <1>1, <1>2, <2>1, <2>2, <2>3 DEF FieldsOK
<1>4. Before(r) = At(r, "next", req[r].ci, 0)
    BY <1>1, BeforeIs
<1>5. ~Barred(c, req[r]) /\ req[r].ci <= Len(req[r].plan)
    <2>1. req[r].spent \in Nat /\ c.requestTimeout \in Nat /\ req[r].spent < c.requestTimeout
        BY <1>2, ValidConfig DEF FieldsOK, TryCandidate
    <2>2. req[r].in.decodes
        BY DEF TryCandidate
    <2> QED BY <1>3, <2>1, <2>2 DEF Barred
<1>6. \/ \E asked : req' = EndedWith(r, Answer(r, FALSE, asked))
      \/ \E b : req' = [req EXCEPT ![r].pc = "keys", ![r].budget = b]
    BY DEF TryCandidate
<1>7. ASSUME NEW asked, req' = EndedWith(r, Answer(r, FALSE, asked)) PROVE GoesWell(r)
    <2>1. After(r) = Fallback!Ended([kind |-> "success", alias |-> req[r].plan[req[r].ci],
                                     fresh |-> FALSE])
        <3> DEFINE a == Answer(r, FALSE, asked)
        <3>1. a.kind = "success" /\ a.alias = req[r].plan[req[r].ci] /\ a.fresh = FALSE
            BY DEF Answer, Alias
        <3> HIDE DEF a
        <3> QED BY <1>2, <1>7, <3>1, EndIsAnswer DEF a
    <2>2. Fallback!Reuse(Before(r), After(r))
        BY <1>4, <1>5, <2>1, RoutedEnds DEF At
    <2> QED BY <2>2 DEF GoesWell, Fallback!GoesOn
<1>8. ASSUME NEW b, req' = [req EXCEPT ![r].pc = "keys", ![r].budget = b] PROVE GoesWell(r)
    <2>1. SamePlace(req'[r], req[r]) /\ req'[r].pc = "keys" /\ req'[r].tries = req[r].tries
        BY <1>2, <1>8 DEF IInv, Works, Fields, Arrived, SamePlace
    <2>2. n \in AllKeyCounts /\ n \in Nat
        <3> DEFINE m == c.models[Alias(r)].provider
        <3>1. m \in DOMAIN c.providers /\ c.providers[m].usableKeys \in Nat
            BY <1>2, <1>3, ValidConfig
        <3>2. n = c.providers[m].usableKeys
            BY DEF KeyCount, Alias
        <3> HIDE DEF n, m
        <3>3. n \in {c.providers[p].usableKeys : p \in DOMAIN c.providers}
            BY <3>1, <3>2
        <3> QED BY <1>2, <3>1, <3>2, <3>3 DEF AllKeyCounts
    <2>3. KeyCount(c, req'[r]) = n
        BY <2>1, SameKeyCount
    <2>4. After(r) = At(r, "at", req[r].ci, n - 0)
        BY <1>3, <2>1, <2>3, AfterIs DEF SamePlace
    <2>5. n - 0 = n
        <3> HIDE DEF n
        <3> QED BY <2>2
    <2>6. Fallback!TakeTurn(Before(r), After(r))
        BY <1>4, <1>5, <2>2, <2>4, <2>5, RoutedSteps DEF At
    <2> QED BY <2>6 DEF GoesWell, Fallback!GoesOn
<1> QED BY <1>6, <1>7, <1>8

LEMMA AtCandidateWorks ==
    ASSUME IInv, NEW r \in Requests, req[r].pc \in AtCandidate PROVE Works(r)
BY BusyWorks DEF InProgress, AtCandidate, HasKey

LEMMA KeysExhaustedGoesWell ==
    ASSUME IInv, NEW r \in Requests, KeysExhausted(r) PROVE GoesWell(r)
BY AtCandidateWorks, NextCandidateGoesWell DEF KeysExhausted, AtCandidate

\* A key is taken only when one is left to take.
LEMMA TakeKeyGoesWell ==
    ASSUME IInv, TypesFit, NEW r \in Requests, TakeKey(r) PROVE GoesWell(r)
<1> DEFINE n == KeyCount(Rt(r).cfg, req[r])
           t == req[r].tries
           k == NextKey(Pool(r))
<1>1. req[r].pc = "keys" /\ req[r].pc \in AtCandidate
    BY DEF TakeKey, AtCandidate
<1>2. InProgress(r) /\ n \in Nat /\ Pool(r) \in PoolsOf(n)
    BY <1>1, AtModel
<1>3. Works(r) /\ t \in Nat /\ t < n
    BY <1>2, Working DEF FieldsOK, TakeKey, PoolsOf
<1>4. CASE k = NoKey
    BY <1>1, <1>3, <1>4, NextCandidateGoesWell DEF TakeKey
<1>5. CASE k # NoKey
    <2>1. req' = [req EXCEPT ![r].pc = "flight", ![r].key = k, ![r].timer = req[r].budget]
        BY <1>5 DEF TakeKey
    <2> HIDE DEF k
    <2>2. SamePlace(req'[r], req[r]) /\ req'[r].pc \in HasKey /\ req'[r].tries = t
        BY <1>3, <2>1 DEF IInv, Works, Fields, Arrived, SamePlace, HasKey
    <2>3. KeyCount(Rt(r).cfg, req'[r]) = n
        BY <2>2, SameKeyCount
    <2> DEFINE left == n - t
    <2>4. After(r) = At(r, "asking", req[r].ci, left - 1)
        BY <2>2, <2>3, AfterIs DEF SamePlace
    <2>5. Before(r) = At(r, "at", req[r].ci, left)
        BY <1>1, BeforeIs
    <2>6. left > 0
        <3> HIDE DEF n, t
        <3> QED BY <1>2, <1>3
    <2> HIDE DEF left
    <2>7. Fallback!Attempt(Before(r), After(r))
        BY <2>4, <2>5, <2>6, RoutedSteps DEF At
    <2> QED BY <2>7 DEF GoesWell, Fallback!GoesOn
<1> QED BY <1>4, <1>5

LEMMA AttemptCanceledGoesWell ==
    ASSUME IInv, NEW r \in Requests, AttemptCanceled(r) PROVE GoesWell(r)
<1>1. req[r].pc \in HasKey /\ Works(r)
    BY AtCandidateWorks DEF AttemptCanceled, AtCandidate, HasKey
<1>2. After(r) = Fallback!Ended(Fallback!NoAnswer)
    BY <1>1, FailureEnds DEF AttemptCanceled
<1>3. \E left : Before(r) = At(r, "asking", req[r].ci, left)
    BY <1>1, BeforeIs
<1>4. Fallback!GiveUp(Before(r), After(r), r \in gone)
    BY <1>2, <1>3, RoutedEnds DEF At, AttemptCanceled
<1> QED BY <1>4 DEF GoesWell, Fallback!GoesOn

LEMMA AttemptTimesOutGoesWell ==
    ASSUME IInv, NEW r \in Requests, AttemptTimesOut(r) PROVE GoesWell(r)
BY AtCandidateWorks, ToChargeGoesWell DEF AttemptTimesOut, AtCandidate, HasKey

LEMMA TransportErrorGoesWell ==
    ASSUME IInv, TypesFit, NEW r \in Requests, TransportError(r) PROVE GoesWell(r)
BY NextTryGoesWell DEF TransportError, HasKey

LEMMA HeadersGoWell ==
    ASSUME IInv, NEW r \in Requests, NEW reply, Headers(r, reply) PROVE GoesWell(r)
<1> DEFINE n == KeyCount(Rt(r).cfg, req[r])
           t == req[r].tries
<1>1. req[r].pc \in HasKey /\ Works(r)
    BY AtCandidateWorks DEF Headers, AtCandidate, HasKey
<1>2. SamePlace(req'[r], req[r]) /\ req'[r].pc \in HasKey /\ req'[r].tries = t
    BY <1>1 DEF Headers, IInv, Works, Fields, Arrived, SamePlace, HasKey
<1>3. KeyCount(Rt(r).cfg, req'[r]) = n
    BY <1>2, SameKeyCount
<1>4. After(r) = At(r, "asking", req[r].ci, n - t - 1)
    BY <1>2, <1>3, AfterIs DEF SamePlace
<1>5. Before(r) = At(r, "asking", req[r].ci, n - t - 1)
    BY <1>1, BeforeIs
<1> QED BY <1>4, <1>5 DEF GoesWell

\* The answer of the model whose turn it is goes to the client.
LEMMA DeliveredGoesWell ==
    ASSUME IInv, NEW r \in Requests, req[r].pc \in HasKey \cup {"storing"},
           NEW asked, req' = EndedWith(r, Answer(r, TRUE, asked))
    PROVE  GoesWell(r)
<1>1. Works(r)
    BY AtCandidateWorks DEF AtCandidate
<1>2. After(r) = Fallback!Ended([kind |-> "success", alias |-> req[r].plan[req[r].ci],
                                 fresh |-> TRUE])
    <2> DEFINE a == Answer(r, TRUE, asked)
    <2>1. a.kind = "success" /\ a.alias = req[r].plan[req[r].ci] /\ a.fresh = TRUE
        BY DEF Answer, Alias
    <2> HIDE DEF a
    <2> QED BY <1>1, <2>1, EndIsAnswer DEF a
<1>3. \E left : \E s \in {"asking", "answered"} : Before(r) = At(r, s, req[r].ci, left)
    BY BeforeIs
<1>4. Fallback!Deliver(Before(r), After(r))
    BY <1>2, <1>3, RoutedEnds DEF At
<1> QED BY <1>4 DEF GoesWell, Fallback!GoesOn

LEMMA AcceptAnswerGoesWell ==
    ASSUME IInv, NEW r \in Requests, AcceptAnswer(r) PROVE GoesWell(r)
<1>1. req[r].pc \in HasKey /\ Works(r)
    BY AtCandidateWorks DEF AcceptAnswer, AtCandidate, HasKey
<1>2. \/ \E asked : req' = EndedWith(r, Answer(r, TRUE, asked))
      \/ req' = [req EXCEPT ![r].pc = "storing", ![r].timer = NoTimer]
    BY DEF AcceptAnswer
<1>3. ASSUME req' = [req EXCEPT ![r].pc = "storing", ![r].timer = NoTimer] PROVE GoesWell(r)
    <2>1. SamePlace(req'[r], req[r]) /\ req'[r].pc = "storing"
        BY <1>1, <1>3 DEF IInv, Works, Fields, Arrived, SamePlace
    <2>2. After(r) = At(r, "answered", req[r].ci, 0)
        BY <2>1, AfterIs DEF SamePlace
    <2>3. \E left : Before(r) = At(r, "asking", req[r].ci, left)
        BY <1>1, BeforeIs
    <2>4. Fallback!Succeed(Before(r), After(r))
        BY <2>2, <2>3, RoutedSteps DEF At
    <2> QED BY <2>4 DEF GoesWell, Fallback!GoesOn
<1> QED BY <1>1, <1>2, <1>3, DeliveredGoesWell

LEMMA RejectAnswerGoesWell ==
    ASSUME IInv, NEW r \in Requests, RejectAnswer(r) PROVE GoesWell(r)
BY AtCandidateWorks, ToChargeGoesWell DEF RejectAnswer, AtCandidate, HasKey

LEMMA SaveAnswerGoesWell ==
    ASSUME IInv, NEW r \in Requests, SaveAnswer(r) PROVE GoesWell(r)
<1>1. req' = EndedWith(r, Answer(r, TRUE, Asked(Model(r), req[r].in)))
    BY DEF SaveAnswer
<1> QED BY <1>1, DeliveredGoesWell DEF SaveAnswer

LEMMA ReadRejectionGoesWell ==
    ASSUME IInv, TypesFit, NEW r \in Requests, ReadRejection(r) PROVE GoesWell(r)
<1>1. req[r].pc \in HasKey /\ Works(r)
    BY AtCandidateWorks DEF ReadRejection, AtCandidate, HasKey
<1>2. \/ req' = NextTry(r) \/ (\E ra : req' = ToCharge(r, ra)) \/ req' = NextCandidate(r)
      \/ req' = EndedWith(r, [kind |-> "rejection"])
    BY DEF ReadRejection
<1>3. ASSUME req' = EndedWith(r, [kind |-> "rejection"]) PROVE GoesWell(r)
    <2> DEFINE a == [kind |-> "rejection"]
    <2>1. a.kind = "rejection"
        OBVIOUS
    <2> HIDE DEF a
    <2>2. After(r) = Fallback!Ended([kind |-> a.kind])
        BY <1>1, <1>3, <2>1, EndIsAnswer DEF a
    <2>3. After(r) = Fallback!Ended(Fallback!Rejection)
        BY <2>1, <2>2 DEF Fallback!Rejection
    <2>4. \E left : Before(r) = At(r, "asking", req[r].ci, left)
        BY <1>1, BeforeIs
    <2>5. Fallback!Deny(Before(r), After(r))
        BY <2>3, <2>4, RoutedEnds DEF At
    <2> QED BY <2>5 DEF GoesWell, Fallback!GoesOn
<1> QED BY <1>1, <1>2, <1>3, NextTryGoesWell, ToChargeGoesWell, NextCandidateGoesWell

LEMMA ChargeGoesWell ==
    ASSUME IInv, NEW r \in Requests, Charge(r) PROVE GoesWell(r)
BY AtCandidateWorks, NextCandidateGoesWell DEF Charge, AtCandidate

LEMMA RequestGoesWell ==
    ASSUME IInv, TypesFit, NEW r \in Requests, Compute(r) \/ React(r) PROVE GoesWell(r)
<1>1. CASE Compute(r)
    BY <1>1, ExhaustedGoesWell, CountFallbackGoesWell, OutOfTimeGoesWell, CannotPatchGoesWell,
       TryCandidateGoesWell, KeysExhaustedGoesWell, TakeKeyGoesWell, AttemptCanceledGoesWell, AttemptTimesOutGoesWell,
       SaveAnswerGoesWell, ChargeGoesWell, BadRequestGoesWell, ReadRejectionGoesWell,
       RejectAnswerGoesWell, AcceptAnswerGoesWell DEF Compute
<1>2. CASE React(r)
    BY <1>2, AcceptGoesWell, BadRequestGoesWell, PlanGoesWell, TransportErrorGoesWell,
       HeadersGoWell, AcceptAnswerGoesWell, RejectAnswerGoesWell, ReadRejectionGoesWell DEF React
<1> QED BY <1>1, <1>2

-----------------------------------------------------------------------------
(* What a step does to how far each request has come.                      *)

\* Of a request that stays as it is nothing changes, for the configuration of
\* a runtime state never does.
LEMMA CourseStays ==
    ASSUME IInv, NEW x \in Requests, req'[x] = req[x],
           \A g \in DOMAIN runtimes : runtimes'[g].cfg = runtimes[g].cfg
    PROVE  CourseOf(Rt(x).cfg, req[x])' = CourseOf(Rt(x).cfg, req[x])
<1>1. CASE req[x] = Idle
    <2>1. req[x].pc = "idle" /\ req'[x].pc = "idle"
        BY <1>1 DEF Idle
    <2> QED BY <2>1, CourseIs
<1>2. CASE req[x].gen \in DOMAIN runtimes
    <2>1. runtimes'[req'[x].gen].cfg = runtimes[req[x].gen].cfg
        BY <1>2
    <2> QED BY <2>1 DEF Rt, Gen
<1> QED BY <1>1, <1>2 DEF IInv, RequestFits

LEMMA CoursesStay ==
    ASSUME IInv, UNCHANGED req, \A g \in DOMAIN runtimes : runtimes'[g].cfg = runtimes[g].cfg
    PROVE  Courses' = Courses
<1>1. \A x \in Requests : CourseOf(Rt(x).cfg, req[x])' = CourseOf(Rt(x).cfg, req[x])
    BY CourseStays
<1> QED BY <1>1 DEF Courses

LEMMA RequestAdvances ==
    ASSUME IInv, TypesFit, NEW r \in Requests, Compute(r) \/ React(r)
    PROVE  Fallback!Advance(r) \/ UNCHANGED <<Courses, gone>>
<1>1. Kept(r) /\ GoesWell(r) /\ gone' = gone
    BY RequestKept, RequestGoesWell, GoneStays
<1>2. \A g \in DOMAIN runtimes : runtimes'[g].cfg = runtimes[g].cfg
    BY <1>1 DEF Kept, Learns
<1>3. \A x \in Requests \ {r} : Courses'[x] = Courses[x]
    BY <1>1, <1>2, CourseStays DEF Kept, OnlyMoves, Courses
<1>4. Courses[r] = Before(r)
    BY DEF Courses, Before
<1>5. Courses'[r] = After(r)
    <2>1. CASE req'[r] = Idle
        <3>1. req'[r].pc = "idle"
            BY <2>1 DEF Idle
        <3> QED BY <3>1, CourseIs DEF Courses, After, Rt, Gen
    <2>2. CASE req'[r].gen \in DOMAIN runtimes
        BY <1>2, <2>2 DEF Courses, After, Rt, Gen
    <2> QED BY <1>1, <2>1, <2>2 DEF Kept, RequestFits
<1>6. Courses' = [Courses EXCEPT ![r] = Courses'[r]]
    BY <1>3 DEF Courses
<1>7. CASE After(r) = Before(r)
    BY <1>1, <1>4, <1>5, <1>6, <1>7 DEF Courses
<1>8. CASE Fallback!GoesOn(Before(r), After(r), r \in gone)
    BY <1>1, <1>4, <1>5, <1>6, <1>8 DEF Fallback!Advance
<1> QED BY <1>1, <1>7, <1>8 DEF GoesWell

LEMMA ReloadStays == ASSUME IInv, NEW c, Reload(c) PROVE UNCHANGED <<Courses, gone>>
<1>1. PICK S : runtimes \in Seq(S)
    BY DEF IInv
<1>2. \A g \in DOMAIN runtimes : runtimes'[g] = runtimes[g]
    BY <1>1 DEF Reload
<1> QED BY <1>2, CoursesStay DEF Reload

LEMMA ScrapeStays == ASSUME IInv, Scrape PROVE UNCHANGED <<Courses, gone>>
<1>1. \A g \in DOMAIN runtimes : runtimes'[g].cfg = runtimes[g].cfg
    BY DEF Scrape, IInv, RuntimeFits
<1> QED BY <1>1, CoursesStay DEF Scrape

\* Time may only bar a request.
LEMMA TickMayBar ==
    ASSUME IInv, TypesFit, Tick, NEW r \in Requests
    PROVE  Fallback!MayBeBarred(Courses[r], Courses'[r])
<1> DEFINE c == Rt(r).cfg
           p == req[r]
           q == req'[r]
<1>1. runtimes' = [g \in DOMAIN runtimes |-> Aged(runtimes[g])]
    BY DEF Tick, Aged
<1>2. \A g \in DOMAIN runtimes : runtimes'[g].cfg = runtimes[g].cfg
    BY <1>1, AgedIsComplete DEF IInv, TypesFit
<1>3. CASE q = p
    BY <1>2, <1>3, CourseStays DEF Courses, Fallback!MayBeBarred
<1>4. CASE InProgress(r) /\ p.pc # "reading"
    <2> DEFINE t == IF p.timer > 0 THEN p.timer - 1 ELSE p.timer
               n == IF p.spent < MaxSpent THEN p.spent + 1 ELSE p.spent
               left == KeyCount(c, p) - p.tries - 1
    <2>1. q = [p EXCEPT !.timer = t, !.spent = n]
        BY <1>4 DEF Tick
    <2>2. Works(r) /\ FieldsOK(c, p) /\ c \in Configs /\ Valid(c) /\ Waiting(r)
        BY <1>4, Working DEF Tick
    <2>3. p.pc \in HasKey
        BY <1>4, <2>2 DEF Waiting, HasKey
    <2>4. n \in Nat /\ p.spent \in Nat /\ n >= p.spent /\ c.requestTimeout \in Nat
        BY <2>2, ValidConfig DEF FieldsOK
    <2> HIDE DEF t, n, q
    <2>5. /\ q.pc = p.pc /\ q.gen = p.gen /\ q.plan = p.plan /\ q.ci = p.ci
          /\ q.tries = p.tries /\ q.spent = n /\ q.in = p.in
        BY <2>1, <2>2 DEF Works, Fields, Arrived
    <2>6. KeyCount(c, q) = KeyCount(c, p)
        BY <2>5 DEF KeyCount
    <2> DEFINE before == Barred(c, p)
               after == Barred(c, q)
    <2>7. Courses[r] = Fallback!Routed("asking", p.plan, p.ci, left, before)
        BY <2>3, CourseIs, PlaceIs DEF Courses
    <2>8. Courses'[r] = CourseOf(c, q)
        BY <1>2, <2>2, <2>5 DEF Courses, q, Works, Rt, Gen
    <2>9. CourseOf(c, q) = Fallback!Routed("asking", p.plan, p.ci, left, after)
        BY <2>3, <2>5, <2>6, CourseIs, PlaceIs
    <2>10. after = before \/ after = TRUE
        BY <2>4, <2>5 DEF Barred
    <2> HIDE DEF left, before, after
    <2>11. CASE after = before
        BY <2>7, <2>8, <2>9, <2>11 DEF Fallback!MayBeBarred
    <2>12. CASE after = TRUE
        <3>1. /\ Courses[r].stage = "asking" /\ Courses[r].plan = p.plan
              /\ Courses[r].place = p.ci /\ Courses[r].left = left
            BY <2>7 DEF Fallback!Routed
        <3>2. Courses'[r] = Fallback!Routed("asking", p.plan, p.ci, left, TRUE)
            BY <2>8, <2>9, <2>12
        <3> QED BY <3>1, <3>2 DEF Fallback!MayBeBarred
    <2> QED BY <2>10, <2>11, <2>12
<1> QED BY <1>3, <1>4 DEF Tick

LEMMA TickPasses == ASSUME IInv, TypesFit, Tick PROVE Fallback!TimePasses
BY TickMayBar DEF Fallback!TimePasses, Courses, Tick

LEMMA StepFollows ==
    ASSUME IInv, TypesFit, [Next]_vars PROVE [Fallback!Next]_<<Courses, gone>>
<1>1. CASE UNCHANGED vars
    BY <1>1, CoursesStay DEF vars
<1>2. ASSUME NEW r \in Requests, Compute(r) \/ React(r)
      PROVE  [Fallback!Next]_<<Courses, gone>>
    BY <1>2, RequestAdvances DEF Fallback!Next
<1>3. ASSUME NEW r \in Requests, ClientLeaves(r) PROVE Fallback!ClientLeaves(r)
    BY <1>3, CoursesStay DEF ClientLeaves, Fallback!ClientLeaves
<1>4. ASSUME NEW c \in Configs, Reload(c) PROVE UNCHANGED <<Courses, gone>>
    BY <1>4, ReloadStays
<1> QED BY <1>1, <1>2, <1>3, <1>4, ScrapeStays, TickPasses DEF Next, Fallback!Next

LEMMA NewAtFirst == ASSUME Init PROVE Fallback!Init
<1>1. \A r \in Requests : req[r].pc = "idle"
    BY DEF Init, Idle
<1>2. \A r \in Requests : CourseOf(Rt(r).cfg, req[r]) = Fallback!New
    BY <1>1, CourseIs
<1> QED BY <1>2 DEF Init, Fallback!Init, Courses

\* The gateway implements OrderedFallback: whatever other requests, reloads
\* and the clock do to keys, circuits and caches, each request takes the models
\* of its route in turn, as often as there are keys for them, and ends once, with
\* what the model whose turn it is has answered, or without an answer for want of
\* models, time or a client, or because what it asks cannot be sent to any model,
\* and then without an attempt (routeRequest).
THEOREM RequestsFollowTheirRoutes == Spec => FollowsItsRoute
<1>1. Init => Fallback!Init
    BY NewAtFirst
<1>2. IInv /\ TypesFit /\ [Next]_vars => [Fallback!Next]_<<Courses, gone>>
    BY StepFollows
<1> QED BY <1>1, <1>2, AlwaysFits, TypesAlwaysFit, PTL DEF Spec, FollowsItsRoute, Fallback!Spec
=============================================================================
