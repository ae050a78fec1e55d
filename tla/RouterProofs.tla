---------------------------- MODULE RouterProofs ----------------------------
(***************************************************************************)
(* Theorems about the router and its circuit breakers, for every           *)
(* configuration, every number of concurrent requests and every            *)
(* Retry-After.                                                            *)
(***************************************************************************)
EXTENDS Router, OperatorTheorems, TLAPS

\* The part of TypeOK that the breakers' account rests on.
AccountsOK ==
    /\ health \in [Models -> [failures : 0 .. Cfg.threshold - 1, wait : Nat]]
    /\ recent \in [Models -> [Places -> Verdict]]

\* What the failures that are counted stand for: that many verdicts, the newest
\* ones, are failures that did not open the circuit, and the one before them was
\* none, or left the circuit open.
Accounted(h, seen) ==
    /\ \A i \in 1 .. h.failures : seen[i].what = "failure" /\ ~seen[i].trips
    /\ Failed(seen[h.failures + 1]) => seen[h.failures + 1].open

\* TripsAreEarned, of one model.
Earned(seen) ==
    /\ seen[1].trips =>
        \/ seen[1].what = "asked"
        \/ (\A i \in Places : Failed(seen[i])) /\ \A i \in Places \ {1} : ~seen[i].trips
    /\ seen[1].what = "asked" => seen[1].open
    /\ (\A i \in Places : Failed(seen[i])) => \E i \in Places : seen[i].open

AllEarned == \A a \in Models : Accounted(health[a], recent[a]) /\ Earned(recent[a])

LEMMA EarnedIs == AllEarned => TripsAreEarned
BY DEF AllEarned, Earned, TripsAreEarned, FailedInARow

\* The verdicts that are kept after one more.
After(seen, verdict) == [i \in Places |-> IF i = 1 THEN verdict ELSE seen[i - 1]]

LEMMA AfterIs ==
    ASSUME NEW seen \in [Places -> Verdict], NEW verdict \in Verdict
    PROVE  /\ After(seen, verdict) \in [Places -> Verdict]
           /\ 1 \in Places /\ After(seen, verdict)[1] = verdict
           /\ \A i \in Places \ {1} :
                i - 1 \in Places /\ After(seen, verdict)[i] = seen[i - 1]
<1>1. Cfg.threshold \in Nat \ {0}
    BY CfgAssumption
<1>2. 1 \in Places /\ \A i \in Places \ {1} : i - 1 \in Places
    BY <1>1 DEF Places
<1>3. \A i \in Places : i # 1 => seen[i - 1] \in Verdict
    BY <1>2
<1> QED BY <1>2, <1>3 DEF After

\* One failure of a model, and what is kept of it.
LEMMA OneFailure ==
    ASSUME NEW h \in [failures : 0 .. Cfg.threshold - 1, wait : Nat],
           NEW seen \in [Places -> Verdict], NEW ra \in Nat,
           Accounted(h, seen), Earned(seen),
           NEW g, g = RecordFailure(Cfg, h, ra),
           NEW verdict,
           verdict = [what |-> IF ra > 0 THEN "asked" ELSE "failure", open |-> IsOpen(g),
                      trips |-> IsOpen(g) /\ ~IsOpen(h)]
    PROVE  /\ g \in [failures : 0 .. Cfg.threshold - 1, wait : Nat]
           /\ verdict \in Verdict
           /\ Accounted(g, After(seen, verdict)) /\ Earned(After(seen, verdict))
<1> DEFINE T == Cfg.threshold
           s == After(seen, verdict)
<1>1. T \in Nat \ {0} /\ Cfg.cooldown \in Nat \ {0}
    BY CfgAssumption
<1>2. verdict \in Verdict /\ Failed(verdict)
    BY DEF Verdict, IsOpen, Failed
<1>3. /\ 1 \in Places /\ s[1] = verdict
      /\ \A i \in Places \ {1} : i - 1 \in Places /\ s[i] = seen[i - 1]
    BY <1>2, AfterIs
<1>4. /\ \A i \in 1 .. h.failures : seen[i].what = "failure" /\ ~seen[i].trips
      /\ Failed(seen[h.failures + 1]) => seen[h.failures + 1].open
    BY DEF Accounted
<1> HIDE DEF s
<1>5. CASE h.failures + 1 >= T \/ ra > 0
    <2>1. g = [failures |-> 0, wait |-> IF ra > Cfg.cooldown THEN ra ELSE Cfg.cooldown]
        BY <1>5 DEF RecordFailure
    <2>2. /\ g \in [failures : 0 .. T - 1, wait : Nat]
          /\ g.failures = 0 /\ g.wait > 0
        BY <1>1, <2>1
    <2>3. IsOpen(g)
        BY <2>2 DEF IsOpen
    <2>4. Accounted(g, s)
        BY <1>3, <2>2, <2>3 DEF Accounted
    <2>5. ASSUME ra = 0
          PROVE  \A i \in Places \ {1} : Failed(s[i]) /\ ~s[i].trips
        <3>1. h.failures = T - 1
            BY <1>1, <1>5, <2>5
        <3>2. \A i \in Places \ {1} : i - 1 \in 1 .. h.failures
            BY <1>1, <3>1 DEF Places
        <3> QED BY <1>3, <1>4, <3>2 DEF Failed
    <2>6. Earned(s)
        BY <1>2, <1>3, <2>3, <2>5 DEF Earned
    <2> QED BY <1>2, <2>2, <2>4, <2>6 DEF s
<1>6. CASE ~(h.failures + 1 >= T \/ ra > 0)
    <2>1. g = [h EXCEPT !.failures = @ + 1]
        BY <1>6 DEF RecordFailure
    <2>2. /\ g \in [failures : 0 .. T - 1, wait : Nat]
          /\ g.failures = h.failures + 1 /\ g.wait = h.wait
          /\ h.failures + 2 \in Places \ {1} /\ h.failures \in Nat /\ ra = 0
        BY <1>1, <1>6, <2>1 DEF Places
    <2>3. verdict.what = "failure" /\ ~verdict.trips
        <3>1. IsOpen(g) <=> IsOpen(h)
            BY <2>2 DEF IsOpen
        <3>2. verdict.trips <=> IsOpen(g) /\ ~IsOpen(h)
            OBVIOUS
        <3>3. verdict.what = IF ra > 0 THEN "asked" ELSE "failure"
            OBVIOUS
        <3> QED BY <2>2, <3>1, <3>2, <3>3
    <2>4. Accounted(g, s)
        <3>1. ASSUME NEW i \in 1 .. h.failures + 1 PROVE s[i].what = "failure" /\ ~s[i].trips
            <4>1. CASE i = 1
                BY <1>3, <2>3, <4>1
            <4>2. CASE i # 1
                <5>1. i \in Places \ {1} /\ i - 1 \in 1 .. h.failures
                    BY <1>1, <2>2, <4>2 DEF Places
                <5> QED BY <1>3, <1>4, <5>1
            <4> QED BY <4>1, <4>2
        <3>2. s[h.failures + 2] = seen[h.failures + 1]
            <4>1. (h.failures + 2) - 1 = h.failures + 1
                BY <2>2
            <4> QED BY <1>3, <2>2, <4>1
        <3>3. g.failures + 1 = h.failures + 2
            BY <2>2
        <3> QED BY <1>4, <2>2, <3>1, <3>2, <3>3 DEF Accounted
    <2>5. (\A i \in Places : Failed(s[i])) => \E i \in Places : s[i].open
        <3>1. s[h.failures + 2] = seen[h.failures + 1]
            <4>1. (h.failures + 2) - 1 = h.failures + 1
                BY <2>2
            <4> QED BY <1>3, <2>2, <4>1
        <3> QED BY <1>4, <2>2, <3>1
    <2>6. Earned(s)
        BY <1>3, <2>3, <2>5 DEF Earned
    <2> QED BY <1>2, <2>2, <2>4, <2>6 DEF s
<1> QED BY <1>5, <1>6

\* A success, and what is kept of it.
LEMMA OneSuccess ==
    ASSUME NEW seen \in [Places -> Verdict], NEW h, NEW verdict,
           verdict = [what |-> "success", open |-> IsOpen(Healthy),
                      trips |-> IsOpen(Healthy) /\ ~IsOpen(h)]
    PROVE  /\ Healthy \in [failures : 0 .. Cfg.threshold - 1, wait : Nat]
           /\ verdict \in Verdict
           /\ Accounted(Healthy, After(seen, verdict)) /\ Earned(After(seen, verdict))
<1>1. verdict \in Verdict /\ ~Failed(verdict) /\ ~verdict.trips /\ verdict.what = "success"
    <2>1. ~IsOpen(Healthy)
        BY DEF IsOpen, Healthy
    <2>2. verdict.what = "success" /\ (verdict.trips <=> IsOpen(Healthy) /\ ~IsOpen(h))
        OBVIOUS
    <2>3. verdict \in Verdict
        BY DEF Verdict, IsOpen
    <2> QED BY <2>1, <2>2, <2>3 DEF Failed
<1>2. 1 \in Places /\ After(seen, verdict)[1] = verdict
    BY <1>1, AfterIs
<1>3. Healthy \in [failures : 0 .. Cfg.threshold - 1, wait : Nat] /\ Healthy.failures = 0
    BY CfgAssumption DEF Healthy
<1>4. Accounted(Healthy, After(seen, verdict))
    BY <1>1, <1>2, <1>3 DEF Accounted
<1>5. Earned(After(seen, verdict))
    BY <1>1, <1>2 DEF Earned
<1> QED BY <1>1, <1>3, <1>4, <1>5

LEMMA AccountSteps ==
    ASSUME AccountsOK, AllEarned, [Next]_vars
    PROVE  AccountsOK' /\ AllEarned'
<1>1. ASSUME UNCHANGED <<health, recent>>
      PROVE  AccountsOK' /\ AllEarned'
    BY <1>1 DEF AccountsOK, AllEarned, Accounted, Earned
\* A model whose state becomes g with the verdict v.
<1>2. ASSUME NEW a, NEW g, NEW v,
             health' = [health EXCEPT ![a] = g],
             recent' = [recent EXCEPT ![a] = After(recent[a], v)],
             a \in Models => /\ g \in [failures : 0 .. Cfg.threshold - 1, wait : Nat]
                             /\ v \in Verdict
                             /\ Accounted(g, After(recent[a], v))
                             /\ Earned(After(recent[a], v))
      PROVE  AccountsOK' /\ AllEarned'
    <2>1. CASE a \notin Models
        <3>1. UNCHANGED <<health, recent>>
            BY <1>2, <2>1 DEF AccountsOK
        <3> QED BY <1>1, <3>1
    <2>2. CASE a \in Models
        <3>1. After(recent[a], v) \in [Places -> Verdict]
            BY <1>2, <2>2, AfterIs DEF AccountsOK
        <3>2. AccountsOK'
            BY <1>2, <2>2, <3>1 DEF AccountsOK
        <3>3. health'[a] = g /\ recent'[a] = After(recent[a], v)
            BY <1>2, <2>2 DEF AccountsOK
        <3>4. \A b \in Models \ {a} : health'[b] = health[b] /\ recent'[b] = recent[b]
            BY <1>2 DEF AccountsOK
        <3>5. AllEarned'
            BY <1>2, <2>2, <3>3, <3>4 DEF AllEarned, Accounted, Earned
        <3> QED BY <3>2, <3>5
    <2> QED BY <2>1, <2>2
<1>3. ASSUME NEW c \in Callers, NEW ra \in RetryAfters, Fail(c, ra)
      PROVE  AccountsOK' /\ AllEarned'
    <2> PICK a : a = Head(plan[c])
        OBVIOUS
    <2> DEFINE g == RecordFailure(Cfg, health[a], ra)
               v == [what |-> IF ra > 0 THEN "asked" ELSE "failure", open |-> IsOpen(g),
                     trips |-> IsOpen(g) /\ ~IsOpen(health[a])]
    <2>1. health' = [health EXCEPT ![a] = g]
        BY <1>3 DEF Fail, Failure
    <2>2. recent' = [recent EXCEPT ![a] = After(recent[a],
                [what |-> IF ra > 0 THEN "asked" ELSE "failure", open |-> IsOpen(health'[a]),
                 trips |-> IsOpen(health'[a]) /\ ~IsOpen(health[a])])]
        BY <1>3 DEF Fail, Reported, After
    <2>3. CASE a \in Models
        <3>1. health'[a] = g
            BY <2>1, <2>3 DEF AccountsOK
        <3>2. recent' = [recent EXCEPT ![a] = After(recent[a], v)]
            BY <2>2, <3>1
        <3>3. /\ health[a] \in [failures : 0 .. Cfg.threshold - 1, wait : Nat]
              /\ recent[a] \in [Places -> Verdict]
              /\ ra \in Nat
              /\ Accounted(health[a], recent[a]) /\ Earned(recent[a])
            BY <2>3, RetryAfterAssumption DEF AccountsOK, AllEarned
        <3>4. /\ g \in [failures : 0 .. Cfg.threshold - 1, wait : Nat]
              /\ v \in Verdict
              /\ Accounted(g, After(recent[a], v))
              /\ Earned(After(recent[a], v))
            BY <3>3, OneFailure
        <3> HIDE DEF g, v
        <3> QED BY <1>2, <2>1, <3>2, <3>4
    <2>4. CASE a \notin Models
        <3>1. UNCHANGED <<health, recent>>
            BY <2>1, <2>2, <2>4 DEF AccountsOK
        <3> QED BY <1>1, <3>1
    <2> QED BY <2>3, <2>4
<1>4. ASSUME NEW c \in Callers, Succeed(c)
      PROVE  AccountsOK' /\ AllEarned'
    <2> PICK a : a = Head(plan[c])
        OBVIOUS
    <2> DEFINE v == [what |-> "success", open |-> IsOpen(Healthy),
                     trips |-> IsOpen(Healthy) /\ ~IsOpen(health[a])]
    <2>1. health' = [health EXCEPT ![a] = Healthy]
        BY <1>4 DEF Succeed, Success
    <2>2. recent' = [recent EXCEPT ![a] = After(recent[a],
                [what |-> "success", open |-> IsOpen(health'[a]),
                 trips |-> IsOpen(health'[a]) /\ ~IsOpen(health[a])])]
        BY <1>4 DEF Succeed, Reported, After
    <2>3. CASE a \in Models
        <3>1. health'[a] = Healthy
            BY <2>1, <2>3 DEF AccountsOK
        <3>2. recent' = [recent EXCEPT ![a] = After(recent[a], v)]
            BY <2>2, <3>1
        <3>3. /\ Healthy \in [failures : 0 .. Cfg.threshold - 1, wait : Nat]
              /\ v \in Verdict
              /\ Accounted(Healthy, After(recent[a], v))
              /\ Earned(After(recent[a], v))
            BY <2>3, OneSuccess DEF AccountsOK
        <3> HIDE DEF v
        <3> QED BY <1>2, <2>1, <3>2, <3>3
    <2>4. CASE a \notin Models
        <3>1. UNCHANGED <<health, recent>>
            BY <2>1, <2>2, <2>4 DEF AccountsOK
        <3> QED BY <1>1, <3>1
    <2> QED BY <2>3, <2>4
<1>5. CASE Tick
    <2> DEFINE rested(a) == [health[a] EXCEPT !.wait = IF @ = 0 THEN 0 ELSE @ - 1]
    <2>1. health' = [a \in Models |-> rested(a)] /\ recent' = recent
        BY <1>5 DEF Tick, ElapseHealth, AccountsOK
    <2>2. \A a \in Models :
            /\ rested(a) \in [failures : 0 .. Cfg.threshold - 1, wait : Nat]
            /\ rested(a).failures = health[a].failures
        <3>1. \A a \in Models : health[a] \in [failures : 0 .. Cfg.threshold - 1, wait : Nat]
            BY DEF AccountsOK
        <3> QED BY <3>1
    <2> HIDE DEF rested
    <2>3. AccountsOK'
        BY <2>1, <2>2 DEF AccountsOK
    <2>4. AllEarned'
        BY <2>1, <2>2 DEF AllEarned, Accounted, Earned
    <2> QED BY <2>3, <2>4
<1>6. CASE UNCHANGED vars
    BY <1>1, <1>6 DEF vars
<1>7. \A c \in Callers :
        \/ (\E n \in Names : Ask(c, n)) \/ Pass(c) \/ Abandon(c)
        => UNCHANGED <<health, recent>>
    BY DEF Ask, Pass, Abandon
<1> QED BY <1>1, <1>3, <1>4, <1>5, <1>6, <1>7 DEF Next

LEMMA AccountsKept == Spec => [](AccountsOK /\ AllEarned)
<1>1. Init => AccountsOK /\ AllEarned
    <2> SUFFICES ASSUME Init PROVE AccountsOK /\ AllEarned
        OBVIOUS
    <2>1. Untried \in Verdict /\ ~Failed(Untried) /\ ~Untried.trips /\ Untried.what = "success"
        BY DEF Untried, Verdict, Failed
    <2>2. 1 \in Places
        BY CfgAssumption DEF Places
    <2>3. \A a \in Models :
            /\ health[a] = Healthy
            /\ recent[a] = [i \in Places |-> Untried]
        <3>1. health = [a \in Models |-> Healthy]
            BY DEF Init, NewHealth, Models
        <3>2. recent = [a \in Models |-> [i \in Places |-> Untried]]
            BY DEF Init
        <3> QED BY <3>1, <3>2
    <2>4. Healthy.failures = 0
          /\ Healthy \in [failures : 0 .. Cfg.threshold - 1, wait : Nat]
        BY CfgAssumption DEF Healthy
    <2>5. AccountsOK
        BY <2>1, <2>4 DEF Init, NewHealth, Models, AccountsOK
    <2>6. ASSUME NEW a \in Models
          PROVE  Accounted(health[a], recent[a]) /\ Earned(recent[a])
        <3>1. recent[a][1] = Untried /\ health[a].failures = 0
            BY <2>2, <2>3, <2>4
        <3> QED BY <2>1, <2>2, <3>1 DEF Accounted, Earned
    <2> QED BY <2>5, <2>6 DEF AllEarned
<1> QED BY <1>1, AccountSteps, PTL DEF Spec

\* A circuit opens only on a Retry-After or on as many failures in a row as the
\* threshold says, each of them counted for one opening; and that many failures
\* in a row always open it (router.go, Failure, Success).
THEOREM EveryTripIsEarned == Spec => []TripsAreEarned
BY AccountsKept, EarnedIs, PTL

-----------------------------------------------------------------------------
(* What Candidates answers.                                                *)

LEMMA RoutesOfCfg ==
    ASSUME health \in [Models -> HealthState]
    PROVE  Routes(Cfg) /\ health \in HealthOf(Cfg)
BY CfgAssumption DEF Routes, HealthOf, Models

\* With every circuit of a route open, Candidates has nothing to try, whatever
\* the configuration (the half-open branch of Candidates, which is to try the
\* circuit that recovers first).
THEOREM HalfOpenTriesNothing ==
    ASSUME health \in [Models -> HealthState], NEW n, Known(Cfg, n),
           \A i \in DOMAIN Aliases(Cfg, n) : IsOpen(health[Aliases(Cfg, n)[i]])
    PROVE  Candidates(Cfg, health, n) = <<>>
<1> DEFINE as == Aliases(Cfg, n)
           r == Select(as, {})
<1>0. Routes(Cfg) /\ health \in HealthOf(Cfg)
    BY RoutesOfCfg
<1>1. as \in Seq(Models)
    BY <1>0, KnownAliases DEF Models
<1>2. ClosedAt(health, as) = {}
    BY DEF ClosedAt
<1>3. Candidates(Cfg, health, n) = r
    BY <1>0, <1>2, CandidatesAreClosed
<1> HIDE DEF as
<1>4. r \in Seq(Models) /\ Members(r) = {as[i] : i \in {} \cap DOMAIN as}
    BY <1>1, Selects, SelectedMembers
<1> HIDE DEF r
<1>5. DOMAIN r = {}
    BY <1>4 DEF Members
<1> QED BY <1>3, <1>4, <1>5, PlacesOf

-----------------------------------------------------------------------------
(* What the requests do with it.                                           *)

LEMMA HealthTyped ==
    ASSUME AccountsOK
    PROVE  health \in [Models -> HealthState]
BY CfgAssumption DEF AccountsOK, HealthState

LEMMA PlansTyped ==
    ASSUME AccountsOK, plan \in [Callers -> Seq(Models)], [Next]_vars
    PROVE  plan' \in [Callers -> Seq(Models)]
<1>1. ASSUME NEW c \in Callers, NEW n \in Names, Ask(c, n)
      PROVE  plan' \in [Callers -> Seq(Models)]
    <2>1. Candidates(Cfg, health, n) \in Seq(Models)
        BY <1>1, HealthTyped, RoutesOfCfg, CandidatesTyped DEF Ask, Models
    <2> QED BY <1>1, <2>1 DEF Ask
<1>2. ASSUME NEW c \in Callers, plan[c] # <<>>, plan' = [plan EXCEPT ![c] = Tail(plan[c])]
      PROVE  plan' \in [Callers -> Seq(Models)]
    <2>1. Tail(plan[c]) \in Seq(Models)
        BY <1>2, TailOf
    <2> QED BY <1>2, <2>1
<1>3. ASSUME NEW c \in Callers, plan' = [plan EXCEPT ![c] = <<>>]
      PROVE  plan' \in [Callers -> Seq(Models)]
    BY <1>3
<1>4. ASSUME NEW c \in Callers, NEW ra \in RetryAfters, Fail(c, ra)
      PROVE  plan' \in [Callers -> Seq(Models)]
    BY <1>2, <1>4 DEF Fail
<1>5. ASSUME NEW c \in Callers, Pass(c)
      PROVE  plan' \in [Callers -> Seq(Models)]
    BY <1>2, <1>5 DEF Pass
<1>6. ASSUME NEW c \in Callers, Succeed(c) \/ Abandon(c)
      PROVE  plan' \in [Callers -> Seq(Models)]
    BY <1>3, <1>6 DEF Succeed, Abandon
<1>7. CASE Tick \/ UNCHANGED vars
    BY <1>7 DEF Tick, vars
<1> QED BY <1>1, <1>4, <1>5, <1>6, <1>7 DEF Next

LEMMA LateTyped ==
    ASSUME late \in [Models -> Nat], [Next]_vars
    PROVE  late' \in [Models -> Nat]
<1>1. ASSUME NEW c \in Callers, NEW ra \in RetryAfters, Fail(c, ra)
      PROVE  late' \in [Models -> Nat]
    <2> DEFINE a == Head(plan[c])
    <2>1. late' = [late EXCEPT ![a] = IF IsOpen(health[a]) THEN OneMore(late[a]) ELSE 0]
        BY <1>1 DEF Fail
    <2>2. CASE a \in Models
        <3>1. OneMore(late[a]) \in Nat
            BY <2>2 DEF OneMore
        <3> QED BY <2>1, <3>1
    <2>3. CASE a \notin Models
        BY <2>1, <2>3
    <2> QED BY <2>2, <2>3
<1>2. ASSUME NEW c \in Callers, Succeed(c)
      PROVE  late' \in [Models -> Nat]
    BY <1>2 DEF Succeed
<1>3. CASE Tick
    BY <1>3 DEF Tick
<1>4. ASSUME NEW c \in Callers, Pass(c) \/ Abandon(c) \/ \E n \in Names : Ask(c, n)
      PROVE  late' = late
    BY <1>4 DEF Pass, Abandon, Ask
<1>5. CASE UNCHANGED vars
    BY <1>5 DEF vars
<1> QED BY <1>1, <1>2, <1>3, <1>4, <1>5 DEF Next

\* The state has its type, and no circuit counts up to the threshold.
THEOREM RouterTypeCorrect == Spec => []TypeOK
<1>1. Init => plan \in [Callers -> Seq(Models)] /\ late \in [Models -> Nat]
    BY DEF Init
<1>2. AccountsOK /\ plan \in [Callers -> Seq(Models)] /\ late \in [Models -> Nat] /\ [Next]_vars
        => (plan \in [Callers -> Seq(Models)] /\ late \in [Models -> Nat])'
    BY PlansTyped, LateTyped
<1>3. AccountsOK /\ plan \in [Callers -> Seq(Models)] /\ late \in [Models -> Nat] => TypeOK
    BY DEF AccountsOK, TypeOK
<1> QED BY <1>1, <1>2, <1>3, AccountsKept, PTL DEF Spec

-----------------------------------------------------------------------------
(* An open circuit is left alone.                                          *)

PlansDistinct == \A c \in Callers : Distinct(plan[c])

LEMMA HoldingIs ==
    \A a : Holding(a) = {c \in Callers : a \in Members(plan[c])}
BY DEF Holding, Range, Members

\* Which requests hold a model after a step on one plan.
LEMMA DistinctTails ==
    ASSUME plan \in [Callers -> Seq(Models)], PlansDistinct, NEW c \in Callers,
           plan[c] # <<>>, plan' = [plan EXCEPT ![c] = Tail(plan[c])],
           NEW x, x = Head(plan[c])
    PROVE  /\ PlansDistinct'
           /\ \A a : Holding(a)' \subseteq Holding(a)
           /\ x \in Models /\ c \in Holding(x) /\ Holding(x)' = Holding(x) \ {c}
<1> PICK s : s = plan[c]
    OBVIOUS
<1>1. s \in Seq(Models) /\ s # <<>> /\ Distinct(s)
    BY DEF PlansDistinct
<1>2. /\ Head(s) \in Models /\ Head(s) \in Members(s)
      /\ Members(Tail(s)) \subseteq Members(s)
      /\ Distinct(Tail(s)) /\ Members(Tail(s)) = Members(s) \ {Head(s)}
    BY <1>1, TailOf
<1>3. plan'[c] = Tail(s) /\ plan[c] = s /\ \A d \in Callers \ {c} : plan'[d] = plan[d]
    OBVIOUS
<1>4. PlansDistinct'
    BY <1>2, <1>3 DEF PlansDistinct
<1>5. /\ \A a : Holding(a) = {d \in Callers : a \in Members(plan[d])}
      /\ \A a : Holding(a)' = {d \in Callers : a \in Members(plan'[d])}
    BY HoldingIs DEF Holding, Range, Members
<1>6. \A a : Holding(a)' \subseteq Holding(a)
    BY <1>2, <1>3, <1>5
<1>7. c \in Holding(x)
    BY <1>2, <1>3, <1>5
<1>8. Holding(x)' = Holding(x) \ {c}
    <2>1. x \notin Members(plan'[c])
        BY <1>2, <1>3
    <2>2. \A d \in Callers \ {c} : x \in Members(plan'[d]) <=> x \in Members(plan[d])
        BY <1>3
    <2>3. Holding(x) = {d \in Callers : x \in Members(plan[d])}
          /\ Holding(x)' = {d \in Callers : x \in Members(plan'[d])}
        BY <1>5
    <2> QED BY <2>1, <2>2, <2>3
<1> QED BY <1>2, <1>3, <1>4, <1>6, <1>7, <1>8

LEMMA PlanDropped ==
    ASSUME plan \in [Callers -> Seq(Models)], PlansDistinct, NEW c \in Callers,
           plan' = [plan EXCEPT ![c] = <<>>]
    PROVE  PlansDistinct' /\ \A a : Holding(a)' \subseteq Holding(a)
<1>1. plan'[c] = <<>> /\ \A d \in Callers \ {c} : plan'[d] = plan[d]
    OBVIOUS
<1>2. Distinct(<<>>) /\ Members(<<>>) = {}
    BY DEF Distinct, Members
<1>3. PlansDistinct'
    BY <1>1, <1>2 DEF PlansDistinct
<1>4. \A a : Holding(a)' = {d \in Callers : a \in Members(plan'[d])}
    BY DEF Holding, Range, Members
<1>5. \A a : Holding(a)' \subseteq Holding(a)
    BY <1>1, <1>2, <1>4, HoldingIs
<1> QED BY <1>3, <1>5

\* The bound does not break when fewer requests hold the model.
LEMMA FewerHold ==
    ASSUME NEW H, NEW G, H \subseteq G, G \subseteq Callers
    PROVE  /\ Cardinality(H) \in Nat /\ Cardinality(G) \in Nat /\ Cardinality(Callers) \in Nat
           /\ Cardinality(H) <= Cardinality(G)
           /\ \A c \in G : H = G \ {c} => Cardinality(H) = Cardinality(G) - 1
           /\ \A c \in Callers : c \notin H => Cardinality(H) < Cardinality(Callers)
<1>1. IsFiniteSet(G) /\ IsFiniteSet(H) /\ IsFiniteSet(Callers)
    BY CallersAssumption, FS_Subset
<1>2. Cardinality(H) \in Nat /\ Cardinality(G) \in Nat /\ Cardinality(Callers) \in Nat
    BY <1>1, FS_CardinalityType
<1>3. Cardinality(H) <= Cardinality(G)
    BY <1>1, FS_Subset
<1>4. ASSUME NEW c \in G, H = G \ {c} PROVE Cardinality(H) = Cardinality(G) - 1
    BY <1>1, <1>4, FS_RemoveElement
<1>5. ASSUME NEW c \in Callers, c \notin H PROVE Cardinality(H) < Cardinality(Callers)
    <2>1. H \subseteq Callers \ {c}
        BY <1>5
    <2>2. Cardinality(Callers \ {c}) = Cardinality(Callers) - 1 /\ IsFiniteSet(Callers \ {c})
        BY <1>1, FS_RemoveElement
    <2>3. Cardinality(H) <= Cardinality(Callers \ {c})
        BY <2>1, <2>2, FS_Subset
    <2> QED BY <1>2, <2>2, <2>3
<1> QED BY <1>2, <1>3, <1>4, <1>5

LEMMA StragglersStep ==
    ASSUME NamesOnce(Cfg), TypeOK, AccountsOK, PlansDistinct, StragglersBounded, [Next]_vars
    PROVE  PlansDistinct' /\ StragglersBounded'
<1>0. plan \in [Callers -> Seq(Models)] /\ late \in [Models -> Nat] /\ DOMAIN health = Models
    BY DEF TypeOK
<1>1. ASSUME NEW a \in Models,
             IsOpen(health'[a]) => IsOpen(health[a]) /\ late'[a] = late[a],
             Holding(a)' \subseteq Holding(a)
      PROVE  IsOpen(health'[a]) => late'[a] + Cardinality(Holding(a)') < Cardinality(Callers)
    <2>1. Holding(a) \subseteq Callers /\ late[a] \in Nat
        BY <1>0 DEF Holding
    <2>2. /\ Cardinality(Holding(a)') \in Nat /\ Cardinality(Holding(a)) \in Nat
          /\ Cardinality(Callers) \in Nat
          /\ Cardinality(Holding(a)') <= Cardinality(Holding(a))
        BY <1>1, <2>1, FewerHold
    <2>3. IsOpen(health[a]) => late[a] + Cardinality(Holding(a)) < Cardinality(Callers)
        BY DEF StragglersBounded
    <2> QED BY <1>1, <2>1, <2>2, <2>3
<1>2. ASSUME NEW c \in Callers, NEW n \in Names, Ask(c, n)
      PROVE  PlansDistinct' /\ StragglersBounded'
    <2> DEFINE r == Candidates(Cfg, health, n)
    <2>1. Distinct(r) /\ \A a \in Members(r) : ~IsOpen(health[a])
        BY <1>2, HealthTyped, RoutesOfCfg, CandidatesTyped DEF Ask, Models
    <2>2. plan' = [plan EXCEPT ![c] = r] /\ plan[c] = <<>> /\ health' = health /\ late' = late
        BY <1>2 DEF Ask
    <2> HIDE DEF r
    <2>3. plan'[c] = r /\ \A d \in Callers \ {c} : plan'[d] = plan[d]
        BY <1>0, <2>2
    <2>4. PlansDistinct'
        BY <2>1, <2>3 DEF PlansDistinct
    <2>5. ASSUME NEW a \in Models, IsOpen(health[a]) PROVE Holding(a)' \subseteq Holding(a)
        <3>1. a \notin Members(plan'[c])
            BY <2>1, <2>3, <2>5
        <3>2. Holding(a)' = {d \in Callers : a \in Members(plan'[d])}
            BY DEF Holding, Range, Members
        <3> QED BY <2>3, <3>1, <3>2, HoldingIs
    <2>6. \A a \in Models :
            IsOpen(health'[a]) => late'[a] + Cardinality(Holding(a)') < Cardinality(Callers)
        BY <1>1, <2>2, <2>5
    <2> QED BY <2>4, <2>6 DEF StragglersBounded
<1>3. ASSUME NEW c \in Callers, NEW ra \in RetryAfters, Fail(c, ra)
      PROVE  PlansDistinct' /\ StragglersBounded'
    <2> PICK x : x = Head(plan[c])
        OBVIOUS
    <2>1. /\ plan[c] # <<>> /\ plan' = [plan EXCEPT ![c] = Tail(plan[c])]
          /\ health' = [health EXCEPT ![x] = RecordFailure(Cfg, health[x], ra)]
          /\ late' = [late EXCEPT ![x] = IF IsOpen(health[x]) THEN OneMore(late[x]) ELSE 0]
        BY <1>3 DEF Fail, Failure
    <2>2. /\ PlansDistinct'
          /\ \A a : Holding(a)' \subseteq Holding(a)
          /\ x \in Models /\ c \in Holding(x)
          /\ Holding(x)' = Holding(x) \ {c}
        BY <1>0, <2>1, DistinctTails
    <2>3. ASSUME NEW a \in Models \ {x}
          PROVE  IsOpen(health'[a]) => late'[a] + Cardinality(Holding(a)') < Cardinality(Callers)
        <3>1. health'[a] = health[a] /\ late'[a] = late[a]
            BY <1>0, <2>1, <2>2
        <3> QED BY <1>1, <2>2, <3>1
    <2>4. late'[x] + Cardinality(Holding(x)') < Cardinality(Callers)
        <3>1. late'[x] = IF IsOpen(health[x]) THEN OneMore(late[x]) ELSE 0
            BY <1>0, <2>1, <2>2
        <3>2. Holding(x) \subseteq Callers /\ late[x] \in Nat
            BY <1>0, <2>2 DEF Holding
        <3>3. /\ Cardinality(Holding(x)') \in Nat /\ Cardinality(Holding(x)) \in Nat
              /\ Cardinality(Callers) \in Nat
              /\ Cardinality(Holding(x)') = Cardinality(Holding(x)) - 1
              /\ Cardinality(Holding(x)') < Cardinality(Callers)
            BY <2>2, <3>2, FewerHold
        <3>4. IsOpen(health[x]) => late[x] + Cardinality(Holding(x)) < Cardinality(Callers)
            BY <2>2 DEF StragglersBounded
        <3>5. OneMore(late[x]) \in Nat /\ OneMore(late[x]) <= late[x] + 1
            BY <3>2 DEF OneMore
        <3> QED BY <3>1, <3>2, <3>3, <3>4, <3>5
    <2> QED BY <2>2, <2>3, <2>4 DEF StragglersBounded
<1>4. ASSUME NEW c \in Callers, Succeed(c)
      PROVE  PlansDistinct' /\ StragglersBounded'
    <2> DEFINE x == Head(plan[c])
    <2>1. /\ plan' = [plan EXCEPT ![c] = <<>>]
          /\ health' = [health EXCEPT ![x] = Healthy]
          /\ late' = [late EXCEPT ![x] = 0]
        BY <1>4 DEF Succeed, Success
    <2> HIDE DEF x
    <2>2. PlansDistinct' /\ \A a : Holding(a)' \subseteq Holding(a)
        BY <1>0, <2>1, PlanDropped
    <2>3. ASSUME NEW a \in Models
          PROVE  IsOpen(health'[a]) => IsOpen(health[a]) /\ late'[a] = late[a]
        <3>1. ~IsOpen(Healthy)
            BY DEF IsOpen, Healthy
        <3> QED BY <1>0, <2>1, <3>1
    <2> QED BY <1>1, <2>2, <2>3 DEF StragglersBounded
<1>5. ASSUME NEW c \in Callers, Pass(c)
      PROVE  PlansDistinct' /\ StragglersBounded'
    <2>1. /\ PlansDistinct' /\ \A a : Holding(a)' \subseteq Holding(a)
          /\ health' = health /\ late' = late
        BY <1>0, <1>5, DistinctTails DEF Pass
    <2> QED BY <1>1, <2>1 DEF StragglersBounded
<1>6. ASSUME NEW c \in Callers, Abandon(c)
      PROVE  PlansDistinct' /\ StragglersBounded'
    <2>1. /\ PlansDistinct' /\ \A a : Holding(a)' \subseteq Holding(a)
          /\ health' = health /\ late' = late
        BY <1>0, <1>6, PlanDropped DEF Abandon
    <2> QED BY <1>1, <2>1 DEF StragglersBounded
<1>7. CASE Tick
    <2>1. plan' = plan /\ late' = [a \in Models |-> IF IsOpen(health'[a]) THEN late[a] ELSE 0]
        BY <1>7 DEF Tick
    <2>2. health' = [a \in Models |-> [health[a] EXCEPT !.wait = IF @ = 0 THEN 0 ELSE @ - 1]]
        BY <1>0, <1>7 DEF Tick, ElapseHealth
    <2>3. ASSUME NEW a \in Models, IsOpen(health'[a])
          PROVE  IsOpen(health[a]) /\ late'[a] = late[a]
        <3>1. health[a] \in [failures : 0 .. Cfg.threshold - 1, wait : Nat]
            BY DEF AccountsOK
        <3>2. health'[a] = [health[a] EXCEPT !.wait = IF @ = 0 THEN 0 ELSE @ - 1]
            BY <2>2
        <3>3. health'[a].wait = IF health[a].wait = 0 THEN 0 ELSE health[a].wait - 1
            BY <3>1, <3>2
        <3>4. health[a].wait > 0
            BY <2>3, <3>1, <3>3 DEF IsOpen
        <3> QED BY <2>1, <2>3, <3>4 DEF IsOpen
    <2>4. PlansDistinct' /\ \A a : Holding(a)' = Holding(a)
        BY <2>1 DEF PlansDistinct, Holding
    <2> QED BY <1>1, <2>3, <2>4 DEF StragglersBounded
<1>8. CASE UNCHANGED vars
    BY <1>8 DEF vars, PlansDistinct, StragglersBounded, Holding
<1> QED BY <1>2, <1>3, <1>4, <1>5, <1>6, <1>7, <1>8 DEF Next

\* Whatever the configuration whose routes name no model twice, the number of
\* requests and the order they report in: against a circuit that is open there
\* are fewer late verdicts, those to come included, than there are requests
\* (Candidates, Failure).
THEOREM StragglersAreBounded == NamesOnce(Cfg) => (Spec => []StragglersBounded)
<1> SUFFICES ASSUME NamesOnce(Cfg) PROVE Spec => []StragglersBounded
    OBVIOUS
<1>1. Init => PlansDistinct /\ StragglersBounded
    <2> SUFFICES ASSUME Init PROVE PlansDistinct /\ StragglersBounded
        OBVIOUS
    <2>1. \A a \in Models : ~IsOpen(health[a])
        BY DEF Init, NewHealth, Models, IsOpen, Healthy
    <2>2. Distinct(<<>>)
        BY DEF Distinct
    <2> QED BY <2>1, <2>2 DEF Init, PlansDistinct, StragglersBounded
<1>2. TypeOK /\ AccountsOK /\ PlansDistinct /\ StragglersBounded /\ [Next]_vars
        => PlansDistinct' /\ StragglersBounded'
    BY StragglersStep
<1> QED BY <1>1, <1>2, RouterTypeCorrect, AccountsKept, PTL DEF Spec
=============================================================================
