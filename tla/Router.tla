------------------------------- MODULE Router -------------------------------
(***************************************************************************)
(* The router and its circuit breakers (internal/router/router.go) as      *)
(* concurrent requests use it.  Candidates is asked once per request; the  *)
(* request then works through the answer, its plan, and reports what it    *)
(* saw of each model, while other requests and the clock go on.  Every     *)
(* method holds the router's mutex, so each call is one action.            *)
(*                                                                         *)
(* `recent` and `late` are history variables.  `recent` keeps of each model *)
(* its last `threshold` verdicts, the newest first, as they were reported, *)
(* with what could be seen of its circuit before and after each.  `late`   *)
(* counts the verdicts that landed on a circuit that was already open, no  *)
(* further than there are callers.                                         *)
(***************************************************************************)
EXTENDS CircuitOps, FiniteSets, Functions

CONSTANTS
    Callers,      \* the requests that can be under way at the same time
    Cfg,          \* the configuration: models, routes, threshold, cooldown
    Names,        \* the names requests ask for
    RetryAfters   \* the Retry-After of a failure, 0 when there is none

ASSUME CfgAssumption ==
    /\ Cfg.threshold \in Nat \ {0}
    /\ Cfg.cooldown \in Nat \ {0}
    /\ Cfg.routes \in [DOMAIN Cfg.routes -> Seq(DOMAIN Cfg.models) \ {<<>>}]
ASSUME CallersAssumption == IsFiniteSet(Callers)
ASSUME RetryAfterAssumption == RetryAfters \subseteq Nat

VARIABLES health, plan, recent, late

vars == <<health, plan, recent, late>>

Models == DOMAIN Cfg.models

\* What is kept of a verdict: what was reported (a failure, one that asked to be
\* retried later, or a success), whether the circuit opened with it, and whether
\* the circuit is open after it.
Verdict ==
    [what : {"failure", "asked", "success"}, trips : BOOLEAN, open : BOOLEAN]

\* What counts as reported of a model that was not tried yet.
Untried == [what |-> "success", trips |-> FALSE, open |-> FALSE]

\* Verdicts are compared over as many as it takes to open a circuit.
Places == 1 .. Cfg.threshold

Init ==
    /\ health = NewHealth(Cfg)
    /\ plan = [c \in Callers |-> <<>>]
    /\ recent = [a \in Models |-> [i \in Places |-> Untried]]
    /\ late = [a \in Models |-> 0]

\* A request asks for the candidates of a name.  An unknown name is refused.
Ask(c, n) ==
    /\ plan[c] = <<>>
    /\ Known(Cfg, n)
    /\ plan' = [plan EXCEPT ![c] = Candidates(Cfg, health, n)]
    /\ UNCHANGED <<health, recent, late>>

\* The count of late verdicts stops at the number of callers.
OneMore(n) == IF n < Cardinality(Callers) THEN n + 1 ELSE n

\* A verdict is reported of a model and becomes the newest that is kept.
Reported(a, what) ==
    LET verdict == [what |-> what, open |-> IsOpen(health'[a]),
                    trips |-> IsOpen(health'[a]) /\ ~IsOpen(health[a])]
    IN  [recent EXCEPT ![a] =
            [i \in Places |-> IF i = 1 THEN verdict ELSE recent[a][i - 1]]]

\* The model the request is at failed it; the request moves on to the next.
Fail(c, ra) ==
    /\ plan[c] # <<>>
    /\ LET a == Head(plan[c]) IN
        /\ health' = Failure(Cfg, health, a, ra)
        /\ recent' = Reported(a, IF ra > 0 THEN "asked" ELSE "failure")
        /\ late' = [late EXCEPT ![a] = IF IsOpen(health[a]) THEN OneMore(@) ELSE 0]
    /\ plan' = [plan EXCEPT ![c] = Tail(@)]

\* The model answered; the request is done with its plan.
Succeed(c) ==
    /\ plan[c] # <<>>
    /\ LET a == Head(plan[c]) IN
        /\ health' = Success(health, a)
        /\ recent' = Reported(a, "success")
        /\ late' = [late EXCEPT ![a] = 0]
    /\ plan' = [plan EXCEPT ![c] = <<>>]

\* The request moves on without a verdict: no key of the provider could be
\* used, every key was rejected, or the prompt does not fit the model.
Pass(c) ==
    /\ plan[c] # <<>>
    /\ plan' = [plan EXCEPT ![c] = Tail(@)]
    /\ UNCHANGED <<health, recent, late>>

\* The request ends early: its client left, or the answer is final.
Abandon(c) ==
    /\ plan[c] # <<>>
    /\ plan' = [plan EXCEPT ![c] = <<>>]
    /\ UNCHANGED <<health, recent, late>>

\* One unit of time passes; a circuit that closes starts a new account.
Tick ==
    /\ health' = ElapseHealth(health)
    /\ late' = [a \in Models |-> IF IsOpen(health'[a]) THEN late[a] ELSE 0]
    /\ UNCHANGED <<plan, recent>>

Next ==
    \/ \E c \in Callers :
        \/ \E n \in Names : Ask(c, n)
        \/ \E ra \in RetryAfters : Fail(c, ra)
        \/ Succeed(c) \/ Pass(c) \/ Abandon(c)
    \/ Tick

\* Time passes; nothing forces a request to be made, or to come to an end.
Fairness == WF_vars(Tick)

Spec == Init /\ [][Next]_vars /\ Fairness

-----------------------------------------------------------------------------
\* The state has its type; a circuit that counts failures is below the
\* threshold, for at the threshold it opens and starts over (router.go, Failure).
TypeOK ==
    /\ health \in [Models -> [failures : 0 .. Cfg.threshold - 1, wait : Nat]]
    /\ plan \in [Callers -> Seq(Models)]
    /\ recent \in [Models -> [Places -> Verdict]]
    /\ late \in [Models -> Nat]

Failed(verdict) == verdict.what \in {"failure", "asked"}
FailedInARow(a) == \A i \in Places : Failed(recent[a][i])

\* A circuit opens for a reason and in time, whatever the order in which the
\* requests report.  When one opens, its model has just asked to be left alone,
\* or has failed `threshold` times in a row, with no success in between and none
\* of the earlier failures already spent on an opening; and `threshold` failures
\* in a row have always left it open (router.go, Failure, Success).
TripsAreEarned ==
    \A a \in Models :
        LET last == recent[a][1] IN
        /\ last.trips =>
            \/ last.what = "asked"
            \/ FailedInARow(a) /\ \A i \in Places \ {1} : ~recent[a][i].trips
        /\ last.what = "asked" => last.open
        /\ FailedInARow(a) => \E i \in Places : recent[a][i].open

\* The requests that still have a model to try.
Holding(a) == {c \in Callers : a \in Range(plan[c])}

\* A circuit that is open is spared: Candidates gives it to no new request, so
\* only the requests that planned for it before it opened can still fail it
\* and extend its wait, and each of them once.  (Routes that name a model
\* twice, which config.Validate accepts, let one request do it twice.)
StragglersBounded ==
    \A a \in Models : IsOpen(health[a]) =>
        late[a] + Cardinality(Holding(a)) < Cardinality(Callers)

\* No circuit stays open for ever: the stragglers run out, and then time alone
\* closes it, without anyone having to probe it (router.go, Candidates).
ClosesAgain == \A a \in Models : []<>~IsOpen(health[a])

\* The comment at router.go:59: with every circuit of a route open, Candidates
\* is to "try the candidate whose circuit recovers first".
HalfOpen ==
    \A n \in Names :
        LET as == Aliases(Cfg, n)
        IN  (\A a \in Range(as) : IsOpen(health[a]))
                => Candidates(Cfg, health, n) = <<FirstToRecover(health, as)>>
=============================================================================
