----------------------------- MODULE CircuitOps -----------------------------
(***************************************************************************)
(* The operations of router.Router (internal/router/router.go) as          *)
(* operators on its state.  A health state keeps the consecutive failures  *)
(* and, for openUntil, the time left until it: "now is before openUntil"   *)
(* is wait > 0.  An alias without an entry has the zero health state.      *)
(*                                                                         *)
(* `cfg` is the part of config.Config the router reads: `models` from an   *)
(* alias to its model, `routes` from a name to the sequence of its         *)
(* aliases, and the breaker's `threshold` and `cooldown`.                  *)
(***************************************************************************)
EXTENDS DataOps

HealthState == [failures : Nat, wait : Nat]

Healthy == [failures |-> 0, wait |-> 0]

\* New: no failure is known of any model.
NewHealth(cfg) == [a \in DOMAIN cfg.models |-> Healthy]

IsOpen(h) == h.wait > 0

\* The names Candidates can resolve: a route, else a model asked for by its
\* own alias, else, for a request that names none, the route "default".
Known(cfg, name) ==
    \/ name \in DOMAIN cfg.routes \cup DOMAIN cfg.models
    \/ name = "" /\ "default" \in DOMAIN cfg.routes

Aliases(cfg, name) ==
    IF name \in DOMAIN cfg.routes THEN cfg.routes[name]
    ELSE IF name \in DOMAIN cfg.models THEN <<name>>
    ELSE cfg.routes["default"]

\* The first alias of a sequence among those whose circuit closes first: the
\* head of the code's stable sort.
FirstToRecover(health, as) ==
    as[Sets!Min({i \in DOMAIN as :
            \A j \in DOMAIN as : health[as[i]].wait <= health[as[j]].wait})]

\* Mutant of Candidates: open circuits are not filtered out.
CandidatesUnfiltered(cfg, health, name) == Aliases(cfg, name)

\* Candidates, for a name that is known: the aliases whose circuit is not
\* open, in the order of the route.  The half-open branch adds an alias only
\* if its circuit is not open, as the code's condition has it.
Candidates(cfg, health, name) ==
    LET as == Aliases(cfg, name)
        closed == Select(as, {i \in DOMAIN as : ~IsOpen(health[as[i]])})
    IN  IF closed = <<>> /\ as # <<>>
        THEN LET a == FirstToRecover(health, as)
             IN  IF IsOpen(health[a]) THEN <<>> ELSE <<a>>
        ELSE closed

\* Mutant of RecordFailure: the failures are kept when the circuit opens.
RecordFailureKeepingCount(cfg, h, ra) ==
    IF h.failures + 1 >= cfg.threshold \/ ra > 0
    THEN [failures |-> h.failures + 1,
          wait |-> IF ra > cfg.cooldown THEN ra ELSE cfg.cooldown]
    ELSE [h EXCEPT !.failures = @ + 1]

\* What a failure makes of a health state; `ra` is the Retry-After, 0 if none.
\* openUntil is assigned, so it may also move to an earlier time.
RecordFailure(cfg, h, ra) ==
    IF h.failures + 1 >= cfg.threshold \/ ra > 0
    THEN [failures |-> 0, wait |-> IF ra > cfg.cooldown THEN ra ELSE cfg.cooldown]
    ELSE [h EXCEPT !.failures = @ + 1]

Failure(cfg, health, a, ra) ==
    [health EXCEPT ![a] = RecordFailure(cfg, @, ra)]

\* Mutant of Success: the circuit is closed, the failures stay counted.
SuccessKeepingCount(health, a) == [health EXCEPT ![a].wait = 0]

\* Success: the entry is replaced by the zero health state, an open circuit
\* included.
Success(health, a) == [health EXCEPT ![a] = Healthy]

\* One unit of time passes for every circuit.
ElapseHealth(health) ==
    [a \in DOMAIN health |->
        [health[a] EXCEPT !.wait = IF @ = 0 THEN 0 ELSE @ - 1]]
=============================================================================
