------------------------------ MODULE PoolOps ------------------------------
(***************************************************************************)
(* The operations of one credentials.Pool (internal/credentials/pool.go)   *)
(* as operators on its state.  A key is its index 0..size-1; its `until`   *)
(* time is kept as the time left until it, `wait`: "now is before until"   *)
(* is wait > 0, and Elapse lets one unit of time pass.  The cursor is the  *)
(* number of calls of Next modulo the size, the only thing the code uses   *)
(* of it (its 64-bit counter never comes near its own width).              *)
(***************************************************************************)
EXTENDS DataOps

\* The reply of Next when it returns an error instead of an index.
NoKey == -1

KeyState == [disabled : BOOLEAN, wait : Nat]

\* The set of pools with n keys.
PoolsOf(n) ==
    [size : {n}, cursor : Nat, keys : [0 .. n - 1 -> KeyState]]

\* New: every key starts enabled with the zero time as its `until`.
NewPool(n) ==
    [size |-> n, cursor |-> 0,
     keys |-> [i \in 0 .. n - 1 |-> [disabled |-> FALSE, wait |-> 0]]]

\* Mutant of Usable: a disabled key is not told from one that rests.
UsableWhenRested(k) == k.wait = 0

Usable(k) == ~k.disabled /\ k.wait = 0

\* The key Next looks at in the i-th round of its scan.
Scanned(p, i) == (p.cursor + i) % p.size

\* Mutant of Hits: the scan ends one round early.
HitsButLast(p) == {i \in 0 .. p.size - 2 : Usable(p.keys[Scanned(p, i)])}

\* The rounds of the scan that meet a usable key.
Hits(p) == {i \in 0 .. p.size - 1 : Usable(p.keys[Scanned(p, i)])}

\* What Next returns: the first usable key at or after the cursor.
NextKey(p) == IF Hits(p) = {} THEN NoKey ELSE Scanned(p, Sets!Min(Hits(p)))

\* Mutant of Advance: the cursor does not move.
AdvanceNever(p) == p

\* What Next leaves behind: the cursor moves on whether a key is found or not,
\* except on an empty pool, where Next returns before it.
Advance(p) == IF p.size = 0 THEN p ELSE [p EXCEPT !.cursor = (@ + 1) % p.size]

\* Mutants of CoolDown: cooldowns add up, or the later of the two times is not
\* kept.
CoolDownAdded(p, i, d) ==
    IF i \in DOMAIN p.keys THEN [p EXCEPT !.keys[i].wait = @ + d] ELSE p
CoolDownAssigned(p, i, d) ==
    IF i \in DOMAIN p.keys THEN [p EXCEPT !.keys[i].wait = d] ELSE p

\* Cooldown(i, now + d): an `until` only ever moves later.
CoolDown(p, i, d) ==
    IF i \in DOMAIN p.keys /\ d > p.keys[i].wait
    THEN [p EXCEPT !.keys[i].wait = d]
    ELSE p

DisableKey(p, i) ==
    IF i \in DOMAIN p.keys THEN [p EXCEPT !.keys[i].disabled = TRUE] ELSE p

\* Available: how many keys Next could return now.
Available(p) == Cardinality({i \in DOMAIN p.keys : Usable(p.keys[i])})

\* One unit of time passes for every key.
Elapse(p) ==
    [p EXCEPT !.keys = [i \in DOMAIN p.keys |->
        [p.keys[i] EXCEPT !.wait = IF @ = 0 THEN 0 ELSE @ - 1]]]
=============================================================================
