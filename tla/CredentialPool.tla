--------------------------- MODULE CredentialPool ---------------------------
(***************************************************************************)
(* One credentials.Pool shared by concurrent requests.  Every method holds *)
(* the pool's mutex, so each call is one action; requests call Next, and   *)
(* cool down or disable a key they were handed earlier, in any order.      *)
(*                                                                         *)
(* `passed` is a history variable: for each key, how many calls of Next in *)
(* a row could have returned it and returned another.                      *)
(***************************************************************************)
EXTENDS PoolOps

CONSTANTS
    Size,       \* number of keys the provider is configured with
    Cooldowns   \* the lengths of time callers cool a key down for

ASSUME SizeAssumption == Size \in Nat \ {0}
ASSUME CooldownAssumption == Cooldowns \subseteq Nat \ {0}

VARIABLES pool, passed

vars == <<pool, passed>>

Keys == 0 .. Size - 1

Init ==
    /\ pool = NewPool(Size)
    /\ passed = [k \in Keys |-> 0]

\* A request asks for a credential.
TakeNext ==
    /\ pool' = Advance(pool)
    /\ passed' = [k \in Keys |->
                    IF Usable(pool.keys[k]) /\ NextKey(pool) # k
                    THEN passed[k] + 1
                    ELSE 0]

\* A key in its cooldown, or a disabled one, is not passed over.
Forget(p) ==
    [k \in Keys |-> IF Usable(p.keys[k]) THEN passed[k] ELSE 0]

\* A request reports a failure of the key it was handed.
Cooldown(k, d) ==
    /\ pool' = CoolDown(pool, k, d)
    /\ passed' = Forget(pool')

\* The provider answered 401 to a request that used key k.
Disable(k) ==
    /\ pool' = DisableKey(pool, k)
    /\ passed' = Forget(pool')

Tick ==
    /\ pool' = Elapse(pool)
    /\ UNCHANGED passed

Next ==
    \/ TakeNext
    \/ \E k \in Keys : Disable(k) \/ \E d \in Cooldowns : Cooldown(k, d)
    \/ Tick

Spec == Init /\ [][Next]_vars

-----------------------------------------------------------------------------
\* The state has its type; however many reports overlap, a key never rests for
\* longer than one of them asked (pool.go, Cooldown).
TypeOK ==
    /\ pool \in [size : {Size}, cursor : Keys, keys : [Keys -> KeyState]]
    /\ \A k \in Keys : pool.keys[k].wait > 0 =>
            \E d \in Cooldowns : pool.keys[k].wait <= d
    /\ passed \in [Keys -> Nat]

\* Next fails only when no key can be used, wherever the cursor stands: a provider
\* counts as available to /ready just when requests get a key of it (pool.go,
\* Next, Available; server.go, ready).
AvailableCanBeTaken == NextKey(pool) = NoKey <=> Available(pool) = 0

\* Rotation: whatever the other callers do, a key that stays usable is handed
\* out at least once in any Size consecutive calls of Next (pool.go, Next: the
\* shared cursor moves by one on every call, found or not).
RoundRobin == \A k \in Keys : passed[k] < Size

\* A cooldown is never cut short by a later, shorter one: `until` changes only
\* with time or to a later time, even when reports arrive out of order
\* (pool.go, Cooldown).
CooldownNeverCut ==
    [][\A k \in Keys : pool.keys[k].wait > 0 =>
            pool'.keys[k].wait >= pool.keys[k].wait - 1]_vars

\* A key that was disabled is never handed out again by this pool, no matter
\* how long it waits or what is reported of it later (pool.go, Disable, Next).
DisabledForever ==
    [][\A k \in Keys : pool.keys[k].disabled =>
            /\ pool'.keys[k].disabled
            /\ NextKey(pool) # k]_vars
=============================================================================
