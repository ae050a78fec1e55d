------------------------ MODULE CredentialPoolProofs ------------------------
(***************************************************************************)
(* Theorems about the credential pool, for every size and every set of     *)
(* cooldowns.                                                              *)
(***************************************************************************)
EXTENDS CredentialPool, OperatorTheorems, TLAPS

\* The cursor of a pool of N keys moves round by one.
LEMMA RoundByOne ==
    ASSUME NEW N \in Nat \ {0}, NEW c \in 0 .. N - 1
    PROVE  (c + 1) % N = IF c + 1 = N THEN 0 ELSE c + 1
<1>1. CASE c + 1 = N
    BY <1>1, SMT
<1>2. CASE c + 1 < N
    BY <1>2, SMT
<1> QED BY <1>1, <1>2, SMT

\* A number below the size is its own remainder.
LEMMA ReducedIsItself ==
    ASSUME NEW N \in Nat \ {0}, NEW c \in 0 .. N - 1
    PROVE  c % N = c
BY SMT

\* A whole round changes no remainder.
LEMMA RoundIsLost ==
    ASSUME NEW N \in Nat \ {0}, NEW c \in 0 .. N - 1
    PROVE  (c + N) % N = c
BY SMT

-----------------------------------------------------------------------------
\* The pool without the bound on the cooldowns, which are changed by less.
PoolOK == pool \in [size : {Size}, cursor : Keys, keys : [Keys -> KeyState]]

\* One unit of time brings every cooldown one nearer to its end.
LEMMA TickRests ==
    ASSUME TypeOK, Tick, NEW k \in Keys
    PROVE  /\ pool'.cursor = pool.cursor
           /\ pool'.keys[k].disabled = pool.keys[k].disabled
           /\ pool'.keys[k].wait = IF pool.keys[k].wait = 0
                                   THEN 0 ELSE pool.keys[k].wait - 1
           /\ passed' = passed
<1> USE DEF TypeOK, KeyState
<1> DEFINE rested(j) == [pool.keys[j] EXCEPT !.wait = IF @ = 0 THEN 0 ELSE @ - 1]
<1>1. pool' = [pool EXCEPT !.keys = [j \in Keys |-> rested(j)]] /\ passed' = passed
    BY DEF Tick, Elapse
<1>2. /\ rested(k).disabled = pool.keys[k].disabled
      /\ rested(k).wait = IF pool.keys[k].wait = 0
                          THEN 0 ELSE pool.keys[k].wait - 1
    OBVIOUS
<1> HIDE DEF rested
<1> QED BY <1>1, <1>2

\* No key rests for longer than a report asked.
LEMMA RestsAsAsked ==
    ASSUME TypeOK, [Next]_vars, PoolOK', NEW k \in Keys, pool'.keys[k].wait > 0
    PROVE  \E d \in Cooldowns : pool'.keys[k].wait <= d
<1> USE DEF TypeOK, PoolOK, KeyState, Keys
<1>1. ASSUME pool'.keys[k].wait <= pool.keys[k].wait
      PROVE  \E d \in Cooldowns : pool'.keys[k].wait <= d
    <2>1. pool.keys[k].wait \in Nat /\ pool'.keys[k].wait \in Nat
        OBVIOUS
    <2>2. PICK d \in Cooldowns : pool.keys[k].wait <= d
        BY <1>1, <2>1
    <2> QED BY <1>1, <2>1, <2>2, CooldownAssumption
<1>2. CASE TakeNext
    <2>1. pool'.keys = pool.keys
        BY <1>2 DEF TakeNext, Advance
    <2> QED BY <1>1, <2>1
<1>3. ASSUME NEW j \in Keys, Disable(j)
      PROVE  \E d \in Cooldowns : pool'.keys[k].wait <= d
    <2>1. pool'.keys = [pool.keys EXCEPT ![j] = [pool.keys[j] EXCEPT !.disabled = TRUE]]
        BY <1>3 DEF Disable, DisableKey
    <2>2. pool'.keys[k].wait = pool.keys[k].wait
        BY <2>1
    <2> QED BY <1>1, <2>2
<1>4. ASSUME NEW j \in Keys, NEW d \in Cooldowns, Cooldown(j, d)
      PROVE  \E e \in Cooldowns : pool'.keys[k].wait <= e
    <2>1. CASE d > pool.keys[j].wait
        <3>1. pool'.keys = [pool.keys EXCEPT ![j] = [pool.keys[j] EXCEPT !.wait = d]]
            BY <1>4, <2>1 DEF Cooldown, CoolDown
        <3>2. pool'.keys[k].wait \in {pool.keys[k].wait, d}
            BY <3>1
        <3> QED BY <1>1, <3>2, CooldownAssumption
    <2>2. CASE ~(d > pool.keys[j].wait)
        BY <1>1, <1>4, <2>2 DEF Cooldown, CoolDown
    <2> QED BY <2>1, <2>2
<1>5. CASE Tick
    <2>1. /\ pool.keys[k].wait \in Nat
          /\ pool'.keys[k].wait = IF pool.keys[k].wait = 0 THEN 0 ELSE pool.keys[k].wait - 1
        BY <1>5, TickRests
    <2> QED BY <1>1, <2>1
<1>6. CASE UNCHANGED vars
    BY <1>1, <1>6 DEF vars
<1> HIDE DEF TypeOK, PoolOK, KeyState, Keys
<1> QED BY <1>2, <1>3, <1>4, <1>5, <1>6 DEF Next

\* Every state of the pool has its type, and no key rests for longer than a
\* report asked (pool.go: New, Next, Cooldown, Disable).
THEOREM PoolTypeCorrect == Spec => []TypeOK
<1>1. Init => TypeOK
    BY SizeAssumption DEF Init, TypeOK, NewPool, Keys, KeyState
<1>2. TypeOK /\ [Next]_vars => TypeOK'
    <2> SUFFICES ASSUME TypeOK, [Next]_vars PROVE TypeOK'
        OBVIOUS
    <2> USE SizeAssumption DEF TypeOK, PoolOK, Keys, KeyState
    <2>1. ASSUME TakeNext PROVE PoolOK' /\ passed' \in [Keys -> Nat]
        <3>0. pool.cursor + 1 \in Nat
            OBVIOUS
        <3>1. (pool.cursor + 1) % Size \in 0 .. Size - 1
            BY <3>0, RemainderIsIndex, Zenon
        <3>2. pool' = [pool EXCEPT !.cursor = (@ + 1) % Size]
            BY <2>1 DEF TakeNext, Advance
        <3>3. passed' \in [Keys -> Nat]
            BY <2>1 DEF TakeNext
        <3> QED BY <3>1, <3>2, <3>3
    <2>2. ASSUME NEW k \in Keys, Disable(k) PROVE PoolOK' /\ passed' \in [Keys -> Nat]
        <3>1. passed' \in [Keys -> Nat]
            BY <2>2 DEF Disable, Forget
        <3> QED BY <2>2, <3>1, ZenonT(30) DEF Disable, DisableKey
    <2>3. ASSUME NEW k \in Keys, NEW d \in Cooldowns, Cooldown(k, d)
          PROVE  PoolOK' /\ passed' \in [Keys -> Nat]
        <3>1. passed' \in [Keys -> Nat]
            BY <2>3 DEF Cooldown, Forget
        <3>2. d \in Nat
            BY CooldownAssumption
        <3> QED BY <2>3, <3>1, <3>2, ZenonT(30) DEF Cooldown, CoolDown
    <2>4. ASSUME Tick PROVE PoolOK' /\ passed' \in [Keys -> Nat]
        <3> DEFINE rested(k) == [pool.keys[k] EXCEPT
                                    !.wait = IF @ = 0 THEN 0 ELSE @ - 1]
        <3>1. \A k \in Keys : rested(k) \in KeyState
            OBVIOUS
        <3>2. pool' = [pool EXCEPT !.keys = [k \in Keys |-> rested(k)]]
            BY <2>4 DEF Tick, Elapse
        <3>3. [k \in Keys |-> rested(k)] \in [Keys -> KeyState]
            BY <3>1
        <3>4. passed' = passed
            BY <2>4 DEF Tick
        <3> HIDE DEF rested
        <3> QED BY <3>2, <3>3, <3>4
    <2>5. ASSUME UNCHANGED vars PROVE PoolOK' /\ passed' \in [Keys -> Nat]
        BY <2>5 DEF vars
    <2> HIDE DEF TypeOK, PoolOK, Keys, KeyState
    <2>6. PoolOK' /\ passed' \in [Keys -> Nat]
        BY <2>1, <2>2, <2>3, <2>4, <2>5 DEF Next
    <2>7. \A k \in Keys : pool'.keys[k].wait > 0 =>
            \E d \in Cooldowns : pool'.keys[k].wait <= d
        BY <2>6, RestsAsAsked
    <2> QED BY <2>6, <2>7 DEF TypeOK, PoolOK, Keys
<1> QED BY <1>1, <1>2, PTL DEF Spec

-----------------------------------------------------------------------------
\* How many calls of Next stand between the cursor and key k.
Ahead(k) == IF pool.cursor <= k THEN k - pool.cursor
                                ELSE k - pool.cursor + Size

\* Each time a usable key is passed over the cursor comes nearer to it, so the
\* times it was passed over and the way still ahead never exceed one round.
WithinTheRound ==
    /\ TypeOK
    /\ \A k \in Keys :
        IF Usable(pool.keys[k]) THEN passed[k] + Ahead(k) <= Size - 1
                                ELSE passed[k] = 0

\* A usable key that the cursor points at is the one Next returns.
LEMMA CursorFirst ==
    ASSUME TypeOK, Usable(pool.keys[pool.cursor])
    PROVE  NextKey(pool) = pool.cursor
<1> USE SizeAssumption DEF TypeOK, Keys
<1>1. Scanned(pool, 0) = pool.cursor
    BY ReducedIsItself DEF Scanned
<1>2. 0 \in Hits(pool)
    BY <1>1 DEF Hits
<1>3. Hits(pool) \subseteq Nat
    BY DEF Hits
<1>4. Sets!Min(Hits(pool)) = 0
    BY <1>2, <1>3 DEF Sets!Min
<1> QED BY <1>1, <1>2, <1>4 DEF NextKey

\* A call of Next moves the cursor one key on.
LEMMA AdvanceSteps ==
    ASSUME TypeOK
    PROVE  Advance(pool) = [pool EXCEPT !.cursor =
               IF pool.cursor + 1 = Size THEN 0 ELSE pool.cursor + 1]
<1>1. pool.size = Size /\ Size # 0 /\ pool.cursor \in 0 .. Size - 1
    BY SizeAssumption DEF TypeOK, Keys
<1>2. (pool.cursor + 1) % Size
          = IF pool.cursor + 1 = Size THEN 0 ELSE pool.cursor + 1
    BY <1>1, SizeAssumption, RoundByOne, Zenon
<1> QED BY <1>1, <1>2 DEF Advance

\* Rotation holds for every number of keys.
THEOREM Rotation == Spec => []RoundRobin
<1>1. Init => WithinTheRound
    BY SizeAssumption
    DEF Init, WithinTheRound, TypeOK, NewPool, Keys, KeyState, Usable, Ahead
<1>2. TypeOK /\ TypeOK' /\ WithinTheRound /\ [Next]_vars => WithinTheRound'
    <2> SUFFICES ASSUME TypeOK, TypeOK', WithinTheRound, [Next]_vars,
                        NEW k \in Keys
                 PROVE  IF Usable(pool'.keys[k])
                        THEN passed'[k] + Ahead(k)' <= Size - 1
                        ELSE passed'[k] = 0
        BY DEF WithinTheRound
    <2>1. /\ Usable(pool.keys[k]) => passed[k] + Ahead(k) <= Size - 1
          /\ ~Usable(pool.keys[k]) => passed[k] = 0
        BY DEF WithinTheRound
    <2>2. Size \in Nat \ {0} /\ k \in 0 .. Size - 1 /\ pool.cursor \in 0 .. Size - 1
        BY SizeAssumption DEF TypeOK, Keys
    <2>3. Ahead(k) \in 0 .. Size - 1 /\ passed[k] \in Nat
        BY <2>2 DEF Ahead, TypeOK
    <2>4. CASE TakeNext
        <3>1. /\ pool'.keys = pool.keys
              /\ pool'.cursor = IF pool.cursor + 1 = Size
                                THEN 0 ELSE pool.cursor + 1
            BY <2>4, AdvanceSteps DEF TakeNext, TypeOK
        <3>2. passed'[k] = IF Usable(pool.keys[k]) /\ NextKey(pool) # k
                           THEN passed[k] + 1 ELSE 0
            BY <2>4 DEF TakeNext
        <3>3. Ahead(k)' \in 0 .. Size - 1
            BY <2>2, <3>1 DEF Ahead
        <3>4. k # pool.cursor => Ahead(k)' = Ahead(k) - 1
            BY <2>2, <3>1 DEF Ahead
        <3>5. Usable(pool.keys[k]) /\ NextKey(pool) # k => k # pool.cursor
            BY CursorFirst
        <3> QED BY <2>1, <2>2, <2>3, <3>1, <3>2, <3>3, <3>4, <3>5
    <2>5. ASSUME pool'.cursor = pool.cursor, passed' = Forget(pool'),
                 Usable(pool'.keys[k]) => Usable(pool.keys[k])
          PROVE  IF Usable(pool'.keys[k])
                 THEN passed'[k] + Ahead(k)' <= Size - 1
                 ELSE passed'[k] = 0
        <3>1. Ahead(k)' = Ahead(k)
            BY <2>5 DEF Ahead
        <3>2. passed'[k] = IF Usable(pool'.keys[k]) THEN passed[k] ELSE 0
            BY <2>5 DEF Forget
        <3> QED BY <2>1, <2>5, <3>1, <3>2
    <2>6. ASSUME NEW j \in Keys, Disable(j)
          PROVE  /\ pool'.cursor = pool.cursor
                 /\ passed' = Forget(pool')
                 /\ Usable(pool'.keys[k]) => Usable(pool.keys[k])
        BY <2>6 DEF Disable, DisableKey, TypeOK, Keys, KeyState, Usable
    <2>7. ASSUME NEW j \in Keys, NEW d \in Cooldowns, Cooldown(j, d)
          PROVE  /\ pool'.cursor = pool.cursor
                 /\ passed' = Forget(pool')
                 /\ Usable(pool'.keys[k]) => Usable(pool.keys[k])
        <3>1. d \in Nat \ {0}
            BY CooldownAssumption
        <3> QED BY <2>7, <3>1
                DEF Cooldown, CoolDown, TypeOK, Keys, KeyState, Usable
    <2>8. CASE Tick
        <3>1. /\ pool'.cursor = pool.cursor
              /\ passed' = passed
              /\ Usable(pool.keys[k]) => Usable(pool'.keys[k])
            BY <2>8, TickRests DEF Usable
        <3>2. Ahead(k)' = Ahead(k)
            BY <3>1 DEF Ahead
        <3> QED BY <2>1, <2>2, <2>3, <3>1, <3>2
    <2>9. CASE UNCHANGED vars
        BY <2>1, <2>9 DEF vars, Ahead
    <2> QED BY <2>4, <2>5, <2>6, <2>7, <2>8, <2>9 DEF Next
<1>3. WithinTheRound => RoundRobin
    <2> SUFFICES ASSUME WithinTheRound, NEW k \in Keys
                 PROVE  passed[k] < Size
        BY DEF RoundRobin
    <2>1. Ahead(k) \in Nat /\ passed[k] \in Nat
        BY SizeAssumption DEF WithinTheRound, TypeOK, Keys, Ahead
    <2> QED BY <2>1, SizeAssumption DEF WithinTheRound
<1>4. Spec => []TypeOK
    BY PoolTypeCorrect
<1> QED BY <1>1, <1>2, <1>3, <1>4, PTL DEF Spec

-----------------------------------------------------------------------------
LEMMA PoolIsOne == ASSUME TypeOK PROVE Size \in Nat /\ pool \in PoolsOf(Size) /\ Keys = 0 .. Size - 1
BY SizeAssumption DEF TypeOK, PoolsOf, Keys, KeyState

\* Whatever key the scan begins at, it comes to every key.
LEMMA EveryKeyIsScanned ==
    ASSUME TypeOK, NEW k \in Keys
    PROVE  \E i \in 0 .. Size - 1 : Scanned(pool, i) = k
<1>1. pool.size = Size /\ pool.cursor \in 0 .. Size - 1 /\ k \in 0 .. Size - 1
    BY DEF TypeOK, Keys
<1>2. Ahead(k) \in 0 .. Size - 1
    BY <1>1, SizeAssumption DEF Ahead
<1>3. k % Size = k /\ (k + Size) % Size = k
    BY <1>1, SizeAssumption, ReducedIsItself, RoundIsLost, Zenon
<1>4. pool.cursor + Ahead(k) \in {k, k + Size}
    BY <1>1, SizeAssumption DEF Ahead
<1>5. (pool.cursor + Ahead(k)) % Size = k
    BY <1>3, <1>4, Zenon
<1>6. Scanned(pool, Ahead(k)) = k
    BY <1>1, <1>5 DEF Scanned
<1> QED BY <1>2, <1>6

\* Next finds a key exactly when Available says there is one, in every state.
THEOREM AvailableKeysAreFound == Spec => []AvailableCanBeTaken
<1> DEFINE Usables == {k \in Keys : Usable(pool.keys[k])}
<1>1. TypeOK => AvailableCanBeTaken
    <2> SUFFICES ASSUME TypeOK PROVE AvailableCanBeTaken
        OBVIOUS
    <2>1. Available(pool) = Cardinality(Usables)
        BY DEF Available, TypeOK
    <2>2. IsFiniteSet(Usables)
        <3>1. Size - 1 \in Int /\ 0 \in Int
            BY SizeAssumption
        <3>2. IsFiniteSet(0 .. Size - 1)
            BY <3>1, FS_Interval, Zenon
        <3> QED BY <3>2, FS_Subset DEF Keys
    <2>3. Available(pool) = 0 <=> Usables = {}
        BY <2>1, <2>2, FS_EmptySet, Zenon
    <2>4. Usables = {} <=> Hits(pool) = {}
        <3>1. ASSUME NEW k \in Usables PROVE Hits(pool) # {}
            BY <3>1, EveryKeyIsScanned DEF Hits, TypeOK
        <3>2. ASSUME NEW i \in Hits(pool) PROVE Usables # {}
            <4>1. i \in 0 .. Size - 1 /\ Usable(pool.keys[Scanned(pool, i)])
                BY <3>2 DEF Hits, TypeOK
            <4>2. pool.cursor + i \in Nat
                BY <4>1, SizeAssumption DEF TypeOK, Keys
            <4>3. (pool.cursor + i) % Size \in 0 .. Size - 1
                BY <4>2, SizeAssumption, RemainderIsIndex, Zenon
            <4>4. Scanned(pool, i) \in Keys
                BY <4>3 DEF Scanned, TypeOK, Keys
            <4> QED BY <4>1, <4>4
        <3> QED BY <3>1, <3>2
    <2>5. NextKey(pool) = NoKey <=> Hits(pool) = {}
        <3>1. Hits(pool) # {} => NextKey(pool) # NoKey
            BY PoolIsOne, HandsOutUsable DEF Keys, NoKey
        <3>2. Hits(pool) = {} => NextKey(pool) = NoKey
            BY DEF NextKey
        <3> QED BY <3>1, <3>2
    <2> HIDE DEF Usables
    <2> QED BY <2>3, <2>4, <2>5 DEF AvailableCanBeTaken
<1>2. Spec => []TypeOK
    BY PoolTypeCorrect
<1> QED BY <1>1, <1>2, PTL

\* What a step of the pool may do to the time a key rests and to its being
\* disabled, whichever step it is.
LEMMA StepsOnAKey ==
    ASSUME TypeOK, [Next]_vars, NEW k \in Keys
    PROVE  /\ pool.keys[k].wait > 0 => pool'.keys[k].wait >= pool.keys[k].wait - 1
           /\ pool.keys[k].disabled => pool'.keys[k].disabled
<1> DEFINE Kept == pool'.keys[k] = pool.keys[k]
<1>1. pool.keys[k].wait \in Nat /\ pool.keys[k].disabled \in BOOLEAN
    BY DEF TypeOK, KeyState
<1>2. CASE TakeNext
    <2>1. Kept
        BY <1>2, AdvanceSteps DEF TakeNext, TypeOK
    <2> QED BY <1>1, <2>1
<1>3. ASSUME NEW j \in Keys, Disable(j)
      PROVE  /\ pool'.keys[k].wait = pool.keys[k].wait
             /\ pool.keys[k].disabled => pool'.keys[k].disabled
    BY <1>3 DEF Disable, DisableKey, TypeOK, KeyState
<1>4. ASSUME NEW j \in Keys, NEW d \in Cooldowns, Cooldown(j, d)
      PROVE  /\ pool'.keys[k].wait >= pool.keys[k].wait
             /\ pool'.keys[k].disabled = pool.keys[k].disabled
    <2>1. d \in Nat
        BY CooldownAssumption
    <2> QED BY <1>4, <2>1 DEF Cooldown, CoolDown, TypeOK, KeyState
<1>5. CASE Tick
    BY <1>1, <1>5, TickRests
<1>6. CASE UNCHANGED vars
    BY <1>1, <1>6 DEF vars
<1>7. ASSUME NEW j \in Keys, Disable(j)
      PROVE  pool.keys[k].wait > 0 => pool'.keys[k].wait >= pool.keys[k].wait - 1
    BY <1>1, <1>3, <1>7
<1>8. ASSUME NEW j \in Keys, NEW d \in Cooldowns, Cooldown(j, d)
      PROVE  pool.keys[k].wait > 0 => pool'.keys[k].wait >= pool.keys[k].wait - 1
    <2>1. pool'.keys[k].wait \in Nat
        <3>1. d \in Nat
            BY CooldownAssumption
        <3> QED BY <1>8, <3>1 DEF Cooldown, CoolDown, TypeOK, KeyState
    <2> QED BY <1>1, <1>4, <1>8, <2>1
<1> QED BY <1>2, <1>3, <1>4, <1>5, <1>6, <1>7, <1>8 DEF Next

\* No report, in whatever order it arrives, shortens a cooldown.
THEOREM CooldownsLast == Spec => CooldownNeverCut
<1>1. TypeOK /\ [Next]_vars =>
        [\A k \in Keys : pool.keys[k].wait > 0 =>
            pool'.keys[k].wait >= pool.keys[k].wait - 1]_vars
    BY StepsOnAKey
<1>2. Spec => []TypeOK
    BY PoolTypeCorrect
<1> QED BY <1>1, <1>2, PTL DEF Spec, CooldownNeverCut

\* A disabled key stays disabled and is never handed out.
THEOREM DisabledKeysStayOut == Spec => DisabledForever
<1>1. TypeOK /\ [Next]_vars =>
        [\A k \in Keys : pool.keys[k].disabled =>
            /\ pool'.keys[k].disabled
            /\ NextKey(pool) # k]_vars
    <2> SUFFICES ASSUME TypeOK, [Next]_vars, NEW k \in Keys,
                        pool.keys[k].disabled
                 PROVE  pool'.keys[k].disabled /\ NextKey(pool) # k
        OBVIOUS
    <2>1. NextKey(pool) # k
        <3>1. ~Usable(pool.keys[k])
            BY DEF Usable
        <3>2. k # NoKey
            BY DEF Keys, NoKey
        <3> QED BY <3>1, <3>2, PoolIsOne, HandsOutUsable DEF NextKey
    <2> QED BY <2>1, StepsOnAKey
<1>2. Spec => []TypeOK
    BY PoolTypeCorrect
<1> QED BY <1>1, <1>2, PTL DEF Spec, DisabledForever
=============================================================================
