------------------------- MODULE ResponseCacheProofs -------------------------
(***************************************************************************)
(* Theorems about the response cache, for all keys, bodies, times and      *)
(* limits: what its users see of it, which depends neither on the running  *)
(* total of bytes nor on which entries are evicted, then the limits and    *)
(* the account that keeps them, then the loop that makes room.             *)
(***************************************************************************)
EXTENDS ResponseCache, OperatorTheorems, TLAPS

\* The entries of a cache have their type.
EntriesIn(m) ==
    /\ DOMAIN m = {"entries", "bytes"}
    /\ DOMAIN m.entries \subseteq Keys
    /\ \A k \in DOMAIN m.entries : m.entries[k] \in [value : Values, size : Nat, ttl : Nat]

Absent == [value |-> Miss, left |-> 0]

Held(m, k) == IF IsHit(m, k) THEN [value |-> m.entries[k].value, left |-> m.entries[k].ttl]
              ELSE Absent

Content(m) == [k \in Keys |-> Held(m, k)]

LEMMA DroppedEntries ==
    ASSUME NEW m, NEW ks
    PROVE  /\ DOMAIN DropAll(m, ks) = {"entries", "bytes"}
           /\ DOMAIN DropAll(m, ks).entries = DOMAIN m.entries \ ks
           /\ \A j \in DOMAIN m.entries \ ks : DropAll(m, ks).entries[j] = m.entries[j]
BY DEF DropAll, F!Restrict

\* What is deleted is forgotten, and nothing else changes.
LEMMA Drops ==
    ASSUME NEW m, EntriesIn(m), NEW ks
    PROVE  /\ EntriesIn(DropAll(m, ks))
           /\ \A j \in Keys : Held(DropAll(m, ks), j) \in {Held(m, j), Absent}
<1> DEFINE d == DropAll(m, ks)
<1>1. /\ DOMAIN d = {"entries", "bytes"}
      /\ DOMAIN d.entries = DOMAIN m.entries \ ks
      /\ \A j \in DOMAIN m.entries \ ks : d.entries[j] = m.entries[j]
    BY DroppedEntries
<1> HIDE DEF d
<1>2. EntriesIn(d)
    BY <1>1 DEF EntriesIn
<1>3. ASSUME NEW j \in Keys PROVE Held(d, j) \in {Held(m, j), Absent}
    <2>1. CASE IsHit(d, j)
        <3>1. j \in DOMAIN m.entries \ ks /\ d.entries[j] = m.entries[j] /\ IsHit(m, j)
            BY <1>1, <2>1 DEF IsHit
        <3> QED BY <2>1, <3>1 DEF Held
    <2>2. CASE ~IsHit(d, j)
        BY <2>2 DEF Held
    <2> QED BY <2>1, <2>2
<1> QED BY <1>2, <1>3 DEF d

\* Nobody sees the pruning of what has expired.
LEMMA PrunedUnseen ==
    ASSUME NEW m, EntriesIn(m), NEW j \in Keys
    PROVE  Held(Prune(m), j) = Held(m, j)
<1> DEFINE d == Prune(m)
<1>1. /\ DOMAIN d.entries = DOMAIN m.entries \ Expired(m)
      /\ \A k \in DOMAIN m.entries \ Expired(m) : d.entries[k] = m.entries[k]
    BY DroppedEntries DEF Prune
<1> HIDE DEF d
<1>2. IsHit(d, j) <=> IsHit(m, j)
    BY <1>1 DEF IsHit, Expired, EntriesIn
<1>3. IsHit(d, j) => d.entries[j] = m.entries[j]
    BY <1>1 DEF IsHit
<1> QED BY <1>2, <1>3 DEF Held, d

LEMMA Stores ==
    ASSUME NEW m, EntriesIn(m), NEW k \in Keys, NEW v \in Values, NEW size \in Nat, NEW ttl \in Nat
    PROVE  /\ EntriesIn(Store(m, k, v, size, ttl))
           /\ \A j \in Keys \ {k} : Held(Store(m, k, v, size, ttl), j) = Held(m, j)
           /\ Held(Store(m, k, v, size, ttl), k) \in {Absent, [value |-> v, left |-> ttl]}
<1> DEFINE s == Store(m, k, v, size, ttl)
<1>1. /\ DOMAIN s = {"entries", "bytes"}
      /\ s.entries = [j \in DOMAIN m.entries \cup {k} |->
                        IF j = k THEN [value |-> v, size |-> size, ttl |-> ttl]
                        ELSE m.entries[j]]
    BY DEF Store
<1> HIDE DEF s
<1>2. EntriesIn(s)
    BY <1>1 DEF EntriesIn
<1>3. ASSUME NEW j \in Keys \ {k} PROVE Held(s, j) = Held(m, j)
    <2>1. IsHit(s, j) <=> IsHit(m, j)
        BY <1>1 DEF IsHit
    <2>2. j \in DOMAIN m.entries => s.entries[j] = m.entries[j]
        BY <1>1
    <2> QED BY <2>1, <2>2 DEF Held, IsHit
<1>4. s.entries[k] = [value |-> v, size |-> size, ttl |-> ttl]
    BY <1>1
<1>5. s.entries[k].value = v /\ s.entries[k].ttl = ttl
    BY <1>4
<1>6. Held(s, k) \in {Absent, [value |-> v, left |-> ttl]}
    BY <1>5 DEF Held
<1> QED BY <1>2, <1>3, <1>6 DEF s

\* However Set ends, the key has the new value, the old one or none, and every
\* other key has its own or none.
LEMMA SetEnds ==
    ASSUME NEW m, EntriesIn(m), NEW k \in Keys, NEW v \in Values, NEW ttl \in TTLs,
           NEW o \in SetOutcomes(Caps, m, k, v, Size[v], ttl)
    PROVE  /\ EntriesIn(o.mem)
           /\ \A j \in Keys \ {k} : Held(o.mem, j) \in {Held(m, j), Absent}
           /\ Held(o.mem, k) \in {Held(m, k), Absent, [value |-> v, left |-> ttl]}
<1> DEFINE ready == BeforeStore(m, k)
<1>0. Size[v] \in Nat /\ ttl \in Nat
    BY SizeAssumption, TTLAssumption
<1>1. CASE Refuses(Caps, Size[v], ttl)
    <2>1. o.mem = m
        BY <1>1 DEF SetOutcomes
    <2> QED BY <2>1
<1>2. CASE ~Refuses(Caps, Size[v], ttl)
    <2>1. /\ EntriesIn(Prune(m))
          /\ \A j \in Keys : Held(Prune(m), j) \in {Held(m, j), Absent}
        BY Drops DEF Prune
    <2>2. /\ EntriesIn(ready)
          /\ \A j \in Keys : Held(ready, j) \in {Held(Prune(m), j), Absent}
        BY <2>1, Drops DEF BeforeStore
    <2>3. \A V : /\ EntriesIn(DropAll(ready, V))
                 /\ \A j \in Keys : Held(DropAll(ready, V), j) \in {Held(ready, j), Absent}
        BY <2>2, Drops
    <2>4. \/ o.mem = DropAll(ready, DOMAIN ready.entries)
          \/ \E V : o.mem = Store(DropAll(ready, V), k, v, Size[v], ttl)
        BY <1>2 DEF SetOutcomes
    <2> HIDE DEF ready
    <2>5. \A V : \A j \in Keys : Held(DropAll(ready, V), j) \in {Held(m, j), Absent}
        BY <2>1, <2>2, <2>3
    <2>6. CASE o.mem = DropAll(ready, DOMAIN ready.entries)
        BY <2>3, <2>5, <2>6
    <2>7. ASSUME NEW V, o.mem = Store(DropAll(ready, V), k, v, Size[v], ttl)
          PROVE  /\ EntriesIn(o.mem)
                 /\ \A j \in Keys \ {k} : Held(o.mem, j) \in {Held(m, j), Absent}
                 /\ Held(o.mem, k) \in {Held(m, k), Absent, [value |-> v, left |-> ttl]}
        <3>1. EntriesIn(DropAll(ready, V))
            BY <2>3
        <3> DEFINE d == DropAll(ready, V)
        <3>2. \A j \in Keys : Held(d, j) \in {Held(m, j), Absent}
            BY <2>5
        <3> HIDE DEF d
        <3>3. /\ EntriesIn(Store(d, k, v, Size[v], ttl))
              /\ \A j \in Keys \ {k} : Held(Store(d, k, v, Size[v], ttl), j) = Held(d, j)
              /\ Held(Store(d, k, v, Size[v], ttl), k) \in {Absent, [value |-> v, left |-> ttl]}
            BY <1>0, <3>1, Stores DEF d
        <3>4. o.mem = Store(d, k, v, Size[v], ttl)
            BY <2>7 DEF d
        <3> QED BY <3>2, <3>3, <3>4
    <2> QED BY <2>4, <2>6, <2>7
<1> QED BY <1>1, <1>2

\* Time takes from every value what it takes from its entry.
LEMMA Ages ==
    ASSUME NEW m, EntriesIn(m)
    PROVE  /\ EntriesIn(ElapseCache(m))
           /\ DOMAIN ElapseCache(m).entries = DOMAIN m.entries
           /\ \A j \in Keys :
                Held(ElapseCache(m), j) =
                    IF Held(m, j).left <= 1 THEN Absent
                    ELSE [Held(m, j) EXCEPT !.left = @ - 1]
<1> DEFINE aged(e) == [e EXCEPT !.ttl = IF @ = 0 THEN 0 ELSE @ - 1]
           a == ElapseCache(m)
<1>1. \A f, x : "entries" \in DOMAIN f =>
        [f EXCEPT !.entries = x].entries = x /\ DOMAIN [f EXCEPT !.entries = x] = DOMAIN f
    OBVIOUS
<1>2. a = [m EXCEPT !.entries = [j \in DOMAIN m.entries |-> aged(m.entries[j])]]
    BY DEF ElapseCache
<1>3. DOMAIN m = {"entries", "bytes"}
    BY DEF EntriesIn
<1> HIDE DEF a, aged
<1>4. a.entries = [j \in DOMAIN m.entries |-> aged(m.entries[j])] /\ DOMAIN a = DOMAIN m
    BY <1>1, <1>2, <1>3
<1>5. ASSUME NEW e \in [value : Values, size : Nat, ttl : Nat]
      PROVE  /\ aged(e) \in [value : Values, size : Nat, ttl : Nat]
             /\ aged(e).value = e.value
             /\ aged(e).ttl = IF e.ttl = 0 THEN 0 ELSE e.ttl - 1
    BY DEF aged
<1>6. EntriesIn(a)
    <2>1. \A j \in DOMAIN a.entries : a.entries[j] \in [value : Values, size : Nat, ttl : Nat]
        BY <1>4, <1>5 DEF EntriesIn
    <2> QED BY <1>4, <2>1 DEF EntriesIn
<1>7. ASSUME NEW j \in Keys
      PROVE  Held(a, j) = IF Held(m, j).left <= 1 THEN Absent
                          ELSE [Held(m, j) EXCEPT !.left = @ - 1]
    <2>1. CASE j \notin DOMAIN m.entries
        BY <1>4, <2>1 DEF Held, IsHit, Absent
    <2>2. CASE j \in DOMAIN m.entries
        <3>1. m.entries[j] \in [value : Values, size : Nat, ttl : Nat]
            BY <2>2 DEF EntriesIn
        <3>2. /\ a.entries[j].value = m.entries[j].value
              /\ a.entries[j].ttl = IF m.entries[j].ttl = 0 THEN 0 ELSE m.entries[j].ttl - 1
            BY <1>4, <1>5, <2>2, <3>1
        <3>3. m.entries[j].ttl \in Nat
            BY <3>1
        <3>4. CASE m.entries[j].ttl <= 1
            <4>1. ~IsHit(a, j)
                BY <1>4, <2>2, <3>2, <3>3, <3>4 DEF IsHit
            <4>2. Held(m, j).left <= 1
                BY <3>3, <3>4 DEF Held, Absent
            <4> QED BY <4>1, <4>2 DEF Held
        <3>5. CASE ~(m.entries[j].ttl <= 1)
            <4>1. IsHit(m, j) /\ IsHit(a, j)
                BY <1>4, <2>2, <3>2, <3>3, <3>5 DEF IsHit
            <4>2. Held(m, j) = [value |-> m.entries[j].value, left |-> m.entries[j].ttl]
                BY <4>1 DEF Held
            <4>3. Held(a, j) = [value |-> m.entries[j].value, left |-> m.entries[j].ttl - 1]
                BY <3>2, <3>3, <3>5, <4>1 DEF Held
            <4> QED BY <3>5, <4>2, <4>3
        <3> QED BY <3>4, <3>5
    <2> QED BY <2>1, <2>2
<1> QED BY <1>4, <1>6, <1>7 DEF a

LEMMA EmptyAtFirst == ASSUME Init PROVE Lossy!Init /\ EntriesIn(mem)
<1>1. mem.entries = <<>> /\ DOMAIN mem = {"entries", "bytes"}
    BY DEF Init, EmptyMemory
<1>2. DOMAIN mem.entries = {}
    BY <1>1
<1> QED BY <1>1, <1>2 DEF Init, Lossy!Init, Lossy!Absent, EntriesIn, IsHit

LEMMA StepForgets ==
    ASSUME EntriesIn(mem), [Next]_vars
    PROVE  EntriesIn(mem)' /\ [Lossy!Next]_<<Content(mem), reply>>
<1>1. ASSUME NEW k \in Keys, Get(k)
      PROVE  EntriesIn(mem)' /\ Lossy!Lookup(k)
    <2>1. /\ EntriesIn(mem')
          /\ \A j \in Keys : Held(mem', j) \in {Held(mem, j), Absent}
        BY <1>1, Drops DEF Get, AfterGet
    <2>2. reply' \in {Miss, Held(mem, k).value}
        BY <1>1 DEF Get, Held
    <2>3. /\ Content(mem)' \in [Keys -> {Content(mem)[j] : j \in Keys} \cup {Absent}]
          /\ \A j \in Keys : Content(mem)'[j] \in {Content(mem)[j], Absent}
        BY <2>1 DEF Content
    <2>4. reply' \in {Miss, Content(mem)[k].value}
        BY <2>2 DEF Content
    <2> QED BY <2>1, <2>3, <2>4 DEF Lossy!Lookup, Lossy!MayForget, Lossy!Absent, Content, Held, Absent
<1>2. ASSUME NEW k \in Keys, NEW v \in Values, NEW ttl \in TTLs, Set(k, v, ttl)
      PROVE  EntriesIn(mem)' /\ Lossy!Put(k, v, ttl)
    <2>1. PICK o \in SetOutcomes(Caps, mem, k, v, Size[v], ttl) : mem' = o.mem
        BY <1>2 DEF Set
    <2>2. /\ EntriesIn(mem')
          /\ \A j \in Keys \ {k} : Held(mem', j) \in {Held(mem, j), Absent}
          /\ Held(mem', k) \in {Held(mem, k), Absent, [value |-> v, left |-> ttl]}
        BY <2>1, SetEnds
    <2>3. /\ Content(mem)' \in [Keys -> {Content(mem)[j] : j \in Keys}
                                          \cup {Absent, [value |-> v, left |-> ttl]}]
          /\ Content(mem)'[k] \in {Content(mem)[k], Absent, [value |-> v, left |-> ttl]}
          /\ \A j \in Keys \ {k} : Content(mem)'[j] \in {Content(mem)[j], Absent}
        BY <2>2 DEF Content
    <2>4. reply' = reply
        BY <1>2 DEF Set
    <2> QED BY <2>2, <2>3, <2>4 DEF Lossy!Put, Lossy!MayForget, Lossy!Absent, Content, Held, Absent
<1>3. ASSUME Scrape
      PROVE  EntriesIn(mem)' /\ UNCHANGED <<Content(mem), reply>>
    <2>1. /\ EntriesIn(mem')
          /\ \A j \in Keys : Held(mem', j) \in {Held(mem, j), Absent}
        BY <1>3, Drops DEF Scrape, Prune
    <2>2. UNCHANGED Content(mem)
        BY <1>3, PrunedUnseen DEF Scrape, Content
    <2> QED BY <1>3, <2>1, <2>2 DEF Scrape
<1>4. ASSUME Tick
      PROVE  EntriesIn(mem)' /\ Lossy!Tick
    <2>1. /\ EntriesIn(mem')
          /\ \A j \in Keys : Held(mem', j) = IF Held(mem, j).left <= 1 THEN Absent
                                             ELSE [Held(mem, j) EXCEPT !.left = @ - 1]
        BY <1>4, Ages DEF Tick
    <2>2. Content(mem)' = [j \in Keys |-> IF Content(mem)[j].left <= 1 THEN Absent
                                          ELSE [Content(mem)[j] EXCEPT !.left = @ - 1]]
        BY <2>1 DEF Content
    <2>3. reply' = reply
        BY <1>4 DEF Tick
    <2> QED BY <2>1, <2>2, <2>3 DEF Lossy!Tick, Lossy!Absent, Content, Held, Absent
<1>5. CASE UNCHANGED vars
    BY <1>5 DEF vars, Content
<1> QED BY <1>1, <1>2, <1>3, <1>4, <1>5 DEF Next, Lossy!Next

LEMMA EntriesTyped == Spec => []EntriesIn(mem)
BY EmptyAtFirst, StepForgets, PTL DEF Spec

\* Requests see a cache that forgets: a hit is the value stored last, within its
\* time, under any interleaving of lookups, stores, scrapes and time (Get, Set,
\* pruneExpiredLocked).
THEOREM CacheForgetsAtMost == Spec => ForgetsAtMost
BY EmptyAtFirst, StepForgets, PTL
DEF Spec, ForgetsAtMost, Lossy!Spec, Lossy!vars, Content, Held, Absent

\* There are no more entries than places.
Limited(m) ==
    /\ IsFiniteSet(DOMAIN m.entries)
    /\ Cardinality(DOMAIN m.entries) <= Caps.maxEntries

LEMMA DropsStayLimited ==
    ASSUME NEW m, Limited(m), NEW ks
    PROVE  Limited(DropAll(m, ks))
<1>1. DOMAIN DropAll(m, ks).entries = DOMAIN m.entries \ ks
    BY DroppedEntries
<1>2. /\ IsFiniteSet(DOMAIN m.entries \ ks)
      /\ Cardinality(DOMAIN m.entries \ ks) <= Cardinality(DOMAIN m.entries)
    BY FS_Subset DEF Limited
<1>3. /\ Cardinality(DOMAIN m.entries \ ks) \in Nat
      /\ Cardinality(DOMAIN m.entries) \in Nat
      /\ Caps.maxEntries \in Nat
    BY <1>2, FS_CardinalityType, CapsAssumption DEF Limited
<1> QED BY <1>1, <1>2, <1>3 DEF Limited

LEMMA SetStaysLimited ==
    ASSUME NEW m, Limited(m), NEW k, NEW v, NEW size, NEW ttl,
           NEW o \in SetOutcomes(Caps, m, k, v, size, ttl)
    PROVE  Limited(o.mem)
<1> DEFINE ready == BeforeStore(m, k)
<1>1. CASE Refuses(Caps, size, ttl)
    <2>1. o.mem = m
        BY <1>1 DEF SetOutcomes
    <2> QED BY <2>1
<1>2. CASE ~Refuses(Caps, size, ttl)
    <2>1. Limited(ready)
        BY DropsStayLimited DEF BeforeStore, Prune
    <2>2. \/ o.mem = DropAll(ready, DOMAIN ready.entries)
          \/ \E V \in Evictions(Caps, ready, size) :
                o.mem = Store(DropAll(ready, V), k, v, size, ttl)
        BY <1>2 DEF SetOutcomes
    <2> HIDE DEF ready
    <2>3. CASE o.mem = DropAll(ready, DOMAIN ready.entries)
        BY <2>1, <2>3, DropsStayLimited
    <2>4. ASSUME NEW V \in Evictions(Caps, ready, size),
                 o.mem = Store(DropAll(ready, V), k, v, size, ttl)
          PROVE  Limited(o.mem)
        <3> DEFINE ds == DOMAIN DropAll(ready, V).entries
        <3>1. Fits(Caps, DropAll(ready, V), size)
            BY DEF Evictions
        <3>2. IsFiniteSet(ds) /\ Cardinality(ds) < Caps.maxEntries
            BY <2>1, <3>1, DropsStayLimited DEF Fits, Limited
        <3>3. DOMAIN o.mem.entries = ds \cup {k}
            BY <2>4 DEF Store
        <3> HIDE DEF ds
        <3>4. /\ IsFiniteSet(ds \cup {k})
              /\ \/ Cardinality(ds \cup {k}) = Cardinality(ds)
                 \/ Cardinality(ds \cup {k}) = Cardinality(ds) + 1
            BY <3>2, FS_AddElement
        <3>5. Cardinality(ds) \in Nat /\ Caps.maxEntries \in Nat
            BY <3>2, FS_CardinalityType, CapsAssumption
        <3> QED BY <3>2, <3>3, <3>4, <3>5 DEF Limited
    <2> QED BY <2>2, <2>3, <2>4
<1> QED BY <1>1, <1>2

\* The cache never has more entries than it may, not for a moment, in whichever
\* order requests look up and store (Set evicts before it stores).
THEOREM PlacesAreEnough == Spec => []PlacesEnough
<1>1. Init => Limited(mem)
    <2> SUFFICES ASSUME Init PROVE Limited(mem)
        OBVIOUS
    <2>1. mem.entries = <<>>
        BY DEF Init, EmptyMemory
    <2>2. DOMAIN mem.entries = {}
        BY <2>1
    <2> QED BY <2>2, FS_EmptySet, CapsAssumption DEF Limited
<1>2. ASSUME EntriesIn(mem), Limited(mem), [Next]_vars PROVE Limited(mem)'
    <2>1. ASSUME NEW k \in Keys, Get(k) PROVE Limited(mem')
        BY <1>2, <2>1, DropsStayLimited DEF Get, AfterGet
    <2>2. ASSUME NEW k \in Keys, NEW v \in Values, NEW ttl \in TTLs, Set(k, v, ttl)
          PROVE  Limited(mem')
        BY <1>2, <2>2, SetStaysLimited DEF Set
    <2>3. CASE Scrape
        BY <1>2, <2>3, DropsStayLimited DEF Scrape, Prune
    <2>4. CASE Tick
        BY <1>2, <2>4, Ages DEF Tick, Limited
    <2>5. CASE UNCHANGED vars
        BY <1>2, <2>5 DEF vars, Limited
    <2> QED BY <1>2, <2>1, <2>2, <2>3, <2>4, <2>5 DEF Next, Limited
<1>3. Limited(mem) => PlacesEnough
    BY DEF Limited, PlacesEnough, Present
<1> QED BY <1>1, <1>2, <1>3, EntriesTyped, PTL DEF Spec

-----------------------------------------------------------------------------
(* The account of bytes.                                                   *)

\* A cache whose entries know the size of their values, and whose running
\* total is the total.
Sized(m) ==
    /\ IsFiniteSet(DOMAIN m.entries)
    /\ \A k \in DOMAIN m.entries : m.entries[k].size = Size[m.entries[k].value]
    /\ m.bytes = SizeOf(m.entries, DOMAIN m.entries)

LEMMA SizeTyped ==
    ASSUME NEW e, NEW ks, IsFiniteSet(ks), \A k \in ks : e[k].size \in Nat
    PROVE  SizeOf(e, ks) \in Nat
<1> DEFINE f == [k \in ks |-> e[k].size]
<1>1. \A k \in ks : f[k] \in Nat
    OBVIOUS
<1>2. SizeOf(e, ks) = SumOver(f, ks)
    BY DEF SizeOf
<1> HIDE DEF f
<1> QED BY <1>1, <1>2, SumIsNatural

\* Only the entries of the keys count.
LEMMA SizeAgrees ==
    ASSUME NEW d, NEW e, NEW ks, IsFiniteSet(ks), \A k \in ks : d[k] = e[k]
    PROVE  SizeOf(d, ks) = SizeOf(e, ks)
<1>1. [k \in ks |-> d[k].size] = [k \in ks |-> e[k].size]
    OBVIOUS
<1> QED BY <1>1, Zenon DEF SizeOf

LEMMA SizeParts ==
    ASSUME NEW e, NEW ks, IsFiniteSet(ks), \A k \in ks : e[k].size \in Nat,
           NEW vs \in SUBSET ks
    PROVE  SizeOf(e, ks) = SizeOf(e, vs) + SizeOf(e, ks \ vs)
<1> DEFINE f == [k \in ks |-> e[k].size]
           g(us) == [k \in us |-> e[k].size]
<1>1. \A k \in ks : f[k] \in Int
    OBVIOUS
<1>2. ASSUME NEW us \in SUBSET ks PROVE SizeOf(e, us) = SumOver(f, us)
    <2>1. SizeOf(e, us) = SumOver(g(us), us)
        BY DEF SizeOf
    <2>2. IsFiniteSet(us) /\ \A k \in us : g(us)[k] = f[k]
        BY FS_Subset
    <2> HIDE DEF f, g
    <2>3. SumOver(g(us), us) = SumOver(f, us)
        BY <2>2, SumAgrees
    <2> QED BY <2>1, <2>3
<1> HIDE DEF f, g
<1>3. SumOver(f, ks) = SumOver(f, vs) + SumOver(f, ks \ vs)
    BY <1>1, SumParts
<1>4. /\ SizeOf(e, ks) = SumOver(f, ks)
      /\ SizeOf(e, vs) = SumOver(f, vs)
      /\ SizeOf(e, ks \ vs) = SumOver(f, ks \ vs)
    BY <1>2
<1> QED BY <1>3, <1>4

LEMMA SizeAdds ==
    ASSUME NEW e, NEW ks, IsFiniteSet(ks), \A k \in ks : e[k].size \in Nat,
           NEW j, j \notin ks, e[j].size \in Nat
    PROVE  SizeOf(e, ks \cup {j}) = SizeOf(e, ks) + e[j].size
<1> DEFINE js == ks \cup {j}
           f == [k \in js |-> e[k].size]
           g == [k \in ks |-> e[k].size]
<1>1. (\A k \in ks : f[k] \in Int /\ g[k] = f[k]) /\ f[j] = e[j].size /\ f[j] \in Int
    OBVIOUS
<1>2. SizeOf(e, js) = SumOver(f, js) /\ SizeOf(e, ks) = SumOver(g, ks)
    BY DEF SizeOf
<1> HIDE DEF f, g
<1>3. SumOver(g, ks) = SumOver(f, ks)
    BY <1>1, SumAgrees
<1>4. SumOver(f, ks \cup {j}) = SumOver(f, ks) + f[j]
    BY <1>1, SumAdds
<1> QED BY <1>1, <1>2, <1>3, <1>4

LEMMA NoSize == ASSUME NEW e PROVE SizeOf(e, {}) = 0
BY SumOfNone DEF SizeOf

LEMMA NotBelowZero == ASSUME NEW n \in Nat PROVE Sets!Max({0, n}) = n
<1>1. n \in {0, n} /\ \A y \in {0, n} : n >= y
    OBVIOUS
<1>2. \A x \in {0, n} : (\A y \in {0, n} : x >= y) => x = n
    OBVIOUS
<1> QED BY <1>1, <1>2 DEF Sets!Max

\* What is deleted goes from the total, which never has to stop at zero.
LEMMA DropsSized ==
    ASSUME NEW m, EntriesIn(m), Sized(m), NEW ks \in SUBSET DOMAIN m.entries
    PROVE  /\ Sized(DropAll(m, ks))
           /\ m.bytes \in Nat /\ DropAll(m, ks).bytes \in Nat
           /\ DropAll(m, ks).bytes <= m.bytes
<1> DEFINE d == DropAll(m, ks)
           rest == DOMAIN m.entries \ ks
<1>1. /\ DOMAIN d.entries = rest
      /\ \A j \in rest : d.entries[j] = m.entries[j]
    BY DroppedEntries
<1>2. \A k \in DOMAIN m.entries : m.entries[k].size \in Nat
    BY DEF EntriesIn
<1>3. IsFiniteSet(DOMAIN m.entries) /\ IsFiniteSet(ks) /\ IsFiniteSet(rest)
    BY FS_Subset DEF Sized
<1>4. /\ m.bytes = SizeOf(m.entries, DOMAIN m.entries)
      /\ SizeOf(m.entries, DOMAIN m.entries) = SizeOf(m.entries, ks) + SizeOf(m.entries, rest)
    BY <1>2, <1>3, SizeParts DEF Sized
<1>5. /\ m.bytes \in Nat
      /\ SizeOf(m.entries, ks) \in Nat /\ SizeOf(m.entries, rest) \in Nat
    <2>1. \A k \in ks : m.entries[k].size \in Nat
        BY <1>2
    <2>2. \A k \in rest : m.entries[k].size \in Nat
        BY <1>2
    <2> HIDE DEF rest
    <2> QED BY <1>2, <1>3, <1>4, <2>1, <2>2, SizeTyped
<1>6. d.bytes = Sets!Max({0, m.bytes - SizeOf(m.entries, ks)})
    BY DEF DropAll
<1> HIDE DEF d, rest
<1>7. m.bytes - SizeOf(m.entries, ks) = SizeOf(m.entries, rest)
    BY <1>4, <1>5
<1>8. d.bytes = SizeOf(m.entries, rest)
    BY <1>5, <1>6, <1>7, NotBelowZero
<1>9. SizeOf(d.entries, rest) = SizeOf(m.entries, rest)
    BY <1>1, <1>3, SizeAgrees
<1>10. \A k \in rest : m.entries[k].size = Size[m.entries[k].value]
    BY DEF Sized, rest
<1>11. Sized(d)
    BY <1>1, <1>3, <1>8, <1>9, <1>10 DEF Sized
<1>12. d.bytes \in Nat /\ d.bytes <= m.bytes
    BY <1>4, <1>5, <1>8
<1> QED BY <1>5, <1>11, <1>12 DEF d

LEMMA StoresSized ==
    ASSUME NEW m, EntriesIn(m), Sized(m), NEW k \in Keys \ DOMAIN m.entries,
           NEW v \in Values, NEW ttl
    PROVE  /\ Sized(Store(m, k, v, Size[v], ttl))
           /\ Store(m, k, v, Size[v], ttl).bytes = m.bytes + Size[v]
<1> DEFINE s == Store(m, k, v, Size[v], ttl)
           ds == DOMAIN m.entries
           new == [value |-> v, size |-> Size[v], ttl |-> ttl]
<1>1. /\ s.entries = [j \in ds \cup {k} |-> IF j = k THEN new ELSE m.entries[j]]
      /\ s.bytes = m.bytes + Size[v]
    BY DEF Store
<1>2. IsFiniteSet(ds) /\ IsFiniteSet(ds \cup {k}) /\ k \notin ds
    BY FS_AddElement DEF Sized
<1>3. Size[v] \in Nat /\ \A j \in ds : m.entries[j].size \in Nat
    BY SizeAssumption DEF EntriesIn
<1> HIDE DEF s, ds
<1>4. /\ DOMAIN s.entries = ds \cup {k} /\ s.entries[k] = new
      /\ \A j \in ds : s.entries[j] = m.entries[j]
    BY <1>1, <1>2
<1>5. s.entries[k].size = Size[v] /\ s.entries[k].value = v
    BY <1>4
<1>6. \A j \in ds : s.entries[j].size \in Nat
    BY <1>3, <1>4
<1>7. SizeOf(s.entries, ds \cup {k}) = SizeOf(s.entries, ds) + s.entries[k].size
    BY <1>2, <1>3, <1>5, <1>6, SizeAdds
<1>8. SizeOf(s.entries, ds) = SizeOf(m.entries, ds)
    BY <1>2, <1>4, SizeAgrees
<1>9. m.bytes = SizeOf(m.entries, ds) /\ \A j \in ds : m.entries[j].size = Size[m.entries[j].value]
    BY DEF Sized, ds
<1>10. s.bytes = SizeOf(s.entries, ds \cup {k})
    BY <1>1, <1>5, <1>7, <1>8, <1>9
<1>11. \A j \in ds \cup {k} : s.entries[j].size = Size[s.entries[j].value]
    BY <1>4, <1>5, <1>9
<1>12. Sized(s)
    BY <1>2, <1>4, <1>10, <1>11 DEF Sized
<1> QED BY <1>1, <1>12 DEF s

\* The cache as Set looks for room in it.
LEMMA ReadyToStore ==
    ASSUME NEW m, EntriesIn(m), Sized(m), NEW k
    PROVE  /\ EntriesIn(BeforeStore(m, k)) /\ Sized(BeforeStore(m, k))
           /\ k \notin DOMAIN BeforeStore(m, k).entries
           /\ m.bytes \in Nat /\ BeforeStore(m, k).bytes \in Nat
           /\ BeforeStore(m, k).bytes <= m.bytes
<1> DEFINE p == Prune(m)
           ready == BeforeStore(m, k)
<1>1. Expired(m) \in SUBSET DOMAIN m.entries
    BY DEF Expired
<1>2. p = DropAll(m, Expired(m)) /\ ready = DropAll(p, {k} \cap DOMAIN p.entries)
    BY DEF Prune, BeforeStore
<1> HIDE DEF p, ready
<1>3. /\ EntriesIn(p) /\ Sized(p) /\ m.bytes \in Nat /\ p.bytes \in Nat /\ p.bytes <= m.bytes
    BY <1>1, <1>2, Drops, DropsSized
<1>4. {k} \cap DOMAIN p.entries \in SUBSET DOMAIN p.entries
    OBVIOUS
<1>5. EntriesIn(ready) /\ Sized(ready) /\ ready.bytes \in Nat /\ ready.bytes <= p.bytes
    BY <1>2, <1>3, <1>4, Drops, DropsSized
<1>6. DOMAIN ready.entries = DOMAIN p.entries \ ({k} \cap DOMAIN p.entries)
    BY <1>2, DroppedEntries
<1>7. ready.bytes <= m.bytes
    BY <1>3, <1>5
<1> QED BY <1>3, <1>5, <1>6, <1>7 DEF ready

LEMMA SetSized ==
    ASSUME NEW m, EntriesIn(m), Sized(m), m.bytes <= Caps.maxBytes,
           NEW k \in Keys, NEW v \in Values, NEW ttl \in TTLs,
           NEW o \in SetOutcomes(Caps, m, k, v, Size[v], ttl)
    PROVE  Sized(o.mem) /\ o.mem.bytes <= Caps.maxBytes
<1> DEFINE ready == BeforeStore(m, k)
<1>1. CASE Refuses(Caps, Size[v], ttl)
    <2>1. o.mem = m
        BY <1>1 DEF SetOutcomes
    <2> QED BY <2>1
<1>2. CASE ~Refuses(Caps, Size[v], ttl)
    <2>1. \/ o.mem = DropAll(ready, DOMAIN ready.entries)
          \/ \E V \in Evictions(Caps, ready, Size[v]) :
                o.mem = Store(DropAll(ready, V), k, v, Size[v], ttl)
        BY <1>2 DEF SetOutcomes
    <2>2. /\ EntriesIn(ready) /\ Sized(ready) /\ k \notin DOMAIN ready.entries
          /\ m.bytes \in Nat /\ ready.bytes \in Nat /\ ready.bytes <= m.bytes
        BY ReadyToStore
    <2>3. Caps.maxBytes \in Nat
        BY CapsAssumption
    <2> HIDE DEF ready
    <2>4. CASE o.mem = DropAll(ready, DOMAIN ready.entries)
        <3>1. Sized(o.mem) /\ o.mem.bytes \in Nat /\ o.mem.bytes <= ready.bytes
            BY <2>2, <2>4, DropsSized
        <3> QED BY <2>2, <2>3, <3>1
    <2>5. ASSUME NEW V \in Evictions(Caps, ready, Size[v]),
                 o.mem = Store(DropAll(ready, V), k, v, Size[v], ttl)
          PROVE  Sized(o.mem) /\ o.mem.bytes <= Caps.maxBytes
        <3> DEFINE d == DropAll(ready, V)
        <3>1. V \in SUBSET DOMAIN ready.entries /\ Fits(Caps, d, Size[v])
            BY DEF Evictions
        <3>2. EntriesIn(d) /\ Sized(d) /\ k \notin DOMAIN d.entries
            BY <2>2, <3>1, Drops, DropsSized, DroppedEntries
        <3>3. o.mem = Store(d, k, v, Size[v], ttl)
            BY <2>5
        <3> HIDE DEF d
        <3>4. Sized(o.mem) /\ o.mem.bytes = d.bytes + Size[v]
            BY <3>2, <3>3, StoresSized
        <3> QED BY <3>1, <3>4 DEF Fits
    <2> QED BY <2>1, <2>4, <2>5
<1> QED BY <1>1, <1>2

\* Time passes no bytes.
LEMMA AgesSized ==
    ASSUME NEW m, EntriesIn(m), Sized(m)
    PROVE  Sized(ElapseCache(m)) /\ ElapseCache(m).bytes = m.bytes
<1> DEFINE aged(e) == [e EXCEPT !.ttl = IF @ = 0 THEN 0 ELSE @ - 1]
           a == ElapseCache(m)
           ds == DOMAIN m.entries
<1>1. \A f, x : DOMAIN f = {"entries", "bytes"} =>
        [f EXCEPT !.entries = x].entries = x /\ [f EXCEPT !.entries = x].bytes = f.bytes
    OBVIOUS
<1>2. a = [m EXCEPT !.entries = [j \in ds |-> aged(m.entries[j])]]
    BY DEF ElapseCache
<1>3. DOMAIN m = {"entries", "bytes"}
    BY DEF EntriesIn
<1> HIDE DEF a, aged, ds
<1>4. a.entries = [j \in ds |-> aged(m.entries[j])] /\ a.bytes = m.bytes
    BY <1>1, <1>2, <1>3
<1>5. ASSUME NEW e \in [value : Values, size : Nat, ttl : Nat]
      PROVE  aged(e).value = e.value /\ aged(e).size = e.size
    BY DEF aged
<1>6. DOMAIN a.entries = ds /\ \A j \in ds : a.entries[j].value = m.entries[j].value
                                         /\ a.entries[j].size = m.entries[j].size
    BY <1>4, <1>5 DEF EntriesIn, ds
<1>7. [j \in ds |-> a.entries[j].size] = [j \in ds |-> m.entries[j].size]
    BY <1>6
<1>8. SizeOf(a.entries, ds) = SizeOf(m.entries, ds)
    BY <1>7, Zenon DEF SizeOf
<1>9. /\ IsFiniteSet(ds) /\ m.bytes = SizeOf(m.entries, ds)
      /\ \A j \in ds : m.entries[j].size = Size[m.entries[j].value]
    BY DEF Sized, ds
<1>10. Sized(a)
    BY <1>4, <1>6, <1>8, <1>9 DEF Sized
<1> QED BY <1>4, <1>10 DEF a

\* The cache keeps an exact account, within both limits.
KeepsAccount == EntriesIn(mem) /\ Limited(mem) /\ Sized(mem) /\ mem.bytes <= Caps.maxBytes

LEMMA AccountAtFirst == Init => KeepsAccount
<1> SUFFICES ASSUME Init PROVE KeepsAccount
    OBVIOUS
<1>1. mem.entries = <<>> /\ mem.bytes = 0
    BY DEF Init, EmptyMemory
<1>2. DOMAIN mem.entries = {}
    BY <1>1
<1>3. Sized(mem)
    BY <1>1, <1>2, NoSize, FS_EmptySet DEF Sized
<1>4. EntriesIn(mem) /\ Limited(mem)
    BY <1>2, EmptyAtFirst, FS_EmptySet, CapsAssumption DEF Limited
<1> QED BY <1>1, <1>3, <1>4, CapsAssumption DEF KeepsAccount

LEMMA AccountStep ==
    ASSUME KeepsAccount, [Next]_vars
    PROVE  KeepsAccount'
<1>1. EntriesIn(mem) /\ Limited(mem) /\ Sized(mem) /\ mem.bytes <= Caps.maxBytes
    BY DEF KeepsAccount
<1>2. Caps.maxBytes \in Nat
    BY CapsAssumption
<1>3. ASSUME NEW ks \in SUBSET DOMAIN mem.entries, mem' = DropAll(mem, ks)
      PROVE  Limited(mem') /\ Sized(mem') /\ mem'.bytes <= Caps.maxBytes
    <2>1. /\ Sized(mem') /\ mem.bytes \in Nat /\ mem'.bytes \in Nat
          /\ mem'.bytes <= mem.bytes
        BY <1>1, <1>3, DropsSized
    <2>2. Limited(mem')
        BY <1>1, <1>3, DropsStayLimited
    <2> QED BY <1>1, <1>2, <2>1, <2>2
<1>4. ASSUME NEW k \in Keys, Get(k)
      PROVE  Limited(mem') /\ Sized(mem') /\ mem'.bytes <= Caps.maxBytes
    <2>1. {k} \cap Expired(mem) \in SUBSET DOMAIN mem.entries
        BY DEF Expired
    <2> QED BY <1>3, <1>4, <2>1 DEF Get, AfterGet
<1>5. ASSUME NEW k \in Keys, NEW v \in Values, NEW ttl \in TTLs, Set(k, v, ttl)
      PROVE  Limited(mem') /\ Sized(mem') /\ mem'.bytes <= Caps.maxBytes
    <2>1. PICK o \in SetOutcomes(Caps, mem, k, v, Size[v], ttl) : mem' = o.mem
        BY <1>5 DEF Set
    <2> QED BY <1>1, <2>1, SetSized, SetStaysLimited
<1>6. EntriesIn(mem')
    BY <1>1, StepForgets
<1>7. CASE Scrape
    <2>1. Expired(mem) \in SUBSET DOMAIN mem.entries
        BY DEF Expired
    <2>2. mem' = DropAll(mem, Expired(mem))
        BY <1>7 DEF Scrape, Prune
    <2>3. Limited(mem') /\ Sized(mem') /\ mem'.bytes <= Caps.maxBytes
        BY <1>3, <2>1, <2>2
    <2> QED BY <1>6, <2>3 DEF KeepsAccount
<1>8. CASE Tick
    <2>1. Sized(mem') /\ mem'.bytes = mem.bytes /\ DOMAIN mem'.entries = DOMAIN mem.entries
        BY <1>1, <1>8, AgesSized, Ages DEF Tick
    <2>2. Limited(mem')
        BY <1>1, <2>1 DEF Limited
    <2> QED BY <1>1, <1>6, <2>1, <2>2 DEF KeepsAccount
<1>9. CASE UNCHANGED vars
    <2>1. mem' = mem
        BY <1>9 DEF vars
    <2> QED BY <1>1, <2>1 DEF KeepsAccount
<1>10. CASE Limited(mem') /\ Sized(mem') /\ mem'.bytes <= Caps.maxBytes
    BY <1>6, <1>10 DEF KeepsAccount
<1> QED BY <1>4, <1>5, <1>7, <1>8, <1>9, <1>10 DEF Next

LEMMA AccountKept == Spec => []KeepsAccount
BY AccountAtFirst, AccountStep, PTL DEF Spec

LEMMA RepliesTyped == Spec => [](reply \in Values \cup {Miss})
<1>1. Init => reply \in Values \cup {Miss}
    BY DEF Init
<1>2. ASSUME EntriesIn(mem), reply \in Values \cup {Miss}, [Next]_vars
      PROVE  (reply \in Values \cup {Miss})'
    <2>1. ASSUME NEW k \in Keys, Get(k) PROVE reply' \in Values \cup {Miss}
        <3>1. IsHit(mem, k) => mem.entries[k].value \in Values
            BY <1>2 DEF IsHit, EntriesIn
        <3> QED BY <2>1, <3>1 DEF Get
    <2> QED BY <1>2, <2>1 DEF Next, Set, Scrape, Tick, vars
<1> QED BY <1>1, <1>2, EntriesTyped, PTL DEF Spec

\* The state has its type, and every entry knows the size of its own value (Set).
THEOREM CacheTypeCorrect == Spec => []TypeOK
<1>1. KeepsAccount /\ reply \in Values \cup {Miss} => TypeOK
    <2> SUFFICES ASSUME KeepsAccount, reply \in Values \cup {Miss} PROVE TypeOK
        OBVIOUS
    <2>1. EntriesIn(mem) /\ Sized(mem)
        BY DEF KeepsAccount
    <2>2. {} \in SUBSET DOMAIN mem.entries
        OBVIOUS
    <2>3. mem.bytes \in Nat
        BY <2>1, <2>2, DropsSized
    <2> QED BY <2>1, <2>3 DEF TypeOK, Present, EntriesIn, Sized
<1> QED BY <1>1, AccountKept, RepliesTyped, PTL

\* The running total of bytes is the total of the entries: replacing, expiring,
\* evicting and clamping at zero, in any order, never make it drift
\* (deleteLocked, Set).
THEOREM BytesAreExact == Spec => []BytesExact
<1>1. KeepsAccount => BytesExact
    BY DEF KeepsAccount, Sized, BytesExact, Present
<1> QED BY <1>1, AccountKept, PTL

\* Neither the number of entries nor the bytes are ever over the limit (Set).
THEOREM BudgetsAreKept == Spec => []WithinBudgets
<1>1. KeepsAccount => WithinBudgets
    BY DEF KeepsAccount, Limited, WithinBudgets, PlacesEnough, Present
<1> QED BY <1>1, AccountKept, PTL

-----------------------------------------------------------------------------
(* The eviction loop.                                                      *)

\* From a cache in which the limits hold, the loop ends with room for a body
\* that is not by itself over the limit: among the sets of keys that leave
\* enough room, and expire no later than the rest, one with the fewest keys is
\* what it evicts.
LEMMA LoopFindsRoom ==
    ASSUME NEW m, EntriesIn(m), Sized(m), NEW size \in Nat, size <= Caps.maxBytes
    PROVE  Evictions(Caps, m, size) # {}
<1> DEFINE D == DOMAIN m.entries
           ttl(k) == m.entries[k].ttl
           Earliest(V) == \A v \in V, k \in D \ V : ttl(v) <= ttl(k)
           C == {V \in SUBSET D : Fits(Caps, DropAll(m, V), size) /\ Earliest(V)}
           card == [V \in C |-> Cardinality(V)]
<1>1. IsFiniteSet(D) /\ \A k \in D : ttl(k) \in Nat
    BY DEF Sized, EntriesIn
<1>2. Caps.maxEntries \in Nat \ {0} /\ Caps.maxBytes \in Nat
    BY CapsAssumption
<1>3. D \in C
    <2>1. DOMAIN DropAll(m, D).entries = {}
        BY DroppedEntries
    <2>2. Sized(DropAll(m, D))
        BY DropsSized
    <2>3. DropAll(m, D).bytes = 0
        BY <2>1, <2>2, NoSize DEF Sized
    <2>4. Fits(Caps, DropAll(m, D), size)
        BY <1>2, <2>1, <2>3, FS_EmptySet DEF Fits
    <2>5. Earliest(D)
        OBVIOUS
    <2> QED BY <2>4, <2>5
<1>4. \A V \in SUBSET D : IsFiniteSet(V) /\ Cardinality(V) \in Nat
    BY <1>1, FS_Subset, FS_CardinalityType
<1>5. \A V \in C : card[V] \in Nat /\ card[V] = Cardinality(V)
    BY <1>4
<1>6. PICK V \in C : \A W \in C : card[V] <= card[W]
    <2> HIDE DEF C, card
    <2> QED BY <1>3, <1>5, LeastValue
<1>7. \A W \in C : Cardinality(V) <= Cardinality(W)
    <2> HIDE DEF C, card
    <2> QED BY <1>5, <1>6
<1>8. V \in SUBSET D /\ Fits(Caps, DropAll(m, V), size) /\ Earliest(V)
    BY <1>6
<1>9. ASSUME V # {}
      PROVE  \E last \in V : /\ \A v \in V : ttl(v) <= ttl(last)
                             /\ ~Fits(Caps, DropAll(m, V \ {last}), size)
    <2> DEFINE times == [v \in V |-> ttl(v)]
    <2>1. IsFiniteSet(V) /\ \A v \in V : times[v] \in Int /\ times[v] = ttl(v)
        BY <1>1, <1>4, <1>8
    <2>2. PICK last \in V : \A v \in V : times[v] <= times[last]
        <3> HIDE DEF times
        <3> QED BY <1>9, <2>1, GreatestValue
    <2>3. \A v \in V : ttl(v) <= ttl(last)
        <3> HIDE DEF times, ttl
        <3> QED BY <2>1, <2>2
    <2>4. Earliest(V \ {last})
        <3>1. ASSUME NEW v \in V \ {last}, NEW k \in D \ (V \ {last})
              PROVE  ttl(v) <= ttl(k)
            <4>1. CASE k = last
                BY <2>3, <4>1
            <4>2. CASE k # last
                <5>1. k \in D \ V
                    BY <4>2
                <5> QED BY <1>8, <5>1
            <4> QED BY <4>1, <4>2
        <3> QED BY <3>1
    <2>5. V \ {last} \in SUBSET D
        BY <1>8
    <2>6. Cardinality(V \ {last}) = Cardinality(V) - 1 /\ Cardinality(V) \in Nat
        BY <1>4, <1>8, FS_RemoveElement
    <2>7. V \ {last} \notin C
        <3> HIDE DEF C
        <3>1. V \ {last} \in C => Cardinality(V) <= Cardinality(V \ {last})
            BY <1>7
        <3> QED BY <2>6, <3>1
    <2>8. ~Fits(Caps, DropAll(m, V \ {last}), size)
        <3> HIDE DEF Earliest
        <3> QED BY <2>4, <2>5, <2>7
    <2> QED BY <2>3, <2>8
<1>10. V \in Evictions(Caps, m, size)
    BY <1>8, <1>9 DEF Evictions
<1> QED BY <1>10

\* Whatever the cache holds, a body that Set does not refuse is stored: the
\* eviction loop never empties the cache for nothing (Set).
THEOREM RoomIsAlwaysMade == Spec => []RoomCanBeMade
<1>1. KeepsAccount => RoomCanBeMade
    <2> SUFFICES ASSUME KeepsAccount, NEW k \in Keys, NEW v \in Values, NEW ttl \in TTLs,
                        ~Refuses(Caps, Size[v], ttl),
                        NEW o \in SetOutcomes(Caps, mem, k, v, Size[v], ttl)
                 PROVE  o.stored
        BY DEF RoomCanBeMade
    <2> DEFINE ready == BeforeStore(mem, k)
               all == Evictions(Caps, ready, Size[v])
    <2>1. EntriesIn(ready) /\ Sized(ready)
        BY ReadyToStore DEF KeepsAccount
    <2>2. Size[v] \in Nat /\ Caps.maxBytes \in Nat
        BY SizeAssumption, CapsAssumption
    <2>3. Size[v] <= Caps.maxBytes
        BY <2>2 DEF Refuses
    <2>4. all # {}
        <3> HIDE DEF ready
        <3> QED BY <2>1, <2>2, <2>3, LoopFindsRoom
    <2>5. o \in {[mem |-> Store(DropAll(ready, V), k, v, Size[v], ttl), stored |-> TRUE] : V \in all}
        BY <2>4 DEF SetOutcomes
    <2> HIDE DEF all, ready
    <2> QED BY <2>5
<1> QED BY <1>1, AccountKept, PTL
=============================================================================
