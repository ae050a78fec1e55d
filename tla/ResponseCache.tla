--------------------------- MODULE ResponseCache ---------------------------
(***************************************************************************)
(* The response cache (internal/responsecache/cache.go) as requests and    *)
(* scrapes of /metrics use it at the same time.  Every method holds the    *)
(* mutex, so each call is one action.                                      *)
(***************************************************************************)
EXTENDS CacheOps

CONSTANTS
    Keys, Values,
    Size,       \* the body length of each value
    TTLs,       \* the lengths of time values are stored for
    Caps,       \* [maxEntries, maxBytes]
    Miss        \* the reply of a lookup without a hit

ASSUME CapsAssumption == Caps \in [maxEntries : Nat \ {0}, maxBytes : Nat \ {0}]
ASSUME SizeAssumption == Size \in [Values -> Nat]
ASSUME TTLAssumption == TTLs \subseteq Nat
ASSUME MissAssumption == Miss \notin Values

VARIABLES mem, reply

vars == <<mem, reply>>

Init ==
    /\ mem = EmptyMemory
    /\ reply = Miss

Get(k) ==
    /\ reply' = IF IsHit(mem, k) THEN mem.entries[k].value ELSE Miss
    /\ mem' = AfterGet(mem, k)

Set(k, v, ttl) ==
    /\ \E o \in SetOutcomes(Caps, mem, k, v, Size[v], ttl) : mem' = o.mem
    /\ UNCHANGED reply

\* Len and Bytes, for a scrape.
Scrape ==
    /\ mem' = Prune(mem)
    /\ UNCHANGED reply

Tick ==
    /\ mem' = ElapseCache(mem)
    /\ UNCHANGED reply

Next ==
    \/ \E k \in Keys : Get(k) \/ \E v \in Values, ttl \in TTLs : Set(k, v, ttl)
    \/ Scrape
    \/ Tick

Spec == Init /\ [][Next]_vars

-----------------------------------------------------------------------------
Present == DOMAIN mem.entries

\* The state has its type; an entry knows the size of its own value (cache.go,
\* entry, Set).
TypeOK ==
    /\ Present \subseteq Keys
    /\ mem.bytes \in Nat
    /\ \A k \in Present :
        /\ mem.entries[k] \in [value : Values, size : Nat, ttl : Nat]
        /\ mem.entries[k].size = Size[mem.entries[k].value]
    /\ reply \in Values \cup {Miss}

\* The running total is the total: replacing, expiring, evicting and clamping
\* at zero, in any order, never make it drift (cache.go, deleteLocked, Set).
BytesExact == mem.bytes = SizeOf(mem.entries, Present)

\* The limit on the number of entries holds at all times, not only after
\* pruning (cache.go, the loop of Set).
PlacesEnough == Cardinality(Present) <= Caps.maxEntries

\* And so do both limits together, of entries and of bytes (cache.go, the loop
\* of Set).
WithinBudgets == PlacesEnough /\ mem.bytes <= Caps.maxBytes

\* A body that is not by itself over the limits always finds room: the
\* eviction loop never empties the cache for nothing (cache.go, Set).
RoomCanBeMade ==
    \A k \in Keys, v \in Values, ttl \in TTLs :
        ~Refuses(Caps, Size[v], ttl) =>
            \A o \in SetOutcomes(Caps, mem, k, v, Size[v], ttl) : o.stored

\* What users see of it is a cache that forgets: a hit is the value stored
\* last, within its time (cache.go, Get, Set, pruneExpiredLocked).
Lossy == INSTANCE LossyCache WITH
    content <- [k \in Keys |->
        IF IsHit(mem, k)
        THEN [value |-> mem.entries[k].value, left |-> mem.entries[k].ttl]
        ELSE [value |-> Miss, left |-> 0]]
ForgetsAtMost == Lossy!Spec
=============================================================================
