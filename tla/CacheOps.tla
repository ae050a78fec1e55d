------------------------------ MODULE CacheOps ------------------------------
(***************************************************************************)
(* The operations of responsecache.Memory (internal/responsecache/cache.go)*)
(* as operators on its state.  `mem` is [entries, bytes]: `entries` maps   *)
(* the keys present to [value, size, ttl], the ttl being the time left     *)
(* until expiresAt, and `bytes` is the running total the code keeps.  An   *)
(* entry whose time is up may still be there: it goes when it is next      *)
(* looked up, or with the next pruning.  `caps` is [maxEntries, maxBytes]. *)
(***************************************************************************)
EXTENDS DataOps

F == INSTANCE Functions

\* NewMemory.
EmptyMemory == [entries |-> <<>>, bytes |-> 0]

\* The total size of the entries of some keys, as Set has added them up.
SizeOf(entries, ks) == SumOver([k \in ks |-> entries[k].size], ks)

\* Mutant of DropAll: the running total is left alone.
DropAllKeepingBytes(mem, ks) ==
    [mem EXCEPT !.entries = F!Restrict(@, DOMAIN @ \ ks)]

\* deleteLocked for each of some keys: the running total stops at zero.
DropAll(mem, ks) ==
    [entries |-> F!Restrict(mem.entries, DOMAIN mem.entries \ ks),
     bytes |-> Sets!Max({0, mem.bytes - SizeOf(mem.entries, ks)})]

Expired(mem) == {k \in DOMAIN mem.entries : mem.entries[k].ttl = 0}

\* pruneExpiredLocked; it is all that Len and Bytes do to the state.
Prune(mem) == DropAll(mem, Expired(mem))

\* Mutant of IsHit: the time of expiry is not looked at.
IsHitAtAnyAge(mem, k) == k \in DOMAIN mem.entries

\* Get finds the key, and in time.
IsHit(mem, k) == k \in DOMAIN mem.entries /\ mem.entries[k].ttl > 0

\* What Get leaves behind: an entry it finds too late is deleted.
AfterGet(mem, k) == DropAll(mem, {k} \cap Expired(mem))

\* Mutant of Fits: room is taken for one entry too many.
FitsOneMore(caps, mem, size) ==
    /\ Cardinality(DOMAIN mem.entries) <= caps.maxEntries
    /\ mem.bytes + size <= caps.maxBytes

\* The condition that ends Set's eviction loop.
Fits(caps, mem, size) ==
    /\ Cardinality(DOMAIN mem.entries) < caps.maxEntries
    /\ mem.bytes + size <= caps.maxBytes

\* The sets of keys the eviction loop can take out.  It removes an entry that
\* expires earliest (any of them, for the order of a Go map is random) until
\* the new one fits: what goes expires no later than what stays, and without
\* the last one to go it would not have fitted.
Evictions(caps, mem, size) ==
    LET ttl(k) == mem.entries[k].ttl IN
    {V \in SUBSET DOMAIN mem.entries :
        /\ Fits(caps, DropAll(mem, V), size)
        /\ \A v \in V, k \in DOMAIN mem.entries \ V : ttl(v) <= ttl(k)
        /\ V # {} => \E last \in V :
            /\ \A v \in V : ttl(v) <= ttl(last)
            /\ ~Fits(caps, DropAll(mem, V \ {last}), size)}

\* The early returns of Set.
Refuses(caps, size, ttl) ==
    ttl <= 0 \/ caps.maxEntries <= 0 \/ caps.maxBytes <= 0 \/ size > caps.maxBytes

\* Mutant of BeforeStore: the entry the new one replaces is not deleted first.
BeforeStorePrunedOnly(mem, k) == Prune(mem)

\* What is left when Set starts to look for room for k.
BeforeStore(mem, k) == DropAll(Prune(mem), {k} \cap DOMAIN Prune(mem).entries)

\* Mutant of Store: the entry does not remember its size.
StoreWithoutSize(mem, k, value, size, ttl) ==
    [entries |-> [j \in DOMAIN mem.entries \cup {k} |->
        IF j = k THEN [value |-> value, size |-> 0, ttl |-> ttl]
        ELSE mem.entries[j]],
     bytes |-> mem.bytes + size]

Store(mem, k, value, size, ttl) ==
    [entries |-> [j \in DOMAIN mem.entries \cup {k} |->
        IF j = k THEN [value |-> value, size |-> size, ttl |-> ttl]
        ELSE mem.entries[j]],
     bytes |-> mem.bytes + size]

\* The ways Set can end, as [mem, stored].  If even an empty cache has no room
\* the loop has deleted everything and Set returns false.
SetOutcomes(caps, mem, k, value, size, ttl) ==
    IF Refuses(caps, size, ttl)
    THEN {[mem |-> mem, stored |-> FALSE]}
    ELSE LET ready == BeforeStore(mem, k)
             all == Evictions(caps, ready, size)
         IN  IF all = {}
             THEN {[mem |-> DropAll(ready, DOMAIN ready.entries), stored |-> FALSE]}
             ELSE {[mem |-> Store(DropAll(ready, V), k, value, size, ttl),
                    stored |-> TRUE] : V \in all}

\* One unit of time passes for every entry.
ElapseCache(mem) ==
    [mem EXCEPT !.entries = [k \in DOMAIN mem.entries |->
        [mem.entries[k] EXCEPT !.ttl = IF @ = 0 THEN 0 ELSE @ - 1]]]
=============================================================================
