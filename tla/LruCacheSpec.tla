---------------------------- MODULE LruCacheSpec ----------------------------
(***************************************************************************)
(* The LRU cache that the server uses, as a sequence of entries: what the  *)
(* calls of lru_cache.c do to it, and what they return.  In what           *)
(* lru_cache_put returns, this is not what lru_cache.h says (see PutResult *)
(* and PutReturnsAdded in MCLruCacheHeap).                                 *)
(***************************************************************************)
EXTENDS LruCache

CONSTANTS
    Key, Value,
    Capacity,   \* the capacities a cache may be created with
    Nothing     \* the NULL of a key or a value that is not there

VARIABLES
    entries,    \* the entries, least recently used first
    capacity,   \* cache_capacity
    outcome     \* what the last call returned

specVars == <<entries, capacity, outcome>>

\* What lru_cache_put returns, and the key in *evicted_key: the boolean is true
\* for a key that was in the cache, which lru_cache.h:38-39 says of false.
PutResult(returned, evicted) == [call |-> "put", returned |-> returned, evicted |-> evicted]
GetResult(value) == [call |-> "get", value |-> value]
Done == [call |-> "remove"]

SpecInit == entries = <<>> /\ capacity \in Capacity /\ outcome = Done

SpecPut(k, v) ==
    /\ entries' = LruPut(entries, capacity, k, v)
    /\ outcome' = PutResult(IsCached(entries, k),
                            IF LruEvicts(entries, capacity, k) THEN Head(entries).key ELSE Nothing)
    /\ UNCHANGED capacity

\* A put without a place for the evicted key, which callers make only for a
\* key that they just found.
SpecPutPresent(k, v) ==
    /\ IsCached(entries, k)
    /\ entries' = LruPutNoEvict(entries, k, v)
    /\ outcome' = PutResult(TRUE, Nothing)
    /\ UNCHANGED capacity

SpecGet(k) ==
    /\ entries' = LruGet(entries, k)
    /\ outcome' = GetResult(IF IsCached(entries, k) THEN CachedValue(entries, k) ELSE Nothing)
    /\ UNCHANGED capacity

SpecRemove(k) ==
    /\ entries' = LruRemove(entries, k)
    /\ outcome' = Done
    /\ UNCHANGED capacity

\* free_lru_cache, and init_lru_cache for the next server
SpecRenew ==
    /\ entries' = <<>>
    /\ capacity' \in Capacity
    /\ outcome' = Done

SpecNext ==
    \/ SpecRenew
    \/ \E k \in Key :
        \/ \E v \in Value : SpecPut(k, v) \/ SpecPutPresent(k, v)
        \/ SpecGet(k)
        \/ SpecRemove(k)

CacheSpec == SpecInit /\ [][SpecNext]_specVars
=============================================================================
