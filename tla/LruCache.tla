------------------------------ MODULE LruCache ------------------------------
(***************************************************************************)
(* The operations of the LRU cache of a server as operators on its value.  *)
(* A cache is the sequence of its entries, the least recently used first:  *)
(* the order of cache->list, whose nodes the hash table indexes by key.    *)
(***************************************************************************)
EXTENDS Naturals, Sequences, SequencesExt

Entry(Key, Val) == [key : Key, val : Val]

IsCached(c, k) == \E i \in DOMAIN c : c[i].key = k

KeyIndex(c, k) == CHOOSE i \in DOMAIN c : c[i].key = k

CachedValue(c, k) == c[KeyIndex(c, k)].val

\* No key is held twice.
KeysUnique(c) == \A m, n \in DOMAIN c : c[m].key = c[n].key => m = n

\* Fault: the node stays in the list.
LruRemoveNothing(c, k) == c

\* lru_cache_remove: the node found through the hash table is unlinked.
LruRemove(c, k) == IF IsCached(c, k) THEN RemoveAt(c, KeyIndex(c, k)) ELSE c

\* Fault: one entry too many fits.
LruIsFullLate(c, capacity) == Len(c) > capacity

\* lru_cache_is_full
LruIsFull(c, capacity) == Len(c) >= capacity

\* Fault: the key and the value are swapped.
LruPutSwapped(c, k, v) == Append(LruRemove(c, k), [key |-> v, val |-> k])

(***************************************************************************)
(* lru_cache_put.  A new key makes room by dropping the head, but only if  *)
(* the caller passes somewhere to return the evicted key to, which is what *)
(* LruPut is; LruPutNoEvict is the call that passes NULL.  A key already   *)
(* present is unlinked.  Either way the pair becomes the tail.             *)
(***************************************************************************)
LruPutNoEvict(c, k, v) == Append(LruRemove(c, k), [key |-> k, val |-> v])

LruEvicts(c, capacity, k) == LruIsFull(c, capacity) /\ ~ IsCached(c, k)

LruPut(c, capacity, k, v) ==
    LruPutNoEvict(IF LruEvicts(c, capacity, k) THEN Tail(c) ELSE c, k, v)

\* lru_cache_get: a hit puts the pair back, which makes it the most recent.
LruGet(c, k) == IF IsCached(c, k) THEN LruPutNoEvict(c, k, CachedValue(c, k)) ELSE c
=============================================================================
