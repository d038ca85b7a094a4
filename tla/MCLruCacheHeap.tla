--------------------------- MODULE MCLruCacheHeap ---------------------------
EXTENDS LruCacheHeap

\* With three buckets two keys share the first, two the second, and the third is
\* empty; with two they are paired differently; with one all meet.
Hashes == [k \in 1..4 |-> <<0, 3, 1, 4>>[k]]

\* PutReturnsAdded: lru_cache_put returns "true if the key was added to the cache,
\* false if the key already existed", as lru_cache.h:38-39 says of it.
PutReturnsAdded ==
    [][\A k \in Key, v \in Value :
        Put(k, v) \/ PutPresent(k, v) => outcome'.returned = ~ HasKey(mem, k)]_heapVars
=============================================================================
