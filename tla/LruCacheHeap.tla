---------------------------- MODULE LruCacheHeap ----------------------------
(***************************************************************************)
(* The LRU cache as it is stored: a circular doubly linked list of nodes   *)
(* with the least recently used at its head, and a hash table that holds,  *)
(* for each key, the address of its node.  The nodes of the list belong to *)
(* the table: removing an entry of the table frees the node, and nothing   *)
(* else does.  So every call has to take a node off the list before, and   *)
(* not after, the table lets go of it.                                     *)
(*                                                                         *)
(* The memory of one cache is a record m.  Each operator below is one      *)
(* function of the code, from memory to memory.                            *)
(***************************************************************************)
EXTENDS LinkedList, Sequences, SequencesExt

CONSTANTS
    Key, Value, Nothing,
    Capacity,   \* the capacities a cache may be created with
    Hash,       \* Hash[k] = hash_string(k)
    Node        \* the addresses malloc may return for a node of the list

ASSUME HeapConstants ==
    /\ Capacity \subseteq Nat \ {0}
    /\ Nothing \notin Key \union Value
    /\ Hash \in [Key -> Nat]
    /\ Null \notin Node

VARIABLES
    mem,        \* cache_capacity, the list (heap, head, size), the hash table (table, count)
    outcome     \* what the last call returned

heapVars == <<mem, outcome>>

Pair == [key : Key, val : Value]
TableEntry == [key : Key, node : Node]

\* The end of lru_cache_put: if (key_exists) return true; else return false.
PutResult(returned, evicted) == [call |-> "put", returned |-> returned, evicted |-> evicted]
GetResult(value) == [call |-> "get", value |-> value]
Done == [call |-> "remove"]

-----------------------------------------------------------------------------
\* hmax, the number of buckets, is the capacity of the cache.
Buckets(m) == 0 .. m.capacity - 1

BucketOf(m, k) == Hash[k] % m.capacity

\* ht_has_key, ht_get: the entry of a key is searched in its bucket, and the
\* first one counts.
HasKey(m, k) == \E i \in DOMAIN m.table[BucketOf(m, k)] : m.table[BucketOf(m, k)][i].key = k

EntryIndex(m, k) ==
    CHOOSE i \in DOMAIN m.table[BucketOf(m, k)] :
        /\ m.table[BucketOf(m, k)][i].key = k
        /\ \A j \in 1 .. i - 1 : m.table[BucketOf(m, k)][j].key # k

NodeOf(m, k) == m.table[BucketOf(m, k)][EntryIndex(m, k)].node

\* ht_remove_entry, whose key_val_free_function frees the node of the list.
RemoveEntry(m, k) ==
    IF HasKey(m, k)
    THEN [Free(m, NodeOf(m, k)) EXCEPT !.table[BucketOf(m, k)] = RemoveAt(@, EntryIndex(m, k)),
                                       !.count = @ - 1]
    ELSE m

\* Fault: the entry of a key that is put again stays in its bucket.
TablePutTwice(m, k, n) ==
    [m EXCEPT !.table[BucketOf(m, k)] = <<[key |-> k, node |-> n]>> \o @, !.count = @ + 1]

\* ht_put
TablePut(m, k, n) ==
    [RemoveEntry(m, k) EXCEPT !.table[BucketOf(m, k)] = <<[key |-> k, node |-> n]>> \o @,
                              !.count = @ + 1]

\* Fault: one entry too many fits.
IsFullLate(m) == m.size > m.capacity

\* lru_cache_is_full
IsFull(m) == m.size >= m.capacity

\* The head makes room: it leaves the list and its entry, with the node, the table.
EvictHead(m) == RemoveEntry(Unlink(m, m.head), m.heap[m.head].data.key)

\* The part of lru_cache_put after the eviction; n is the node malloc returns.
Store(m, n, k, v) ==
    LET unlinked == IF HasKey(m, k) THEN Unlink(m, NodeOf(m, k)) ELSE m
    IN  TablePut(AddTail(unlinked, n, [key |-> k, val |-> v]), k, n)

\* The walk of ht_free along a bucket: every entry is removed under its own key.
FreeBucket(m, b) ==
    LET freed[i \in 0 .. Len(m.table[b])] ==
            IF i = 0 THEN m ELSE RemoveEntry(freed[i - 1], m.table[b][i].key)
    IN  freed[Len(m.table[b])]

\* ht_free
FreeTable(m) ==
    LET freed[b \in 0 .. m.capacity] == IF b = 0 THEN m ELSE FreeBucket(freed[b - 1], b - 1)
    IN  freed[m.capacity]

-----------------------------------------------------------------------------
\* init_lru_cache, with the heap as it is.
EmptyCache(capacity, heap) ==
    [heap |-> heap, head |-> EmptyList.head, size |-> EmptyList.size,
     capacity |-> capacity, table |-> [b \in 0 .. capacity - 1 |-> <<>>], count |-> 0]

Init ==
    /\ \E capacity \in Capacity : mem = EmptyCache(capacity, << >>)
    /\ outcome = Done

\* lru_cache_put with a place to return the evicted key to.
Put(k, v) ==
    LET evicts == IsFull(mem) /\ ~ HasKey(mem, k)
        room == IF evicts THEN EvictHead(mem) ELSE mem
    IN  /\ \E n \in Node \ DOMAIN room.heap : mem' = Store(room, n, k, v)
        /\ outcome' = PutResult(HasKey(mem, k),
                                IF evicts THEN mem.heap[mem.head].data.key ELSE Nothing)

\* lru_cache_put without one, as server_get_document calls it after a hit.
PutPresent(k, v) ==
    /\ HasKey(mem, k)
    /\ \E n \in Node \ DOMAIN mem.heap : mem' = Store(mem, n, k, v)
    /\ outcome' = PutResult(TRUE, Nothing)

\* lru_cache_get: a hit puts the pair back.
GetHit(k) ==
    /\ HasKey(mem, k)
    /\ LET val == mem.heap[NodeOf(mem, k)].data.val
       IN  /\ \E n \in Node \ DOMAIN mem.heap : mem' = Store(mem, n, k, val)
           /\ outcome' = GetResult(val)

GetMiss(k) ==
    /\ ~ HasKey(mem, k)
    /\ outcome' = GetResult(Nothing)
    /\ UNCHANGED mem

\* lru_cache_remove
RemoveKey(k) ==
    /\ mem' = IF HasKey(mem, k) THEN RemoveEntry(Unlink(mem, NodeOf(mem, k)), k) ELSE mem
    /\ outcome' = Done

\* free_lru_cache, and init_lru_cache for the next server.  The nodes of the
\* list are freed by the table alone: the list is told that it has none.
Renew ==
    /\ \E capacity \in Capacity : mem' = EmptyCache(capacity, FreeTable(mem).heap)
    /\ outcome' = Done

Next ==
    \/ Renew
    \/ \E k \in Key :
        \/ \E v \in Value : Put(k, v) \/ PutPresent(k, v)
        \/ GetHit(k)
        \/ GetMiss(k)
        \/ RemoveKey(k)

Spec == Init /\ [][Next]_heapVars
-----------------------------------------------------------------------------
\* ListIsRing: the nodes in memory are exactly the nodes of the list, in one
\* circle of the length the list believes it has, with prev the inverse of
\* next.  A head left on a freed node, a node freed while it is linked, or one
\* unlinked and never freed, would break it, some calls later or when the cache
\* is freed.
ListIsRing ==
    /\ mem.heap \in [DOMAIN mem.heap -> ListNode(Pair, Node)]
    /\ IsRing(mem)

\* TableMatchesList: the table finds every node of the list under its key, and
\* nothing else: one entry per node, in the bucket of its key.
TableMatchesList ==
    LET found == {p \in Buckets(mem) \X (1 .. mem.count) : p[2] \in DOMAIN mem.table[p[1]]}
        entry(p) == mem.table[p[1]][p[2]]
    IN  /\ \A b \in Buckets(mem) : Len(mem.table[b]) <= mem.count
        /\ \A p \in found :
            /\ entry(p).node \in DOMAIN mem.heap
            /\ mem.heap[entry(p).node].data.key = entry(p).key
            /\ BucketOf(mem, entry(p).key) = p[1]
        /\ \A n \in DOMAIN mem.heap : \E p \in found : entry(p).node = n
        /\ \A p, q \in found : entry(p).key = entry(q).key => p = q
        /\ mem.count = mem.size

Abstract == INSTANCE LruCacheSpec
    WITH entries <- Elements(mem), capacity <- mem.capacity

\* ImplementsLru: seen from its list, the cache is the sequence of entries that
\* the server's caches are modelled by, and every call changes it and returns
\* what the call on a sequence does.
ImplementsLru == Abstract!CacheSpec
=============================================================================
