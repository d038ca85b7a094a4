--------------------------- MODULE LruHeapProofs ---------------------------
(***************************************************************************)
(* The LRU cache as it is stored, for any keys, hashes, capacities and     *)
(* memory: the list and the hash table hold the same nodes whatever the    *)
(* calls take out and put back, every node is freed with its cache, and    *)
(* the calls do what they promise on the sequence of entries.              *)
(***************************************************************************)
EXTENDS LruCacheHeap, LinkedListProofs, CacheProofs, FiniteSetTheorems

\* The entries of one bucket: their keys belong there, and no key is twice.
BucketOK(m, b, c) ==
    /\ c \in Seq(TableEntry)
    /\ \A i \in DOMAIN c : BucketOf(m, c[i].key) = b
    /\ \A i, j \in DOMAIN c : c[i].key = c[j].key => i = j

TableOK(m) ==
    /\ m.capacity \in Nat \ {0}
    /\ DOMAIN m.table = Buckets(m) /\ m.table = [b \in DOMAIN m.table |-> m.table[b]]
    /\ \A b \in Buckets(m) : BucketOK(m, b, m.table[b])

\* The table has an entry for a key that holds a node.
Holds(m, k, x) == [key |-> k, node |-> x] \in Range(m.table[BucketOf(m, k)])

\* The table holds the nodes in memory, each under the key that is in it.
Matches(m) ==
    /\ \A k \in Key : \A x : Holds(m, k, x) => x \in DOMAIN m.heap /\ m.heap[x].data.key = k
    /\ \A x \in DOMAIN m.heap : Holds(m, m.heap[x].data.key, x)

\* The fields of a memory, with the table for what it is.
IsMemory(m) ==
    /\ IsList(m) /\ DOMAIN m = {"heap", "head", "size", "capacity", "table", "count"}
    /\ TableOK(m)

MemoryOK(m) ==
    /\ IsMemory(m) /\ Matches(m)
    /\ WholeCircle(m, Node) /\ \A x \in DOMAIN m.heap : m.heap[x].data \in Pair
    /\ m.capacity \in Capacity /\ m.size <= m.capacity /\ m.count = m.size

\* The inductive invariant.
HeapInv == MemoryOK(mem)
-----------------------------------------------------------------------------
(***************************************************************************)
(* The hash table.                                                         *)
(***************************************************************************)
LEMMA Bucketed ==
    ASSUME NEW m, m.capacity \in Nat \ {0}, NEW k \in Key
    PROVE  BucketOf(m, k) \in Buckets(m)
<1>1. Hash[k] \in Nat
  BY HeapConstants
<1>2. PICK h, c : h = Hash[k] /\ c = m.capacity
  OBVIOUS
<1>3. h % c \in 0 .. c - 1
  BY <1>1, <1>2
<1> QED
  BY <1>2, <1>3 DEF BucketOf, Buckets

LEMMA EntryFields ==
    ASSUME NEW e \in TableEntry
    PROVE  e = [key |-> e.key, node |-> e.node] /\ e.key \in Key /\ e.node \in Node
BY DEF TableEntry

\* ht_has_key and ht_get find the one entry of a key.
LEMMA Found ==
    ASSUME NEW m, TableOK(m), NEW k \in Key
    PROVE  /\ HasKey(m, k) => Holds(m, k, NodeOf(m, k)) /\ NodeOf(m, k) \in Node
           /\ \A x : Holds(m, k, x) => HasKey(m, k) /\ NodeOf(m, k) = x
<1>1. PICK b, c, e : b = BucketOf(m, k) /\ c = m.table[b] /\ e = EntryIndex(m, k)
  OBVIOUS
<1>2. BucketOK(m, b, c)
  BY <1>1, Bucketed DEF TableOK
<1>3. HasKey(m, k) <=> \E i \in DOMAIN c : c[i].key = k
  BY <1>1 DEF HasKey
<1>4. NodeOf(m, k) = c[e].node
  BY <1>1 DEF NodeOf
<1>5. ASSUME NEW i \in DOMAIN c, c[i].key = k
      PROVE  e = i
  <2>1. \A j \in 1 .. i - 1 : j \in DOMAIN c /\ c[j].key # k
    <3>1. DOMAIN c = 1 .. Len(c) /\ Len(c) \in Nat
      BY <1>2 DEF BucketOK
    <3>2. \A j \in 1 .. i - 1 : j \in DOMAIN c /\ j # i
      BY <1>5, <3>1
    <3> QED
      BY <1>2, <1>5, <3>2 DEF BucketOK
  <2>2. e = CHOOSE j \in DOMAIN c : c[j].key = k /\ \A l \in 1 .. j - 1 : c[l].key # k
    BY <1>1 DEF EntryIndex
  <2>3. e \in DOMAIN c /\ c[e].key = k
    BY <1>5, <2>1, <2>2
  <2> QED
    BY <1>2, <1>5, <2>3 DEF BucketOK
<1>6. \A i \in DOMAIN c : c[i] \in TableEntry
  BY <1>2 DEF BucketOK
<1>7. ASSUME NEW i \in DOMAIN c, c[i].key = k
      PROVE  Holds(m, k, NodeOf(m, k)) /\ NodeOf(m, k) \in Node
  <2>1. c[i] = [key |-> k, node |-> NodeOf(m, k)] /\ NodeOf(m, k) \in Node
    BY <1>4, <1>5, <1>6, <1>7, EntryFields
  <2>2. c[i] \in Range(c)
    BY DEF Range
  <2> QED
    BY <1>1, <2>1, <2>2 DEF Holds
<1>8. ASSUME NEW x, Holds(m, k, x)
      PROVE  HasKey(m, k) /\ NodeOf(m, k) = x
  <2>1. PICK i \in DOMAIN c : c[i] = [key |-> k, node |-> x]
    BY <1>1, <1>8 DEF Holds, Range
  <2>2. c[i].key = k /\ c[i].node = x
    BY <2>1
  <2> QED
    BY <1>3, <1>4, <1>5, <2>2
<1> QED
  BY <1>3, <1>7, <1>8

\* Taking the entry of a key out of its bucket.
LEMMA BucketCut ==
    ASSUME NEW m, NEW b, NEW c, BucketOK(m, b, c), NEW i \in DOMAIN c, NEW d, d = RemoveAt(c, i)
    PROVE  BucketOK(m, b, d) /\ Range(d) = Range(c) \ {c[i]}
<1>1. /\ c \in Seq(TableEntry) /\ DOMAIN c = 1 .. Len(c) /\ Len(c) \in Nat
      /\ \A j, l \in 1 .. Len(c) : c[j].key = c[l].key => j = l
      /\ \A j \in 1 .. Len(c) : BucketOf(m, c[j].key) = b
  BY DEF BucketOK
<1>2. PICK n : n = Len(c) /\ n \in Nat /\ i \in 1 .. n
  BY <1>1
<1>3. /\ d \in Seq(TableEntry) /\ DOMAIN d = 1 .. n - 1
      /\ \A j \in 1 .. n - 1 : d[j] = c[IF j < i THEN j ELSE j + 1]
  <2>1. i \in 1 .. Len(c)
    BY <1>1
  <2>2. /\ RemoveAt(c, i) \in Seq(TableEntry) /\ Len(RemoveAt(c, i)) = Len(c) - 1
        /\ \A j \in 1 .. Len(c) - 1 : RemoveAt(c, i)[j] = c[IF j < i THEN j ELSE j + 1]
    BY <1>1, <2>1, RemoveAtFacts
  <2>3. d \in Seq(TableEntry) /\ Len(d) = n - 1
    BY <1>2, <2>2
  <2>4. DOMAIN d = 1 .. n - 1
    BY <2>3
  <2> QED
    BY <1>2, <2>2, <2>3, <2>4
<1>4. \A j \in 1 .. n - 1 : (IF j < i THEN j ELSE j + 1) \in 1 .. n /\ (IF j < i THEN j ELSE j + 1) # i
  BY <1>2
<1>5. ASSUME NEW j \in 1 .. n - 1, NEW l \in 1 .. n - 1, d[j].key = d[l].key
      PROVE  j = l
  <2>1. (IF j < i THEN j ELSE j + 1) = (IF l < i THEN l ELSE l + 1)
    BY <1>1, <1>2, <1>3, <1>4, <1>5
  <2> QED
    BY <1>2, <2>1
<1>6. \A j \in 1 .. n - 1 : BucketOf(m, d[j].key) = b
  BY <1>1, <1>2, <1>3, <1>4
<1>7. \A j \in 1 .. n - 1 : d[j] \in Range(c) /\ d[j] # c[i]
  <2> SUFFICES ASSUME NEW j \in 1 .. n - 1
               PROVE  d[j] \in Range(c) /\ d[j] # c[i]
    OBVIOUS
  <2>1. PICK l \in 1 .. n : l # i /\ d[j] = c[l]
    BY <1>3, <1>4
  <2>2. c[l].key # c[i].key
    BY <1>1, <1>2, <2>1
  <2> QED
    BY <1>1, <1>2, <2>1, <2>2 DEF Range
<1>8. ASSUME NEW j \in 1 .. n, j # i
      PROVE  c[j] \in Range(d)
  <2>1. PICK l : l = IF j < i THEN j ELSE j - 1
    OBVIOUS
  <2>2. l \in 1 .. n - 1 /\ (IF l < i THEN l ELSE l + 1) = j
    BY <1>2, <1>8, <2>1
  <2>3. d[l] = c[j]
    BY <1>3, <2>2
  <2> QED
    BY <1>3, <2>2, <2>3 DEF Range
<1>9. Range(d) = Range(c) \ {c[i]}
  <2>1. Range(d) \subseteq Range(c) \ {c[i]}
    BY <1>3, <1>7 DEF Range
  <2>2. Range(c) \ {c[i]} \subseteq Range(d)
    BY <1>1, <1>2, <1>8 DEF Range
  <2> QED
    BY <2>1, <2>2
<1> QED
  BY <1>3, <1>5, <1>6, <1>9 DEF BucketOK

\* ll_add_nth_node puts the entry of a new key in front.
Grown(m, b, d, c, e) == BucketOK(m, b, d) /\ Range(d) = Range(c) \union {e}

LEMMA BucketGrown ==
    ASSUME NEW m, NEW b, NEW c, BucketOK(m, b, c), NEW e \in TableEntry, BucketOf(m, e.key) = b,
           \A i \in DOMAIN c : c[i].key # e.key, NEW d, d = <<e>> \o c
    PROVE  Grown(m, b, d, c, e)
<1>1. /\ c \in Seq(TableEntry) /\ DOMAIN c = 1 .. Len(c) /\ Len(c) \in Nat
      /\ \A j, l \in 1 .. Len(c) : c[j].key = c[l].key => j = l
      /\ \A j \in 1 .. Len(c) : BucketOf(m, c[j].key) = b
  BY DEF BucketOK
<1>2. PICK n : n = Len(c) /\ n \in Nat
  BY <1>1
<1>3. <<e>> \in Seq(TableEntry) /\ Len(<<e>>) = 1 /\ <<e>>[1] = e
  OBVIOUS
<1>4. /\ d \in Seq(TableEntry) /\ Len(d) = 1 + n
      /\ \A j \in 1 .. 1 + n : d[j] = IF j <= 1 THEN <<e>>[j] ELSE c[j - 1]
  BY <1>1, <1>2, <1>3, ConcatProperties
<1>5. DOMAIN d = 1 .. n + 1 /\ d[1] = e /\ \A j \in 1 .. n : d[j + 1] = c[j]
  <2>1. 1 \in 1 .. 1 + n /\ 1 <= 1 /\ \A j \in 1 .. n : j + 1 \in 1 .. 1 + n /\ ~ (j + 1 <= 1) /\ (j + 1) - 1 = j
    BY <1>2
  <2>2. DOMAIN d = 1 .. n + 1
    BY <1>2, <1>4
  <2> QED
    BY <1>3, <1>4, <2>1, <2>2
<1>6. \A j \in 1 .. n + 1 : j = 1 \/ \E l \in 1 .. n : j = l + 1
  <2> SUFFICES ASSUME NEW j \in 1 .. n + 1, j # 1
               PROVE  \E l \in 1 .. n : j = l + 1
    OBVIOUS
  <2>1. j - 1 \in 1 .. n /\ j = (j - 1) + 1
    BY <1>2
  <2> QED
    BY <2>1
<1>7. ASSUME NEW j \in 1 .. n + 1, NEW l \in 1 .. n + 1, d[j].key = d[l].key
      PROVE  j = l
  <2>1. ASSUME NEW i \in 1 .. n
        PROVE  d[i + 1].key # d[1].key
    <3>1. i \in DOMAIN c
      BY <1>1, <1>2
    <3>2. d[i + 1] = c[i] /\ d[1] = e
      BY <1>5
    <3> QED
      BY <3>1, <3>2
  <2>2. CASE j = 1 \/ l = 1
    <3>1. j = 1 /\ l = 1
      <4>1. ASSUME j # 1
            PROVE  FALSE
        BY <1>6, <1>7, <2>1, <2>2, <4>1
      <4>2. ASSUME l # 1
            PROVE  FALSE
        BY <1>6, <1>7, <2>1, <2>2, <4>2
      <4> QED
        BY <4>1, <4>2
    <3> QED
      BY <3>1
  <2>3. CASE j # 1 /\ l # 1
    <3>1. PICK i, p \in 1 .. n : j = i + 1 /\ l = p + 1
      BY <1>6, <2>3
    <3>2. c[i].key = c[p].key
      BY <1>5, <1>7, <3>1
    <3> QED
      BY <1>1, <1>2, <3>1, <3>2
  <2> QED
    BY <2>2, <2>3
<1>8. \A j \in 1 .. n + 1 : BucketOf(m, d[j].key) = b
  BY <1>1, <1>2, <1>5, <1>6
<1>9. Range(d) = Range(c) \union {e}
  <2>1. ASSUME NEW j \in 1 .. n + 1
        PROVE  d[j] \in Range(c) \union {e}
    <3>1. CASE j = 1
      BY <1>5, <3>1
    <3>2. CASE j # 1
      <4>1. PICK l \in 1 .. n : j = l + 1
        BY <1>6, <3>2
      <4>2. d[j] = c[l] /\ l \in DOMAIN c
        BY <1>1, <1>2, <1>5, <4>1
      <4> QED
        BY <4>2 DEF Range
    <3> QED
      BY <3>1, <3>2
  <2>2. \A j \in 1 .. n : c[j] \in Range(d)
    <3>1. \A j \in 1 .. n : j + 1 \in 1 .. n + 1
      BY <1>2
    <3> QED
      BY <1>5, <3>1 DEF Range
  <2>3. e \in Range(d)
    <3>1. 1 \in 1 .. n + 1
      BY <1>2
    <3> QED
      BY <1>5, <3>1 DEF Range
  <2>4. Range(d) \subseteq Range(c) \union {e}
    BY <1>5, <2>1 DEF Range
  <2>5. Range(c) \subseteq Range(d)
    BY <1>1, <1>2, <2>2 DEF Range
  <2> QED
    BY <2>3, <2>4, <2>5
<1> QED
  BY <1>4, <1>5, <1>7, <1>8, <1>9 DEF BucketOK, Grown

\* The fields of a memory.
LEMMA SameBuckets ==
    ASSUME NEW m, NEW r, r.capacity = m.capacity
    PROVE  /\ Buckets(r) = Buckets(m) /\ \A k : BucketOf(r, k) = BucketOf(m, k)
           /\ \A b, c : BucketOK(m, b, c) => BucketOK(r, b, c)
BY DEF Buckets, BucketOf, BucketOK

TableAssigned(r, m, t, c) ==
    /\ IsList(r) /\ DOMAIN r = DOMAIN m /\ r.table = t /\ r.count = c
    /\ r.heap = m.heap /\ r.head = m.head /\ r.size = m.size /\ r.capacity = m.capacity

LEMMA AssignTable ==
    ASSUME NEW m, IsList(m), DOMAIN m = {"heap", "head", "size", "capacity", "table", "count"},
           NEW t, NEW c, NEW r, r = [m EXCEPT !.table = t, !.count = c]
    PROVE  TableAssigned(r, m, t, c)
<1>1. /\ DOMAIN r = DOMAIN m /\ r.table = t /\ r.count = c
      /\ r.heap = m.heap /\ r.head = m.head /\ r.size = m.size /\ r.capacity = m.capacity
  BY DEF IsList
<1>2. r = [f \in DOMAIN r |-> r[f]]
  OBVIOUS
<1> QED
  BY <1>1, <1>2 DEF IsList, ListFields, TableAssigned

\* Another bucket in the place of one.
HoldsInstead(r, m, b, d) ==
    \A q \in Key : \A x :
        Holds(r, q, x) <=> IF BucketOf(m, q) = b THEN [key |-> q, node |-> x] \in Range(d)
                           ELSE Holds(m, q, x)

LEMMA TableChanged ==
    ASSUME NEW m, TableOK(m), NEW b \in Buckets(m), NEW d, BucketOK(m, b, d),
           NEW r, r.capacity = m.capacity, r.table = [m.table EXCEPT ![b] = d]
    PROVE  TableOK(r) /\ HoldsInstead(r, m, b, d)
<1>1. PICK t : t = m.table /\ DOMAIN t = Buckets(m) /\ t = [a \in DOMAIN t |-> t[a]]
  BY DEF TableOK
<1>2. PICK u : u = r.table /\ u = [t EXCEPT ![b] = d]
  BY <1>1
<1>3. DOMAIN u = Buckets(m) /\ u[b] = d /\ \A a \in Buckets(m) : a # b => u[a] = t[a]
  BY <1>1, <1>2
<1>4. u = [a \in DOMAIN u |-> u[a]]
  BY <1>1, <1>2
<1>5. \A a \in Buckets(m) : BucketOK(m, a, u[a])
  BY <1>1, <1>3 DEF TableOK
<1>6. TableOK(r)
  <2>1. \A a \in Buckets(m) : BucketOK(r, a, u[a])
    BY <1>5, SameBuckets
  <2>2. Buckets(r) = Buckets(m)
    BY SameBuckets
  <2> QED
    BY <1>2, <1>3, <1>4, <2>1, <2>2 DEF TableOK
<1>7. ASSUME NEW q \in Key, NEW x
      PROVE  Holds(r, q, x) <=> IF BucketOf(m, q) = b THEN [key |-> q, node |-> x] \in Range(d)
                                ELSE Holds(m, q, x)
  <2>1. PICK a : a = BucketOf(m, q) /\ a = BucketOf(r, q) /\ a \in Buckets(m)
    BY SameBuckets, Bucketed DEF TableOK
  <2>2. Holds(r, q, x) <=> [key |-> q, node |-> x] \in Range(u[a])
    BY <1>2, <2>1 DEF Holds
  <2>3. Holds(m, q, x) <=> [key |-> q, node |-> x] \in Range(t[a])
    BY <1>1, <2>1 DEF Holds
  <2> QED
    BY <1>3, <2>1, <2>2, <2>3
<1> QED
  BY <1>6, <1>7 DEF HoldsInstead

\* What stays of a memory when the entry of a key is removed.
Removed(r, m, k) ==
    /\ IsMemory(r) /\ r.capacity = m.capacity /\ r.head = m.head /\ r.size = m.size
    /\ \A q \in Key : \A x : Holds(r, q, x) <=> Holds(m, q, x) /\ q # k

LEMMA FreedList ==
    ASSUME NEW m, IsList(m), NEW x, NEW r, r = Free(m, x)
    PROVE  /\ IsList(r) /\ DOMAIN r = DOMAIN m /\ \A f \in DOMAIN m \ {"heap"} : r[f] = m[f]
           /\ DOMAIN r.heap = DOMAIN m.heap \ {x} /\ \A y \in DOMAIN r.heap : r.heap[y] = m.heap[y]
<1>1. PICK h : h = Restrict(m.heap, DOMAIN m.heap \ {x})
  OBVIOUS
<1>2. h = [y \in DOMAIN m.heap \ {x} |-> m.heap[y]]
  BY <1>1 DEF Restrict
<1>3. r = [m EXCEPT !.heap = h]
  BY <1>1 DEF Free
<1>4. DOMAIN r = DOMAIN m /\ r.heap = h /\ (\A f \in DOMAIN m \ {"heap"} : r[f] = m[f])
  BY <1>3 DEF IsList, ListFields
<1>5. r = [f \in DOMAIN r |-> r[f]]
  BY <1>3
<1>6. h = [y \in DOMAIN h |-> h[y]] /\ DOMAIN h = DOMAIN m.heap \ {x}
  BY <1>2
<1>7. r.size \in Nat
  BY <1>4 DEF IsList, ListFields
<1> QED
  BY <1>2, <1>4, <1>5, <1>6, <1>7 DEF IsList

\* ht_remove_entry of a key that is there frees its node.
LEMMA EntryRemoved ==
    ASSUME NEW m, IsMemory(m), NEW k \in Key, NEW x, Holds(m, k, x), NEW r, r = RemoveEntry(m, k)
    PROVE  Removed(r, m, k) /\ r.heap = Free(m, x).heap /\ r.count = m.count - 1
<1>1. HasKey(m, k) /\ NodeOf(m, k) = x /\ TableOK(m) /\ IsList(m)
  BY Found DEF IsMemory
<1>2. PICK b, c, e : b = BucketOf(m, k) /\ c = m.table[b] /\ e = EntryIndex(m, k)
  OBVIOUS
<1>3. BucketOK(m, b, c) /\ b \in Buckets(m)
  BY <1>1, <1>2, Bucketed DEF TableOK
<1>4. e \in DOMAIN c /\ c[e] = [key |-> k, node |-> x]
  <2>1. PICK i \in DOMAIN c : c[i] = [key |-> k, node |-> x]
    BY <1>2 DEF Holds, Range
  <2>2. \A j \in 1 .. i - 1 : c[j].key # k
    <3>1. \A j \in 1 .. i - 1 : j \in DOMAIN c /\ j # i
      <4>1. DOMAIN c = 1 .. Len(c) /\ Len(c) \in Nat
        BY <1>3 DEF BucketOK
      <4> QED
        BY <2>1, <4>1
    <3> QED
      BY <1>3, <2>1, <3>1 DEF BucketOK
  <2>3. e = CHOOSE j \in DOMAIN c : c[j].key = k /\ \A l \in 1 .. j - 1 : c[l].key # k
    BY <1>2 DEF EntryIndex
  <2>4. e \in DOMAIN c /\ c[e].key = k
    BY <2>1, <2>2, <2>3
  <2>5. e = i
    BY <1>3, <2>1, <2>4 DEF BucketOK
  <2> QED
    BY <2>1, <2>5
<1>5. PICK d : d = RemoveAt(c, e) /\ BucketOK(m, b, d) /\ Range(d) = Range(c) \ {[key |-> k, node |-> x]}
  BY <1>3, <1>4, BucketCut
<1>6. PICK f : f = Free(m, x)
  OBVIOUS
<1>7. /\ IsList(f) /\ DOMAIN f = {"heap", "head", "size", "capacity", "table", "count"}
      /\ f.head = m.head /\ f.size = m.size /\ f.capacity = m.capacity
      /\ f.table = m.table /\ f.count = m.count
  BY <1>1, <1>6, FreedList DEF IsMemory
<1>8. r = [f EXCEPT !.table = [m.table EXCEPT ![b] = d], !.count = m.count - 1]
  <2>1. r = [f EXCEPT !.table[b] = RemoveAt(@, e), !.count = @ - 1]
    BY <1>1, <1>2, <1>6 DEF RemoveEntry
  <2> QED
    BY <1>2, <1>5, <1>7, <2>1
<1>9. /\ IsList(r) /\ DOMAIN r = DOMAIN f /\ r.table = [m.table EXCEPT ![b] = d]
      /\ r.count = m.count - 1 /\ r.heap = f.heap /\ r.head = f.head /\ r.size = f.size
      /\ r.capacity = f.capacity
  <2>1. TableAssigned(r, f, [m.table EXCEPT ![b] = d], m.count - 1)
    BY <1>7, <1>8, AssignTable
  <2> QED
    BY <2>1 DEF TableAssigned
<1>10. /\ TableOK(r)
       /\ \A q \in Key : \A y :
            Holds(r, q, y) <=> IF BucketOf(m, q) = b THEN [key |-> q, node |-> y] \in Range(d)
                               ELSE Holds(m, q, y)
  <2>1. TableOK(r) /\ HoldsInstead(r, m, b, d)
    BY <1>1, <1>3, <1>5, <1>7, <1>9, TableChanged
  <2> QED
    BY <2>1 DEF HoldsInstead
<1>11. ASSUME NEW q \in Key, NEW y
       PROVE  Holds(r, q, y) <=> Holds(m, q, y) /\ q # k
  <2>1. Holds(m, k, y) => y = x
    BY <1>1, Found
  <2>2. CASE BucketOf(m, q) = b
    <3>1. Holds(m, q, y) <=> [key |-> q, node |-> y] \in Range(c)
      BY <1>2, <2>2 DEF Holds
    <3>2. [key |-> q, node |-> y] = [key |-> k, node |-> x] <=> q = k /\ y = x
      OBVIOUS
    <3> QED
      BY <1>5, <1>10, <2>1, <2>2, <3>1, <3>2
  <2>3. CASE BucketOf(m, q) # b
    BY <1>2, <1>10, <2>3
  <2> QED
    BY <2>2, <2>3
<1> QED
  BY <1>6, <1>7, <1>9, <1>10, <1>11 DEF Removed, IsMemory

\* ht_put of a key that is not there.
EntryIn(r, m, k, n) ==
    /\ IsMemory(r) /\ r.capacity = m.capacity /\ r.count = m.count + 1
    /\ r.heap = m.heap /\ r.head = m.head /\ r.size = m.size
    /\ \A q \in Key : \A x : Holds(r, q, x) <=> Holds(m, q, x) \/ (q = k /\ x = n)

LEMMA EntryPut ==
    ASSUME NEW m, IsMemory(m), NEW k \in Key, \A x : ~ Holds(m, k, x), NEW n \in Node,
           NEW b, b = BucketOf(m, k),
           NEW r, r = [m EXCEPT !.table[b] = <<[key |-> k, node |-> n]>> \o @, !.count = @ + 1]
    PROVE  EntryIn(r, m, k, n)
<1>1. TableOK(m) /\ IsList(m) /\ DOMAIN m = {"heap", "head", "size", "capacity", "table", "count"}
  BY DEF IsMemory
<1>2. PICK a, c, e, d, p : a = b /\ c = m.table[b] /\ e = [key |-> k, node |-> n] /\ d = <<e>> \o c /\ p = r
  OBVIOUS
<1>3. BucketOK(m, a, c) /\ a \in Buckets(m)
  BY <1>1, <1>2, Bucketed DEF TableOK
<1>4. e \in TableEntry /\ e.key = k
  BY <1>2 DEF TableEntry
<1>5. ASSUME NEW i \in DOMAIN c, c[i].key = k
      PROVE  FALSE
  <2>1. c[i] \in TableEntry
    BY <1>3 DEF BucketOK
  <2>2. c[i] = [key |-> k, node |-> c[i].node]
    BY <1>5, <2>1, EntryFields
  <2>3. c[i] \in Range(c)
    BY DEF Range
  <2>4. Holds(m, k, c[i].node)
    BY <1>2, <2>2, <2>3 DEF Holds
  <2> QED
    BY <2>4
<1>6. BucketOK(m, a, d) /\ Range(d) = Range(c) \union {e}
  <2>1. d = <<e>> \o c /\ BucketOf(m, e.key) = a /\ \A i \in DOMAIN c : c[i].key # e.key
    BY <1>2, <1>4, <1>5
  <2>2. Grown(m, a, d, c, e)
    BY <1>3, <1>4, <2>1, BucketGrown
  <2> QED
    BY <2>2 DEF Grown
<1>7. p = [m EXCEPT !.table = [m.table EXCEPT ![a] = d], !.count = m.count + 1]
  BY <1>1, <1>2
<1>8. /\ IsList(p) /\ DOMAIN p = DOMAIN m /\ p.table = [m.table EXCEPT ![a] = d]
      /\ p.count = m.count + 1 /\ p.heap = m.heap /\ p.head = m.head /\ p.size = m.size
      /\ p.capacity = m.capacity
  <2>1. TableAssigned(p, m, [m.table EXCEPT ![a] = d], m.count + 1)
    BY <1>1, <1>7, AssignTable
  <2> QED
    BY <2>1 DEF TableAssigned
<1>9. /\ TableOK(p)
      /\ \A q \in Key : \A y :
            Holds(p, q, y) <=> IF BucketOf(m, q) = a THEN [key |-> q, node |-> y] \in Range(d)
                               ELSE Holds(m, q, y)
  <2>1. TableOK(p) /\ HoldsInstead(p, m, a, d)
    BY <1>1, <1>3, <1>6, <1>8, TableChanged
  <2> QED
    BY <2>1 DEF HoldsInstead
<1>10. ASSUME NEW q \in Key, NEW y
       PROVE  Holds(p, q, y) <=> Holds(m, q, y) \/ (q = k /\ y = n)
  <2>1. CASE BucketOf(m, q) = a
    <3>1. Holds(m, q, y) <=> [key |-> q, node |-> y] \in Range(c)
      BY <1>2, <2>1 DEF Holds
    <3>2. [key |-> q, node |-> y] = e <=> q = k /\ y = n
      BY <1>2
    <3> QED
      BY <1>6, <1>9, <2>1, <3>1, <3>2
  <2>2. CASE BucketOf(m, q) # a
    BY <1>2, <1>9, <2>2
  <2> QED
    BY <2>1, <2>2
<1>11. r = p
  BY <1>2
<1> QED
  BY <1>1, <1>8, <1>9, <1>10, <1>11 DEF IsMemory, EntryIn
-----------------------------------------------------------------------------
(***************************************************************************)
(* The list and the table together.                                        *)
(***************************************************************************)
\* A call on the list leaves the table alone.
LEMMA TableKept ==
    ASSUME NEW m, IsMemory(m), NEW r, IsList(r), KeepsData(r, m)
    PROVE  /\ IsMemory(r) /\ r.capacity = m.capacity /\ r.table = m.table /\ r.count = m.count
           /\ \A q, x : Holds(r, q, x) <=> Holds(m, q, x)
           /\ \A q : HasKey(r, q) <=> HasKey(m, q)
<1>1. DOMAIN r = DOMAIN m /\ r.capacity = m.capacity /\ r.table = m.table /\ r.count = m.count
  BY DEF IsMemory, KeepsData, ListFields
<1>2. Buckets(r) = Buckets(m) /\ (\A k : BucketOf(r, k) = BucketOf(m, k))
      /\ \A b, c : BucketOK(m, b, c) => BucketOK(r, b, c)
  BY <1>1, SameBuckets
<1>3. TableOK(r)
  BY <1>1, <1>2 DEF IsMemory, TableOK
<1>4. \A q, x : Holds(r, q, x) <=> Holds(m, q, x)
  BY <1>1, <1>2 DEF Holds
<1>5. \A q : HasKey(r, q) <=> HasKey(m, q)
  BY <1>1, <1>2 DEF HasKey
<1> QED
  BY <1>1, <1>3, <1>4, <1>5 DEF IsMemory

\* A call on the table leaves the list alone.
LEMMA SameCircle ==
    ASSUME NEW list, NEW s, Circle(list, s), NEW m, IsList(m),
           m.heap = list.heap, m.head = list.head, m.size = list.size
    PROVE  Circle(m, s) /\ (Owns(list, s) => Owns(m, s))
BY DEF Circle, Names, Owns

\* What is known of the nodes of a cache.
LEMMA CacheNodes ==
    ASSUME NEW m, MemoryOK(m), NEW s, s = Walk(m)
    PROVE  /\ Circle(m, s) /\ Owns(m, s) /\ IsList(m) /\ m.size \in Nat
           /\ s \in [1 .. m.size -> DOMAIN m.heap]
           /\ \A i, j \in 1 .. m.size : s[i] = s[j] => i = j
           /\ DOMAIN m.heap \subseteq Node
           /\ Elements(m) = [i \in 1 .. m.size |-> m.heap[s[i]].data]
           /\ \A i \in 1 .. m.size : m.heap[s[i]].data \in Pair /\ m.heap[s[i]].data.key \in Key
<1>1. WholeCircle(m, Node) /\ \A x \in DOMAIN m.heap : m.heap[x].data \in Pair
  BY DEF MemoryOK
<1>2. Circle(m, s) /\ Owns(m, s) /\ DOMAIN m.heap \subseteq Node
  BY <1>1 DEF WholeCircle
<1>3. /\ IsList(m) /\ m.size \in Nat /\ s \in [1 .. m.size -> DOMAIN m.heap]
      /\ Elements(m) = [i \in 1 .. m.size |-> m.heap[s[i]].data]
  BY <1>1, WholeList
<1>4. \A p \in Pair : p.key \in Key
  BY DEF Pair
<1> QED
  BY <1>1, <1>2, <1>3, <1>4 DEF Circle, Names

\* The node that is held for a key is one of the list, and holds the key.
LEMMA HeldNode ==
    ASSUME NEW m, MemoryOK(m), NEW k \in Key, HasKey(m, k), NEW s, s = Walk(m)
    PROVE  \E j \in 1 .. m.size :
               NodeOf(m, k) = s[j] /\ m.heap[s[j]].data.key = k /\ Holds(m, k, s[j])
<1>1. PICK x : x = NodeOf(m, k)
  OBVIOUS
<1>2. Holds(m, k, x)
  BY <1>1, Found DEF MemoryOK, IsMemory
<1>3. x \in DOMAIN m.heap /\ m.heap[x].data.key = k
  BY <1>2 DEF MemoryOK, Matches
<1>4. PICK j \in 1 .. m.size : s[j] = x
  BY <1>3, CacheNodes DEF Owns
<1> QED
  BY <1>1, <1>2, <1>3, <1>4

\* Two nodes of the list never hold the same key, and a key is in the table if
\* and only if a node holds it.
LEMMA OneNodeEach ==
    ASSUME NEW m, MemoryOK(m)
    PROVE  /\ \A x, y \in DOMAIN m.heap : m.heap[x].data.key = m.heap[y].data.key => x = y
           /\ \A k \in Key : HasKey(m, k) <=> \E x \in DOMAIN m.heap : m.heap[x].data.key = k
           /\ \A x \in DOMAIN m.heap : m.heap[x].data.key \in Key
                                       /\ NodeOf(m, m.heap[x].data.key) = x
<1>1. TableOK(m) /\ Matches(m) /\ \A x \in DOMAIN m.heap : m.heap[x].data.key \in Key
  BY DEF MemoryOK, IsMemory, Pair
<1>2. \A x \in DOMAIN m.heap : Holds(m, m.heap[x].data.key, x)
  BY <1>1 DEF Matches
<1>3. ASSUME NEW x \in DOMAIN m.heap
      PROVE  HasKey(m, m.heap[x].data.key) /\ NodeOf(m, m.heap[x].data.key) = x
  <2>1. PICK k \in Key : k = m.heap[x].data.key
    BY <1>1
  <2>2. HasKey(m, k) /\ NodeOf(m, k) = x
    BY <1>1, <1>2, <2>1, Found
  <2> QED
    BY <2>1, <2>2
<1>4. ASSUME NEW k \in Key, HasKey(m, k)
      PROVE  \E x \in DOMAIN m.heap : m.heap[x].data.key = k
  <2>1. PICK x : x = NodeOf(m, k)
    OBVIOUS
  <2>2. Holds(m, k, x)
    BY <1>1, <1>4, <2>1, Found
  <2> QED
    BY <1>1, <2>2 DEF Matches
<1> QED
  BY <1>1, <1>3, <1>4

\* A node taken off the list and out of the table: lru_cache_remove, and what
\* lru_cache_put does to the head of a full cache.
TakenOut(r, m, k) ==
    /\ MemoryOK(r) /\ r.capacity = m.capacity /\ r.size = m.size - 1
    /\ DOMAIN r.heap \subseteq DOMAIN m.heap
    /\ \A x : ~ Holds(r, k, x)
    /\ \E j \in 1 .. m.size :
        /\ Elements(m)[j].key = k /\ NodeOf(m, k) = Walk(m)[j]
        /\ Elements(r) = Without(Elements(m), m.size, j)

LEMMA KeyTakenOut ==
    ASSUME NEW m, MemoryOK(m), NEW k \in Key, HasKey(m, k),
           NEW r, r = RemoveEntry(Unlink(m, NodeOf(m, k)), k)
    PROVE  TakenOut(r, m, k)
<1>1. PICK s, n, h : s = Walk(m) /\ n = m.size /\ h = m.heap
  OBVIOUS
<1>2. /\ Circle(m, s) /\ Owns(m, s) /\ n \in Nat
      /\ s \in [1 .. n -> DOMAIN h] /\ \A i, j \in 1 .. n : s[i] = s[j] => i = j
  BY <1>1, CacheNodes
<1>3. /\ Elements(m) = [i \in 1 .. n |-> h[s[i]].data] /\ DOMAIN h \subseteq Node
      /\ \A i \in 1 .. n : h[s[i]].data \in Pair
  BY <1>1, CacheNodes
<1>4. PICK j \in 1 .. n : NodeOf(m, k) = s[j] /\ h[s[j]].data.key = k /\ Holds(m, k, s[j])
  BY <1>1, HeldNode
<1>5. PICK u, t, x : u = Unlink(m, s[j]) /\ t = Without(s, n, j) /\ x = s[j]
  OBVIOUS
<1>6. /\ Circle(u, t) /\ u.size = n - 1 /\ DOMAIN u.heap = DOMAIN h
      /\ \A i \in 1 .. u.size : t[i] # x
      /\ KeepsData(u, m)
  BY <1>1, <1>2, <1>5, UnlinkIsCircle
<1>7. /\ IsMemory(u) /\ u.capacity = m.capacity /\ u.count = m.count
      /\ \A q, y : Holds(u, q, y) <=> Holds(m, q, y)
  BY <1>6, TableKept DEF MemoryOK, Circle
<1>8. Removed(r, u, k) /\ r.heap = Free(u, x).heap /\ r.count = u.count - 1
  <2>1. r = RemoveEntry(u, k) /\ Holds(u, k, x)
    BY <1>4, <1>5, <1>7
  <2> QED
    BY <1>7, <2>1, EntryRemoved
<1>9. PICK f : f = Free(u, x)
  OBVIOUS
<1>10. /\ Circle(f, t) /\ f.size = u.size /\ DOMAIN f.heap = DOMAIN h \ {x}
       /\ f.head = u.head /\ \A y \in DOMAIN f.heap : f.heap[y].data = h[y].data
  <2>1. Circle(f, t) /\ f.size = u.size /\ DOMAIN f.heap = DOMAIN u.heap \ {x} /\ KeepsData(f, u)
    BY <1>6, <1>9, FreeIsCircle
  <2>2. IsList(u)
    BY <1>6 DEF Circle
  <2>3. f.head = u.head
    <3>1. "head" \in DOMAIN u \ {"heap"}
      BY <2>2 DEF IsList, ListFields
    <3>2. \A g \in DOMAIN u \ {"heap"} : f[g] = u[g]
      BY <1>9, <2>2, FreedList
    <3> QED
      BY <3>1, <3>2
  <2>4. \A y \in DOMAIN f.heap : f.heap[y].data = u.heap[y].data /\ u.heap[y].data = h[y].data
    BY <1>1, <1>6, <2>1 DEF KeepsData
  <2> QED
    BY <1>6, <2>1, <2>3, <2>4
<1>11. /\ IsMemory(r) /\ r.heap = f.heap /\ r.head = f.head /\ r.size = n - 1
       /\ r.capacity = m.capacity /\ r.count = m.count - 1
       /\ \A q \in Key : \A y : Holds(r, q, y) <=> Holds(m, q, y) /\ q # k
  BY <1>6, <1>7, <1>8, <1>9, <1>10 DEF Removed
<1>12. t = [i \in 1 .. n - 1 |-> IF i < j THEN s[i] ELSE s[i + 1]]
  BY <1>5 DEF Without
<1>13. Circle(r, t) /\ Owns(r, t)
  <2>1. Circle(r, t)
    BY <1>6, <1>10, <1>11, SameCircle DEF IsMemory
  <2>2. ASSUME NEW y \in DOMAIN r.heap
        PROVE  \E i \in 1 .. n - 1 : t[i] = y
    <3>1. y \in DOMAIN h /\ y # x
      BY <1>10, <1>11, <2>2
    <3>2. PICK i \in 1 .. n : s[i] = y
      BY <1>1, <1>2, <3>1 DEF Owns
    <3>3. i # j
      BY <1>5, <3>1, <3>2
    <3>4. PICK l : l = IF i < j THEN i ELSE i - 1
      OBVIOUS
    <3>5. l \in 1 .. n - 1 /\ (IF l < j THEN l ELSE l + 1) = i
      BY <1>2, <3>3, <3>4
    <3>6. t[l] = s[i]
      BY <1>12, <3>5
    <3> QED
      BY <3>2, <3>5, <3>6
  <2> QED
    BY <1>11, <2>1, <2>2 DEF Owns
<1>14. Walk(r) = t /\ Elements(r) = [i \in 1 .. n - 1 |-> r.heap[t[i]].data]
  BY <1>11, <1>13, WalkOf DEF ReadAs
<1>15. \A y \in DOMAIN r.heap : y \in DOMAIN h /\ y # x /\ r.heap[y].data = h[y].data
  BY <1>10, <1>11
<1>16. MemoryOK(r)
  <2>1. WholeCircle(r, Node)
    BY <1>3, <1>13, <1>14, <1>15 DEF WholeCircle
  <2>2. ASSUME NEW q \in Key, NEW y, Holds(r, q, y)
        PROVE  y \in DOMAIN r.heap /\ r.heap[y].data.key = q
    <3>1. Holds(m, q, y) /\ q # k
      BY <1>11, <2>2
    <3>2. y \in DOMAIN h /\ h[y].data.key = q
      BY <1>1, <3>1 DEF MemoryOK, Matches
    <3>3. y # x
      BY <1>4, <1>5, <3>1, <3>2
    <3>4. y \in DOMAIN r.heap
      BY <1>10, <1>11, <3>2, <3>3
    <3> QED
      BY <1>15, <3>2, <3>4
  <2>3. ASSUME NEW y \in DOMAIN r.heap
        PROVE  Holds(r, r.heap[y].data.key, y)
    <3>1. PICK q : q = h[y].data.key
      OBVIOUS
    <3>2. r.heap[y].data.key = q /\ y # x /\ y \in DOMAIN h
      BY <1>15, <3>1
    <3>3. q \in Key /\ Holds(m, q, y)
      BY <1>1, <3>1, <3>2 DEF MemoryOK, Matches, Pair
    <3>4. q # k
      BY <1>1, <1>4, <1>5, <3>1, <3>2, OneNodeEach
    <3> QED
      BY <1>11, <3>2, <3>3, <3>4
  <2>4. \A y \in DOMAIN r.heap : r.heap[y].data \in Pair
    BY <1>1, <1>15 DEF MemoryOK
  <2>5. r.capacity \in Capacity /\ r.size <= r.capacity /\ r.count = r.size
    <3>1. m.capacity \in Nat
      BY DEF MemoryOK, IsMemory, TableOK
    <3> QED
      BY <1>1, <1>2, <1>11, <3>1 DEF MemoryOK
  <2>6. Matches(r)
    BY <2>2, <2>3 DEF Matches
  <2> QED
    BY <1>11, <2>1, <2>4, <2>5, <2>6 DEF MemoryOK
<1>17. Elements(r) = Without(Elements(m), n, j)
  <2>1. PICK v : v = Elements(m)
    OBVIOUS
  <2>2. ASSUME NEW i \in 1 .. n - 1
        PROVE  r.heap[t[i]].data = IF i < j THEN v[i] ELSE v[i + 1]
    <3>1. PICK l \in 1 .. n : l = IF i < j THEN i ELSE i + 1
      BY <1>2
    <3>2. t[i] = s[l] /\ (IF i < j THEN v[i] ELSE v[i + 1]) = v[l]
      BY <1>12, <3>1
    <3>3. t[i] \in DOMAIN r.heap
      BY <1>11, <1>13 DEF Circle, Names
    <3>4. r.heap[t[i]].data = h[s[l]].data
      BY <1>15, <3>2, <3>3
    <3> QED
      BY <1>3, <2>1, <3>2, <3>4
  <2> QED
    BY <1>14, <2>1, <2>2 DEF Without
<1>18. Elements(m)[j].key = k
  BY <1>3, <1>4
<1>19. \A y : ~ Holds(r, k, y)
  BY <1>11
<1> QED
  BY <1>1, <1>4, <1>11, <1>15, <1>16, <1>17, <1>18, <1>19 DEF TakenOut

\* The rest of a put: the pair is the last of the list, and its entry comes into
\* the table.
Placed(r, m, w) ==
    /\ MemoryOK(r) /\ r.capacity = m.capacity /\ r.size = m.size /\ r.heap = m.heap
    /\ Walk(r) = w /\ Elements(r) = [i \in 1 .. m.size |-> m.heap[w[i]].data]

LEMMA EntryPlaced ==
    ASSUME NEW m, IsMemory(m), NEW w, Circle(m, w), Owns(m, w), DOMAIN m.heap \subseteq Node,
           \A x \in DOMAIN m.heap : m.heap[x].data \in Pair,
           m.capacity \in Capacity, m.size <= m.capacity, m.size = m.count + 1,
           NEW k \in Key, NEW n \in DOMAIN m.heap, m.heap[n].data.key = k,
           \A q \in Key : \A x : Holds(m, q, x) =>
               x \in DOMAIN m.heap /\ m.heap[x].data.key = q /\ q # k,
           \A x \in DOMAIN m.heap : x # n => Holds(m, m.heap[x].data.key, x),
           NEW r, r = TablePut(m, k, n)
    PROVE  Placed(r, m, w)
<1>1. PICK b, h : b = BucketOf(m, k) /\ h = m.heap
  OBVIOUS
<1>2. \A x : ~ Holds(m, k, x)
  OBVIOUS
<1>3. ~ HasKey(m, k)
  BY <1>2, Found DEF IsMemory
<1>4. RemoveEntry(m, k) = m
  BY <1>3 DEF RemoveEntry
<1>5. r = [m EXCEPT !.table[b] = <<[key |-> k, node |-> n]>> \o @, !.count = @ + 1]
  BY <1>1, <1>4 DEF TablePut
<1>6. /\ IsMemory(r) /\ r.capacity = m.capacity /\ r.count = m.count + 1
      /\ r.heap = m.heap /\ r.head = m.head /\ r.size = m.size
      /\ \A q \in Key : \A x : Holds(r, q, x) <=> Holds(m, q, x) \/ (q = k /\ x = n)
  <2>1. n \in Node
    OBVIOUS
  <2>2. EntryIn(r, m, k, n)
    BY <1>1, <1>2, <1>5, <2>1, EntryPut
  <2> QED
    BY <2>2 DEF EntryIn
<1>7. Circle(r, w) /\ Owns(r, w)
  BY <1>6, SameCircle DEF IsMemory
<1>8. Walk(r) = w /\ Elements(r) = [i \in 1 .. m.size |-> m.heap[w[i]].data]
  BY <1>6, <1>7, WalkOf DEF ReadAs
<1>9. Matches(r)
  <2>1. ASSUME NEW q \in Key, NEW x, Holds(r, q, x)
        PROVE  x \in DOMAIN r.heap /\ r.heap[x].data.key = q
    BY <1>6, <2>1
  <2>2. ASSUME NEW x \in DOMAIN h
        PROVE  Holds(r, h[x].data.key, x)
    <3>1. PICK q : q = h[x].data.key
      OBVIOUS
    <3>2. q \in Key
      BY <1>1, <3>1 DEF Pair
    <3>3. Holds(m, q, x) \/ (q = k /\ x = n)
      BY <1>1, <3>1
    <3>4. Holds(r, q, x)
      BY <1>6, <3>2, <3>3
    <3> QED
      BY <3>1, <3>4
  <2> QED
    BY <1>1, <1>6, <2>1, <2>2 DEF Matches
<1>10. WholeCircle(r, Node)
  BY <1>6, <1>7, <1>8 DEF WholeCircle
<1> QED
  BY <1>6, <1>8, <1>9, <1>10 DEF MemoryOK, Placed

\* lru_cache_put of a key that is not there, when there is room.
Stored(r, m, k, data) ==
    /\ MemoryOK(r) /\ r.capacity = m.capacity
    /\ IF HasKey(m, k)
       THEN \E j \in 1 .. m.size :
                /\ Elements(m)[j].key = k
                /\ r.size = m.size
                /\ Elements(r) = WithLast(Without(Elements(m), m.size, j), m.size - 1, data)
       ELSE /\ r.size = m.size + 1
            /\ Elements(r) = WithLast(Elements(m), m.size, data)

LEMMA NewStored ==
    ASSUME NEW m, MemoryOK(m), NEW k \in Key, ~ HasKey(m, k), m.size < m.capacity,
           NEW n \in Node \ DOMAIN m.heap, NEW v \in Value,
           NEW r, r = Store(m, n, k, v), NEW data, data = [key |-> k, val |-> v]
    PROVE  Stored(r, m, k, data)
<1>1. PICK s, z, h : s = Walk(m) /\ z = m.size /\ h = m.heap
  OBVIOUS
<1>2. /\ Circle(m, s) /\ Owns(m, s) /\ z \in Nat /\ DOMAIN h \subseteq Node
      /\ s \in [1 .. z -> DOMAIN h]
      /\ Elements(m) = [i \in 1 .. z |-> h[s[i]].data]
  BY <1>1, CacheNodes
<1>3. PICK a, w : a = AddTail(m, n, data) /\ w = WithLast(s, z, n)
  OBVIOUS
<1>4. Added(a, m, s, w, n, data)
  BY <1>1, <1>2, <1>3, AddTailIsCircle
<1>5. /\ Circle(a, w) /\ Owns(a, w) /\ a.size = z + 1 /\ DOMAIN a.heap = DOMAIN h \union {n}
      /\ a.heap[n].data = data /\ KeepsData(a, m) /\ IsList(a)
      /\ \A x \in DOMAIN h : a.heap[x].data = h[x].data
  BY <1>1, <1>2, <1>4 DEF Added, Circle, KeepsData
<1>6. /\ IsMemory(a) /\ a.capacity = m.capacity /\ a.count = m.count
      /\ \A q, x : Holds(a, q, x) <=> Holds(m, q, x)
  BY <1>5, TableKept DEF MemoryOK
<1>7. r = TablePut(a, k, n)
  BY <1>3 DEF Store
<1>8. Placed(r, a, w)
  <2>1. /\ DOMAIN a.heap \subseteq Node /\ \A x \in DOMAIN a.heap : a.heap[x].data \in Pair
    BY <1>1, <1>2, <1>5 DEF MemoryOK, Pair
  <2>2. a.capacity \in Capacity /\ a.size <= a.capacity /\ a.size = a.count + 1
    <3>1. m.capacity \in Nat
      BY DEF MemoryOK, IsMemory, TableOK
    <3> QED
      BY <1>1, <1>2, <1>5, <1>6, <3>1 DEF MemoryOK
  <2>3. n \in DOMAIN a.heap /\ a.heap[n].data.key = k
    BY <1>5
  <2>4. ASSUME NEW q \in Key, NEW x, Holds(a, q, x)
        PROVE  x \in DOMAIN a.heap /\ a.heap[x].data.key = q /\ q # k
    <3>1. Holds(m, q, x)
      BY <1>6, <2>4
    <3>2. HasKey(m, q)
      BY <3>1, Found DEF MemoryOK, IsMemory
    <3>3. x \in DOMAIN h /\ h[x].data.key = q
      BY <1>1, <3>1 DEF MemoryOK, Matches
    <3> QED
      BY <1>5, <3>2, <3>3
  <2>5. ASSUME NEW x \in DOMAIN a.heap, x # n
        PROVE  Holds(a, a.heap[x].data.key, x)
    <3>1. x \in DOMAIN h /\ a.heap[x].data = h[x].data
      BY <1>5, <2>5
    <3>2. Holds(m, h[x].data.key, x)
      BY <1>1, <3>1 DEF MemoryOK, Matches
    <3> QED
      BY <1>6, <3>1, <3>2
  <2> QED
    BY <1>5, <1>6, <1>7, <2>1, <2>2, <2>3, <2>4, <2>5, EntryPlaced
<1>9. Elements(r) = WithLast(Elements(m), z, data)
  <2>1. PICK u : u = Elements(m)
    OBVIOUS
  <2>2. ASSUME NEW i \in 1 .. z + 1
        PROVE  a.heap[w[i]].data = IF i = z + 1 THEN data ELSE u[i]
    <3>1. CASE i = z + 1
      BY <1>3, <1>5, <3>1 DEF WithLast
    <3>2. CASE i # z + 1
      <4>1. i \in 1 .. z /\ w[i] = s[i] /\ s[i] \in DOMAIN h
        BY <1>2, <1>3, <3>2 DEF WithLast
      <4> QED
        BY <1>2, <1>5, <2>1, <3>2, <4>1
    <3> QED
      BY <3>1, <3>2
  <2>3. Elements(r) = [i \in 1 .. z + 1 |-> a.heap[w[i]].data]
    BY <1>5, <1>8 DEF Placed
  <2> QED
    BY <2>1, <2>2, <2>3 DEF WithLast
<1> QED
  BY <1>1, <1>5, <1>6, <1>8, <1>9 DEF Stored, Placed

\* lru_cache_put of a key that is there: its node leaves the list, the new one
\* joins it, and the table frees the old.
LEMMA OldStored ==
    ASSUME NEW m, MemoryOK(m), NEW k \in Key, HasKey(m, k),
           NEW n \in Node \ DOMAIN m.heap, NEW v \in Value,
           NEW r, r = Store(m, n, k, v), NEW data, data = [key |-> k, val |-> v]
    PROVE  Stored(r, m, k, data)
<1>1. PICK s, z, h : s = Walk(m) /\ z = m.size /\ h = m.heap
  OBVIOUS
<1>2. /\ Circle(m, s) /\ Owns(m, s) /\ z \in Nat /\ DOMAIN h \subseteq Node
      /\ s \in [1 .. z -> DOMAIN h] /\ \A i, j \in 1 .. z : s[i] = s[j] => i = j
      /\ Elements(m) = [i \in 1 .. z |-> h[s[i]].data]
  BY <1>1, CacheNodes
<1>3. PICK j \in 1 .. z : NodeOf(m, k) = s[j] /\ h[s[j]].data.key = k /\ Holds(m, k, s[j])
  BY <1>1, HeldNode
<1>4. PICK u, t, x : u = Unlink(m, s[j]) /\ t = Without(s, z, j) /\ x = s[j]
  OBVIOUS
<1>5. /\ Circle(u, t) /\ u.size = z - 1 /\ DOMAIN u.heap = DOMAIN h
      /\ \A i \in 1 .. z - 1 : t[i] # x
      /\ KeepsData(u, m)
  BY <1>1, <1>2, <1>4, UnlinkIsCircle
<1>6. t = [i \in 1 .. z - 1 |-> IF i < j THEN s[i] ELSE s[i + 1]] /\ x \in DOMAIN h /\ n # x
  BY <1>1, <1>2, <1>4 DEF Without
<1>7. PICK a, w : a = AddTail(u, n, data) /\ w = WithLast(t, z - 1, n)
  OBVIOUS
<1>8. Added(a, u, t, w, n, data)
  BY <1>1, <1>5, <1>7, AddTailIsCircle
<1>9. /\ Circle(a, w) /\ IsList(a) /\ a.size = z /\ DOMAIN a.heap = DOMAIN h \union {n}
      /\ a.heap[n].data = data /\ KeepsData(a, u)
  BY <1>2, <1>5, <1>8 DEF Added, Circle
<1>10. \A y \in DOMAIN h : a.heap[y].data = h[y].data
  BY <1>1, <1>5, <1>9 DEF KeepsData
<1>11. w = [i \in 1 .. z |-> IF i = z THEN n ELSE t[i]]
  <2>1. (z - 1) + 1 = z
    BY <1>2
  <2> QED
    BY <1>7, <2>1 DEF WithLast
<1>12. /\ IsMemory(a) /\ a.capacity = m.capacity /\ a.count = m.count
       /\ \A q, y : Holds(a, q, y) <=> Holds(m, q, y)
  <2>1. /\ IsMemory(u) /\ u.capacity = m.capacity /\ u.count = m.count
        /\ \A q, y : Holds(u, q, y) <=> Holds(m, q, y)
    BY <1>5, TableKept DEF MemoryOK, Circle
  <2> QED
    BY <1>9, <2>1, TableKept
<1>13. PICK e : e = RemoveEntry(a, k)
  OBVIOUS
<1>14. Removed(e, a, k) /\ e.heap = Free(a, x).heap /\ e.count = a.count - 1
  <2>1. Holds(a, k, x)
    BY <1>3, <1>4, <1>12
  <2> QED
    BY <1>12, <1>13, <2>1, EntryRemoved
<1>15. r = TablePut(e, k, n)
  <2>1. r = TablePut(a, k, n)
    BY <1>3, <1>4, <1>7 DEF Store
  <2>2. \A y : ~ Holds(e, k, y)
    BY <1>14 DEF Removed
  <2>3. ~ HasKey(e, k)
    BY <1>14, <2>2, Found DEF Removed, IsMemory
  <2>4. RemoveEntry(e, k) = e
    BY <2>3 DEF RemoveEntry
  <2>5. BucketOf(e, k) = BucketOf(a, k)
    BY <1>14, SameBuckets DEF Removed
  <2> QED
    BY <1>13, <2>1, <2>4, <2>5 DEF TablePut
<1>16. ASSUME NEW i \in 1 .. z
       PROVE  w[i] # x
  <2>1. CASE i = z
    BY <1>6, <1>11, <2>1
  <2>2. CASE i # z
    <3>1. i \in 1 .. z - 1
      BY <1>2, <2>2
    <3>2. w[i] = t[i] /\ t[i] # x
      BY <1>5, <1>11, <2>2, <3>1
    <3> QED
      BY <3>2
  <2> QED
    BY <2>1, <2>2
<1>17. PICK f : f = Free(a, x)
  OBVIOUS
<1>18. /\ Circle(f, w) /\ f.size = a.size /\ DOMAIN f.heap = DOMAIN a.heap \ {x}
       /\ f.head = a.head /\ \A y \in DOMAIN f.heap : f.heap[y].data = a.heap[y].data
  <2>1. Circle(f, w) /\ f.size = a.size /\ DOMAIN f.heap = DOMAIN a.heap \ {x} /\ KeepsData(f, a)
    BY <1>9, <1>16, <1>17, FreeIsCircle
  <2>2. f.head = a.head
    <3>1. "head" \in DOMAIN a \ {"heap"}
      BY <1>9 DEF IsList, ListFields
    <3>2. \A g \in DOMAIN a \ {"heap"} : f[g] = a[g]
      BY <1>9, <1>17, FreedList
    <3> QED
      BY <3>1, <3>2
  <2> QED
    BY <2>1, <2>2 DEF KeepsData
<1>19. /\ IsMemory(e) /\ e.heap = f.heap /\ e.head = f.head /\ e.size = z
       /\ e.capacity = m.capacity /\ e.count = m.count - 1
       /\ \A q \in Key : \A y : Holds(e, q, y) <=> Holds(m, q, y) /\ q # k
  BY <1>9, <1>12, <1>14, <1>17, <1>18 DEF Removed
<1>20. /\ DOMAIN e.heap = (DOMAIN h \union {n}) \ {x} /\ e.heap[n].data = data
       /\ \A y \in DOMAIN h \ {x} : e.heap[y].data = h[y].data
  BY <1>6, <1>9, <1>10, <1>18, <1>19
<1>21. Circle(e, w) /\ Owns(e, w)
  <2>1. Circle(e, w)
    BY <1>9, <1>18, <1>19, SameCircle DEF IsMemory
  <2>2. ASSUME NEW y \in DOMAIN e.heap
        PROVE  \E i \in 1 .. z : w[i] = y
    <3>1. CASE y = n
      BY <1>2, <1>11, <3>1
    <3>2. CASE y # n
      <4>1. y \in DOMAIN h /\ y # x
        BY <1>20, <2>2, <3>2
      <4>2. PICK i \in 1 .. z : s[i] = y
        BY <1>1, <1>2, <4>1 DEF Owns
      <4>3. i # j
        BY <1>4, <4>1, <4>2
      <4>4. PICK l : l = IF i < j THEN i ELSE i - 1
        OBVIOUS
      <4>5. l \in 1 .. z - 1 /\ l \in 1 .. z /\ l # z /\ (IF l < j THEN l ELSE l + 1) = i
        BY <1>2, <4>3, <4>4
      <4>6. w[l] = s[i]
        BY <1>6, <1>11, <4>5
      <4> QED
        BY <4>2, <4>5, <4>6
    <3> QED
      BY <3>1, <3>2
  <2> QED
    BY <1>19, <2>1, <2>2 DEF Owns
<1>22. Placed(r, e, w)
  <2>1. DOMAIN e.heap \subseteq Node /\ \A y \in DOMAIN e.heap : e.heap[y].data \in Pair
    BY <1>1, <1>2, <1>20 DEF MemoryOK, Pair
  <2>2. e.capacity \in Capacity /\ e.size <= e.capacity /\ e.size = e.count + 1
    <3>1. m.capacity \in Nat
      BY DEF MemoryOK, IsMemory, TableOK
    <3> QED
      BY <1>1, <1>2, <1>19, <3>1 DEF MemoryOK
  <2>3. n \in DOMAIN e.heap /\ e.heap[n].data.key = k
    BY <1>6, <1>20
  <2>4. ASSUME NEW q \in Key, NEW y, Holds(e, q, y)
        PROVE  y \in DOMAIN e.heap /\ e.heap[y].data.key = q /\ q # k
    <3>1. Holds(m, q, y) /\ q # k
      BY <1>19, <2>4
    <3>2. y \in DOMAIN h /\ h[y].data.key = q
      BY <1>1, <3>1 DEF MemoryOK, Matches
    <3>3. y # x
      BY <1>3, <1>4, <3>1, <3>2
    <3> QED
      BY <1>20, <3>1, <3>2, <3>3
  <2>5. ASSUME NEW y \in DOMAIN e.heap, y # n
        PROVE  Holds(e, e.heap[y].data.key, y)
    <3>1. y \in DOMAIN h /\ y # x
      BY <1>20, <2>5
    <3>2. PICK q : q = h[y].data.key
      OBVIOUS
    <3>3. q \in Key /\ Holds(m, q, y)
      BY <1>1, <3>1, <3>2 DEF MemoryOK, Matches, Pair
    <3>4. q # k
      BY <1>1, <1>3, <1>4, <1>6, <3>1, <3>2, OneNodeEach
    <3>5. e.heap[y].data = h[y].data
      BY <1>20, <3>1
    <3> QED
      BY <1>19, <3>2, <3>3, <3>4, <3>5
  <2> QED
    BY <1>15, <1>19, <1>21, <2>1, <2>2, <2>3, <2>4, <2>5, EntryPlaced
<1>23. Elements(r) = WithLast(Without(Elements(m), z, j), z - 1, data)
  <2>1. PICK o, p : o = Elements(m) /\ p = Without(o, z, j)
    OBVIOUS
  <2>2. p = [i \in 1 .. z - 1 |-> IF i < j THEN o[i] ELSE o[i + 1]]
    BY <2>1 DEF Without
  <2>3. ASSUME NEW i \in 1 .. z
        PROVE  e.heap[w[i]].data = IF i = z THEN data ELSE p[i]
    <3>1. CASE i = z
      BY <1>11, <1>20, <3>1
    <3>2. CASE i # z
      <4>1. PICK l \in 1 .. z : l = IF i < j THEN i ELSE i + 1
        BY <1>2, <3>2
      <4>2. i \in 1 .. z - 1
        BY <1>2, <3>2
      <4>3. w[i] = s[l] /\ p[i] = o[l] /\ w[i] # x
        BY <1>6, <1>11, <1>16, <2>2, <3>2, <4>1, <4>2
      <4>4. s[l] \in DOMAIN h /\ o[l] = h[s[l]].data
        BY <1>2, <2>1
      <4>5. e.heap[s[l]].data = h[s[l]].data
        BY <1>20, <4>3, <4>4
      <4> QED
        BY <3>2, <4>3, <4>4, <4>5
    <3> QED
      BY <3>1, <3>2
  <2>4. Elements(r) = [i \in 1 .. z |-> e.heap[w[i]].data]
    BY <1>19, <1>22 DEF Placed
  <2>5. (z - 1) + 1 = z
    BY <1>2
  <2> QED
    BY <2>1, <2>3, <2>4, <2>5 DEF WithLast
<1>24. Elements(m)[j].key = k
  BY <1>2, <1>3
<1> QED
  BY <1>1, <1>19, <1>22, <1>23, <1>24 DEF Stored, Placed

\* The key of the head makes room.
LEMMA HeadTakenOut ==
    ASSUME NEW m, MemoryOK(m), m.size # 0, NEW k, k = m.heap[m.head].data.key
    PROVE  /\ k \in Key /\ TakenOut(EvictHead(m), m, k) /\ Elements(m)[1].key = k
           /\ \A j \in 1 .. m.size : NodeOf(m, k) = Walk(m)[j] => j = 1
<1>1. PICK s, z, h : s = Walk(m) /\ z = m.size /\ h = m.heap
  OBVIOUS
<1>2. /\ Circle(m, s) /\ z \in Nat
      /\ s \in [1 .. z -> DOMAIN h] /\ \A i, j \in 1 .. z : s[i] = s[j] => i = j
      /\ Elements(m) = [i \in 1 .. z |-> h[s[i]].data]
  BY <1>1, CacheNodes
<1>3. m.head = s[1] /\ 1 \in 1 .. z /\ s[1] \in DOMAIN h
  BY <1>1, <1>2 DEF Circle
<1>4. k \in Key /\ HasKey(m, k) /\ NodeOf(m, k) = s[1]
  BY <1>1, <1>3, OneNodeEach
<1>5. EvictHead(m) = RemoveEntry(Unlink(m, NodeOf(m, k)), k)
  BY <1>3, <1>4 DEF EvictHead
<1>6. TakenOut(EvictHead(m), m, k)
  BY <1>4, <1>5, KeyTakenOut
<1> QED
  BY <1>1, <1>2, <1>3, <1>4, <1>6
-----------------------------------------------------------------------------
(***************************************************************************)
(* ht_free.  While it runs, the nodes that are left are those the table    *)
(* still holds; the walk along a bucket leaves nothing of it.              *)
(***************************************************************************)
Freeing(f, m) ==
    /\ IsMemory(f) /\ f.capacity = m.capacity
    /\ \A x \in DOMAIN f.heap : x \in DOMAIN m.heap /\ Holds(f, m.heap[x].data.key, x)

\* f has no entry that g had not, and none of the keys.
FreedOf(f, g, keys) == \A q \in Key : \A x : Holds(f, q, x) => Holds(g, q, x) /\ q \notin keys

LEMMA EntryFreed ==
    ASSUME NEW m, MemoryOK(m), NEW f, Freeing(f, m), NEW k \in Key, NEW r, r = RemoveEntry(f, k)
    PROVE  Freeing(r, m) /\ FreedOf(r, f, {k})
<1>1. IsMemory(f) /\ TableOK(f)
  BY DEF Freeing, IsMemory
<1>2. CASE ~ HasKey(f, k)
  <2>1. r = f
    BY <1>2 DEF RemoveEntry
  <2>2. \A x : ~ Holds(f, k, x)
    BY <1>1, <1>2, Found
  <2> QED
    BY <2>1, <2>2 DEF FreedOf
<1>3. CASE HasKey(f, k)
  <2>1. PICK x : Holds(f, k, x) /\ \A y : Holds(f, k, y) => y = x
    BY <1>1, <1>3, Found
  <2>2. Removed(r, f, k) /\ r.heap = Free(f, x).heap
    BY <1>1, <2>1, EntryRemoved
  <2>3. DOMAIN r.heap = DOMAIN f.heap \ {x}
    BY <1>1, <2>2, FreedList DEF IsMemory
  <2>4. \A q \in Key : \A y : Holds(r, q, y) <=> Holds(f, q, y) /\ q # k
    BY <2>2 DEF Removed
  <2>5. ASSUME NEW y \in DOMAIN r.heap
        PROVE  y \in DOMAIN m.heap /\ Holds(r, m.heap[y].data.key, y)
    <3>1. PICK q : q = m.heap[y].data.key
      OBVIOUS
    <3>2. y # x /\ y \in DOMAIN m.heap /\ Holds(f, q, y)
      BY <2>3, <3>1 DEF Freeing
    <3>3. q \in Key
      BY <3>1, <3>2 DEF MemoryOK, Pair
    <3> QED
      BY <2>1, <2>4, <3>1, <3>2, <3>3
  <2>6. IsMemory(r) /\ r.capacity = m.capacity
    BY <2>2 DEF Removed, Freeing
  <2>7. Freeing(r, m)
    BY <2>5, <2>6 DEF Freeing
  <2>8. FreedOf(r, f, {k})
    BY <2>4 DEF FreedOf
  <2> QED
    BY <2>7, <2>8
<1> QED
  BY <1>2, <1>3

\* The walk along the entries c.
WalksBucket(f, c, g, n) ==
    g = [i \in 0 .. n |-> IF i = 0 THEN f ELSE RemoveEntry(g[i - 1], c[i].key)]

LEMMA BucketWalkExists ==
    ASSUME NEW f, NEW c
    PROVE  \A n \in Nat : \E g : WalksBucket(f, c, g, n)
<1> DEFINE T == {n \in Nat : ~ \E g : WalksBucket(f, c, g, n)}
<1> SUFFICES ASSUME T # {}
             PROVE  FALSE
  OBVIOUS
<1>1. PICK n \in T : \A j \in T : n <= j
  <2>1. T \in SUBSET Nat
    OBVIOUS
  <2> HIDE DEF T
  <2> QED
    BY <2>1, LeastNumber
<1>2. n # 0
  <2>1. PICK g : g = [i \in 0 .. 0 |-> f]
    OBVIOUS
  <2>2. g = [i \in 0 .. 0 |-> IF i = 0 THEN f ELSE RemoveEntry(g[i - 1], c[i].key)]
    <3>1. \A i \in 0 .. 0 : i = 0
      OBVIOUS
    <3> QED
      BY <2>1, <3>1
  <2> QED
    BY <1>1, <2>2 DEF WalksBucket
<1>3. n - 1 \in Nat /\ n - 1 \notin T
  BY <1>1, <1>2
<1>4. PICK g : WalksBucket(f, c, g, n - 1)
  BY <1>3
<1>5. PICK h : h = [i \in 0 .. n |-> IF i = n THEN RemoveEntry(g[n - 1], c[n].key) ELSE g[i]]
  OBVIOUS
<1>6. ASSUME NEW i \in 0 .. n
      PROVE  h[i] = IF i = 0 THEN f ELSE RemoveEntry(h[i - 1], c[i].key)
  <2>1. g = [l \in 0 .. n - 1 |-> IF l = 0 THEN f ELSE RemoveEntry(g[l - 1], c[l].key)]
    BY <1>4 DEF WalksBucket
  <2>2. n \in Nat /\ n # 0 /\ \A l \in 0 .. n - 1 : l \in 0 .. n /\ l # n
    BY <1>1, <1>2
  <2>3. \A l \in 0 .. n - 1 : h[l] = g[l]
    BY <1>5, <2>2
  <2>4. i # 0 => i - 1 \in 0 .. n - 1
    BY <2>2
  <2>5. CASE i = n
    <3>1. h[n] = RemoveEntry(g[n - 1], c[n].key) /\ h[n - 1] = g[n - 1]
      BY <1>5, <2>2, <2>3, <2>4, <2>5
    <3> QED
      BY <2>2, <2>5, <3>1
  <2>6. CASE i # n
    <3>1. i \in 0 .. n - 1
      BY <2>2, <2>6
    <3>2. h[i] = IF i = 0 THEN f ELSE RemoveEntry(g[i - 1], c[i].key)
      BY <2>1, <2>3, <3>1
    <3> QED
      BY <2>3, <2>4, <3>2
  <2> QED
    BY <2>5, <2>6
<1>7. WalksBucket(f, c, h, n)
  BY <1>5, <1>6 DEF WalksBucket
<1> QED
  BY <1>1, <1>7

BucketWalked(r, f, m, c, n) == Freeing(r, m) /\ FreedOf(r, f, {c[i].key : i \in 1 .. n})

LEMMA BucketWalk ==
    ASSUME NEW m, MemoryOK(m), NEW f, Freeing(f, m), NEW n \in Nat,
           NEW c, \A i \in 1 .. n : c[i].key \in Key, NEW g, WalksBucket(f, c, g, n)
    PROVE  BucketWalked(g[n], f, m, c, n)
<1> DEFINE Good(i) == BucketWalked(g[i], f, m, c, i)
           T == {i \in 0 .. n : ~ Good(i)}
<1>0. n \in 0 .. n
  OBVIOUS
<1> SUFFICES ASSUME T # {}
             PROVE  FALSE
  BY <1>0
<1>1. PICK i \in T : \A j \in T : i <= j
  <2>1. T \in SUBSET Nat
    OBVIOUS
  <2> HIDE DEF T
  <2> QED
    BY <2>1, LeastNumber
<1>2. g[0] = f /\ \A l \in 1 .. n : g[l] = RemoveEntry(g[l - 1], c[l].key)
  BY DEF WalksBucket
<1>3. i # 0
  <2>1. Good(0)
    BY <1>2 DEF FreedOf, BucketWalked
  <2> QED
    BY <1>1, <2>1
<1>4. i \in 1 .. n /\ i - 1 \in 0 .. n /\ ~ (i <= i - 1)
  BY <1>1, <1>3
<1>5. Good(i - 1)
  <2>1. i - 1 \notin T
    BY <1>1, <1>4
  <2> QED
    BY <1>4, <2>1
<1>6. PICK a, b, k : a = g[i - 1] /\ b = g[i] /\ k = c[i].key
  OBVIOUS
<1>7. Freeing(b, m) /\ FreedOf(b, a, {k})
  <2>1. b = RemoveEntry(a, k) /\ k \in Key /\ Freeing(a, m)
    BY <1>2, <1>4, <1>5, <1>6 DEF BucketWalked
  <2> QED
    BY <2>1, EntryFreed
<1>8. FreedOf(b, f, {c[l].key : l \in 1 .. i})
  <2>1. \A l \in 1 .. i : l = i \/ l \in 1 .. i - 1
    BY <1>4
  <2>2. FreedOf(a, f, {c[l].key : l \in 1 .. i - 1})
    BY <1>5, <1>6 DEF BucketWalked
  <2> QED
    BY <1>6, <1>7, <2>1, <2>2 DEF FreedOf
<1>9. Good(i)
  BY <1>6, <1>7, <1>8 DEF BucketWalked
<1> QED
  BY <1>1, <1>9

LEMMA BucketFreed ==
    ASSUME NEW m, MemoryOK(m), NEW f, Freeing(f, m), NEW b \in Buckets(m),
           NEW r, r = FreeBucket(f, b)
    PROVE  Freeing(r, m) /\ FreedOf(r, f, {k \in Key : BucketOf(m, k) = b})
<1>1. PICK c, n : c = f.table[b] /\ n = Len(c)
  OBVIOUS
<1>2. BucketOK(f, b, c) /\ f.capacity = m.capacity
  BY <1>1, SameBuckets DEF Freeing, IsMemory, TableOK
<1>3. /\ n \in Nat /\ DOMAIN c = 1 .. n /\ c \in Seq(TableEntry)
      /\ \A i \in 1 .. n : c[i] \in TableEntry /\ c[i].key \in Key
  <2>1. \A e \in TableEntry : e.key \in Key
    BY DEF TableEntry
  <2> QED
    BY <1>1, <1>2, <2>1 DEF BucketOK
<1> DEFINE freed == CHOOSE g : g = [i \in 0 .. n |-> IF i = 0 THEN f ELSE RemoveEntry(g[i - 1], c[i].key)]
<1>4. WalksBucket(f, c, freed, n)
  <2>1. \E g : WalksBucket(f, c, g, n)
    BY <1>3, BucketWalkExists
  <2> QED
    BY <2>1 DEF WalksBucket
<1>5. r = freed[n]
  BY <1>1 DEF FreeBucket
<1> HIDE DEF freed
<1>6. Freeing(r, m) /\ FreedOf(r, f, {c[i].key : i \in 1 .. n})
  <2>1. BucketWalked(freed[n], f, m, c, n)
    BY <1>3, <1>4, BucketWalk
  <2> QED
    BY <1>5, <2>1 DEF BucketWalked
<1>7. ASSUME NEW q \in Key, NEW x, Holds(r, q, x)
      PROVE  Holds(f, q, x) /\ BucketOf(m, q) # b
  <2>1. Holds(f, q, x) /\ \A i \in 1 .. n : q # c[i].key
    BY <1>6, <1>7 DEF FreedOf
  <2>2. ASSUME BucketOf(m, q) = b
        PROVE  FALSE
    <3>1. BucketOf(f, q) = b
      BY <1>2, <2>2, SameBuckets
    <3>2. PICK i \in DOMAIN c : c[i] = [key |-> q, node |-> x]
      BY <1>1, <2>1, <3>1 DEF Holds, Range
    <3>3. i \in 1 .. n /\ c[i].key = q
      BY <1>3, <3>2
    <3> QED
      BY <2>1, <3>3
  <2> QED
    BY <2>1, <2>2
<1> QED
  BY <1>6, <1>7 DEF FreedOf

\* The walk along the buckets.
WalksTable(m, g, n) == g = [b \in 0 .. n |-> IF b = 0 THEN m ELSE FreeBucket(g[b - 1], b - 1)]

LEMMA TableWalkExists ==
    ASSUME NEW m
    PROVE  \A n \in Nat : \E g : WalksTable(m, g, n)
<1> DEFINE T == {n \in Nat : ~ \E g : WalksTable(m, g, n)}
<1> SUFFICES ASSUME T # {}
             PROVE  FALSE
  OBVIOUS
<1>1. PICK n \in T : \A j \in T : n <= j
  <2>1. T \in SUBSET Nat
    OBVIOUS
  <2> HIDE DEF T
  <2> QED
    BY <2>1, LeastNumber
<1>2. n # 0
  <2>1. PICK g : g = [b \in 0 .. 0 |-> m]
    OBVIOUS
  <2>2. g = [b \in 0 .. 0 |-> IF b = 0 THEN m ELSE FreeBucket(g[b - 1], b - 1)]
    <3>1. \A b \in 0 .. 0 : b = 0
      OBVIOUS
    <3> QED
      BY <2>1, <3>1
  <2> QED
    BY <1>1, <2>2 DEF WalksTable
<1>3. n - 1 \in Nat /\ n - 1 \notin T
  BY <1>1, <1>2
<1>4. PICK g : WalksTable(m, g, n - 1)
  BY <1>3
<1>5. PICK h : h = [b \in 0 .. n |-> IF b = n THEN FreeBucket(g[n - 1], n - 1) ELSE g[b]]
  OBVIOUS
<1>6. ASSUME NEW b \in 0 .. n
      PROVE  h[b] = IF b = 0 THEN m ELSE FreeBucket(h[b - 1], b - 1)
  <2>1. g = [l \in 0 .. n - 1 |-> IF l = 0 THEN m ELSE FreeBucket(g[l - 1], l - 1)]
    BY <1>4 DEF WalksTable
  <2>2. n \in Nat /\ n # 0 /\ \A l \in 0 .. n - 1 : l \in 0 .. n /\ l # n
    BY <1>1, <1>2
  <2>3. \A l \in 0 .. n - 1 : h[l] = g[l]
    BY <1>5, <2>2
  <2>4. b # 0 => b - 1 \in 0 .. n - 1
    BY <2>2
  <2>5. CASE b = n
    <3>1. h[n] = FreeBucket(g[n - 1], n - 1) /\ h[n - 1] = g[n - 1]
      BY <1>5, <2>2, <2>3, <2>4, <2>5
    <3> QED
      BY <2>2, <2>5, <3>1
  <2>6. CASE b # n
    <3>1. b \in 0 .. n - 1
      BY <2>2, <2>6
    <3>2. h[b] = IF b = 0 THEN m ELSE FreeBucket(g[b - 1], b - 1)
      BY <2>1, <2>3, <3>1
    <3> QED
      BY <2>3, <2>4, <3>2
  <2> QED
    BY <2>5, <2>6
<1>7. WalksTable(m, h, n)
  BY <1>5, <1>6 DEF WalksTable
<1> QED
  BY <1>1, <1>7

TableWalked(f, m, n) == Freeing(f, m) /\ FreedOf(f, m, {k \in Key : BucketOf(m, k) < n})

LEMMA TableWalk ==
    ASSUME NEW m, MemoryOK(m), NEW n, n = m.capacity, NEW g, WalksTable(m, g, n)
    PROVE  TableWalked(g[n], m, n)
<1> DEFINE Good(b) == TableWalked(g[b], m, b)
           T == {b \in 0 .. n : ~ Good(b)}
<1>1. n \in Nat /\ n \in 0 .. n /\ \A k \in Key : BucketOf(m, k) \in 0 .. n - 1
  BY Bucketed DEF MemoryOK, IsMemory, TableOK, Buckets
<1> SUFFICES ASSUME T # {}
             PROVE  FALSE
  BY <1>1
<1>2. PICK b \in T : \A j \in T : b <= j
  <2>1. T \in SUBSET Nat
    BY <1>1
  <2> HIDE DEF T
  <2> QED
    BY <2>1, LeastNumber
<1>3. g[0] = m /\ \A l \in 1 .. n : g[l] = FreeBucket(g[l - 1], l - 1)
  BY <1>1 DEF WalksTable
<1>4. b # 0
  <2>1. Freeing(m, m)
    BY DEF Freeing, MemoryOK, Matches
  <2>2. FreedOf(m, m, {k \in Key : BucketOf(m, k) < 0})
    BY <1>1 DEF FreedOf
  <2>3. Good(0)
    BY <1>3, <2>1, <2>2 DEF TableWalked
  <2> QED
    BY <1>2, <2>3
<1>5. b \in 1 .. n /\ b - 1 \in 0 .. n /\ b - 1 \in 0 .. n - 1 /\ ~ (b <= b - 1)
  BY <1>1, <1>2, <1>4
<1>6. Good(b - 1)
  <2>1. b - 1 \notin T
    BY <1>2, <1>5
  <2> QED
    BY <1>5, <2>1
<1>7. PICK f, r, a : f = g[b - 1] /\ r = g[b] /\ a = b - 1
  OBVIOUS
<1>8. Freeing(r, m) /\ FreedOf(r, f, {k \in Key : BucketOf(m, k) = a})
  <2>1. r = FreeBucket(f, a) /\ a \in Buckets(m) /\ Freeing(f, m)
    BY <1>3, <1>5, <1>6, <1>7 DEF Buckets, TableWalked
  <2> QED
    BY <2>1, BucketFreed
<1>9. FreedOf(r, m, {k \in Key : BucketOf(m, k) < b})
  <2>1. \A k \in Key : BucketOf(m, k) < b => BucketOf(m, k) = a \/ BucketOf(m, k) < a
    BY <1>1, <1>5, <1>7
  <2>2. FreedOf(f, m, {k \in Key : BucketOf(m, k) < a})
    BY <1>6, <1>7 DEF TableWalked
  <2> QED
    BY <1>8, <2>1, <2>2 DEF FreedOf
<1>10. Good(b)
  BY <1>7, <1>8, <1>9 DEF TableWalked
<1> QED
  BY <1>2, <1>10

\* Every node is freed with the table, and so with the cache.
LEMMA AllFreed ==
    ASSUME NEW m, MemoryOK(m)
    PROVE  FreeTable(m).heap = << >>
<1>1. PICK n : n = m.capacity
  OBVIOUS
<1>2. n \in Nat /\ \A k \in Key : BucketOf(m, k) < n
  <2>1. n \in Nat /\ \A k \in Key : BucketOf(m, k) \in 0 .. n - 1
    BY <1>1, Bucketed DEF MemoryOK, IsMemory, TableOK, Buckets
  <2> QED
    BY <2>1
<1> DEFINE freed == CHOOSE g : g = [b \in 0 .. n |-> IF b = 0 THEN m ELSE FreeBucket(g[b - 1], b - 1)]
<1>3. WalksTable(m, freed, n)
  <2>1. \E g : WalksTable(m, g, n)
    BY <1>2, TableWalkExists
  <2> QED
    BY <2>1 DEF WalksTable
<1>4. FreeTable(m) = freed[n]
  BY <1>1 DEF FreeTable
<1> HIDE DEF freed
<1>5. PICK f : f = FreeTable(m) /\ TableWalked(f, m, n)
  <2>1. TableWalked(freed[n], m, n)
    BY <1>1, <1>3, TableWalk
  <2> QED
    BY <1>4, <2>1
<1>6. ASSUME NEW x \in DOMAIN f.heap
      PROVE  FALSE
  <2>1. PICK k : k = m.heap[x].data.key
    OBVIOUS
  <2>2. x \in DOMAIN m.heap /\ Holds(f, k, x)
    BY <1>5, <2>1 DEF TableWalked, Freeing
  <2>3. k \in Key
    BY <2>1, <2>2 DEF MemoryOK, Pair
  <2> QED
    BY <1>2, <1>5, <2>2, <2>3 DEF TableWalked, FreedOf
<1>7. PICK h : h = f.heap /\ h = [x \in DOMAIN h |-> h[x]]
  BY <1>5 DEF TableWalked, Freeing, IsMemory, IsList
<1>8. h \in [{} -> {}]
  BY <1>6, <1>7
<1>9. h = << >>
  BY <1>8
<1> QED
  BY <1>5, <1>7, <1>9
-----------------------------------------------------------------------------
(***************************************************************************)
(* The steps.                                                              *)
(***************************************************************************)
\* init_lru_cache
LEMMA NewCache ==
    ASSUME NEW c \in Capacity, NEW m, m = EmptyCache(c, << >>)
    PROVE  MemoryOK(m) /\ m.capacity = c /\ m.size = 0 /\ Elements(m) = << >>
<1>1. c \in Nat /\ c # 0
  BY HeapConstants
<1>2. m = [heap |-> << >>, head |-> Null, size |-> 0, capacity |-> c,
           table |-> [b \in 0 .. c - 1 |-> <<>>], count |-> 0]
  BY DEF EmptyCache, EmptyList
<1>3. /\ IsList(m) /\ DOMAIN m = {"heap", "head", "size", "capacity", "table", "count"}
      /\ m.heap = << >> /\ m.head = Null /\ m.size = 0 /\ m.capacity = c /\ m.count = 0
      /\ m.table = [b \in 0 .. c - 1 |-> <<>>]
  <2>1. /\ DOMAIN m = {"heap", "head", "size", "capacity", "table", "count"}
        /\ m.heap = << >> /\ m.head = Null /\ m.size = 0 /\ m.capacity = c /\ m.count = 0
        /\ m.table = [b \in 0 .. c - 1 |-> <<>>]
    <3>1. PICK h, t : h = << >> /\ t = [b \in 0 .. c - 1 |-> <<>>]
      OBVIOUS
    <3>2. m = [heap |-> h, head |-> Null, size |-> 0, capacity |-> c, table |-> t, count |-> 0]
      BY <1>2, <3>1
    <3>3. /\ DOMAIN m = {"heap", "head", "size", "capacity", "table", "count"}
          /\ m.heap = h /\ m.head = Null /\ m.size = 0 /\ m.capacity = c /\ m.count = 0
          /\ m.table = t
      BY <3>2
    <3> QED
      BY <3>1, <3>3
  <2>2. m = [f \in DOMAIN m |-> m[f]]
    BY <1>2
  <2>3. << >> = [x \in DOMAIN << >> |-> << >>[x]]
    OBVIOUS
  <2>4. m.heap = [x \in DOMAIN m.heap |-> m.heap[x]]
    BY <2>1, <2>3
  <2>5. ListFields \subseteq DOMAIN m /\ m.size \in Nat
    BY <2>1 DEF ListFields
  <2>6. IsList(m)
    BY <2>2, <2>4, <2>5 DEF IsList
  <2> QED
    BY <2>1, <2>6
<1>4. TableOK(m)
  <2>1. \A b : BucketOK(m, b, << >>)
    BY DEF BucketOK
  <2> QED
    BY <1>1, <1>3, <2>1 DEF TableOK, Buckets
<1>5. \A q \in Key : \A x : ~ Holds(m, q, x)
  <2>1. \A q \in Key : BucketOf(m, q) \in 0 .. c - 1
    BY <1>1, <1>3, Bucketed DEF Buckets
  <2>2. \A q \in Key : m.table[BucketOf(m, q)] = << >>
    BY <1>3, <2>1
  <2>3. Range(<< >>) = {}
    BY DEF Range
  <2> QED
    BY <2>2, <2>3 DEF Holds
<1>6. Circle(m, << >>) /\ Owns(m, << >>)
  BY <1>3 DEF Circle, Owns, Names
<1>7. Walk(m) = << >> /\ Elements(m) = << >>
  BY <1>3, <1>6, WalkOf DEF ReadAs
<1>8. WholeCircle(m, Node)
  BY <1>3, <1>6, <1>7 DEF WholeCircle
<1>9. Matches(m)
  BY <1>3, <1>5 DEF Matches
<1> QED
  BY <1>1, <1>3, <1>4, <1>7, <1>8, <1>9 DEF MemoryOK, IsMemory

\* What a cache holds, as the sequence the server's caches are modelled by.
EntriesOK(c, n) == c \in Seq(Pair) /\ Len(c) = n /\ DOMAIN c = 1 .. n /\ KeysUnique(c)

LEMMA CacheEntries ==
    ASSUME NEW m, MemoryOK(m), NEW c, c = Elements(m)
    PROVE  /\ EntriesOK(c, m.size) /\ m.size \in Nat
           /\ \A k \in Key : HasKey(m, k) <=> IsCached(c, k)
<1>1. PICK s, n, h : s = Walk(m) /\ n = m.size /\ h = m.heap
  OBVIOUS
<1>2. /\ Owns(m, s) /\ n \in Nat /\ s \in [1 .. n -> DOMAIN h]
      /\ \A i, j \in 1 .. n : s[i] = s[j] => i = j
      /\ c = [i \in 1 .. n |-> h[s[i]].data] /\ \A i \in 1 .. n : h[s[i]].data \in Pair
  BY <1>1, CacheNodes
<1>3. c \in Seq(Pair) /\ Len(c) = n /\ DOMAIN c = 1 .. n
  <2>1. c \in [1 .. n -> Pair]
    BY <1>2
  <2> QED
    BY <1>2, <2>1
<1>4. /\ \A x, y \in DOMAIN h : h[x].data.key = h[y].data.key => x = y
      /\ \A k \in Key : HasKey(m, k) <=> \E x \in DOMAIN h : h[x].data.key = k
  BY <1>1, OneNodeEach
<1>5. KeysUnique(c)
  BY <1>2, <1>3, <1>4 DEF KeysUnique
<1>6. ASSUME NEW k \in Key
      PROVE  HasKey(m, k) <=> IsCached(c, k)
  <2>1. ASSUME HasKey(m, k)
        PROVE  IsCached(c, k)
    <3>1. PICK x \in DOMAIN h : h[x].data.key = k
      BY <1>4, <2>1
    <3>2. PICK i \in 1 .. n : s[i] = x
      BY <1>1, <1>2 DEF Owns
    <3> QED
      BY <1>2, <1>3, <3>1, <3>2 DEF IsCached
  <2>2. ASSUME IsCached(c, k)
        PROVE  HasKey(m, k)
    <3>1. PICK i \in 1 .. n : c[i].key = k
      BY <1>3, <2>2 DEF IsCached
    <3>2. s[i] \in DOMAIN h /\ h[s[i]].data.key = k
      BY <1>2, <3>1
    <3> QED
      BY <1>4, <3>2
  <2> QED
    BY <2>1, <2>2
<1> QED
  BY <1>1, <1>2, <1>3, <1>5, <1>6 DEF EntriesOK

\* The calls on a sequence are those on the nodes.
LEMMA RemoveIsWithout ==
    ASSUME NEW c, NEW n \in Nat, EntriesOK(c, n), NEW j \in 1 .. n, NEW k, c[j].key = k
    PROVE  LruRemove(c, k) = Without(c, n, j) /\ Len(LruRemove(c, k)) = n - 1
<1>1. IsCached(c, k) /\ c \in Seq(Pair) /\ Len(c) = n /\ DOMAIN c = 1 .. n
  BY DEF IsCached, EntriesOK
<1>2. KeyIndex(c, k) = j
  BY <1>1, KeyIndexFacts DEF EntriesOK, KeysUnique
<1>3. PICK d : d = RemoveAt(c, j)
  OBVIOUS
<1>4. /\ d \in Seq(Pair) /\ Len(d) = n - 1
      /\ \A i \in 1 .. n - 1 : d[i] = c[IF i < j THEN i ELSE i + 1]
  BY <1>1, <1>3, RemoveAtFacts
<1>5. LruRemove(c, k) = d
  BY <1>1, <1>2, <1>3 DEF LruRemove
<1>6. d = [i \in 1 .. n - 1 |-> IF i < j THEN c[i] ELSE c[i + 1]]
  <2>1. d = [i \in 1 .. n - 1 |-> d[i]]
    BY <1>4
  <2> QED
    BY <1>4, <2>1
<1> QED
  BY <1>4, <1>5, <1>6 DEF Without

LEMMA AppendIsWithLast ==
    ASSUME NEW c, NEW n \in Nat, c \in Seq(Pair), Len(c) = n, NEW e \in Pair
    PROVE  Append(c, e) = WithLast(c, n, e)
<1>1. PICK d : d = Append(c, e)
  OBVIOUS
<1>2. /\ d \in Seq(Pair) /\ Len(d) = n + 1 /\ d[n + 1] = e
      /\ \A i \in 1 .. n : d[i] = c[i]
  BY <1>1, AppendProperties
<1>3. d = [i \in 1 .. n + 1 |-> d[i]]
  BY <1>2
<1>4. \A i \in 1 .. n + 1 : i = n + 1 \/ i \in 1 .. n
  OBVIOUS
<1>5. d = [i \in 1 .. n + 1 |-> IF i = n + 1 THEN e ELSE c[i]]
  BY <1>2, <1>3, <1>4
<1> QED
  BY <1>1, <1>5 DEF WithLast

LEMMA TailIsWithout ==
    ASSUME NEW c, NEW n \in Nat, c \in Seq(Pair), Len(c) = n, n # 0
    PROVE  Tail(c) = Without(c, n, 1) /\ Head(c) = c[1]
<1>1. c # << >>
  OBVIOUS
<1>2. PICK d : d = Tail(c)
  OBVIOUS
<1>3. d \in Seq(Pair) /\ Len(d) = n - 1 /\ Head(c) = c[1] /\ \A i \in 1 .. n - 1 : d[i] = c[i + 1]
  BY <1>1, <1>2, HeadTailProperties
<1>4. d = [i \in 1 .. n - 1 |-> d[i]]
  BY <1>3
<1>5. \A i \in 1 .. n - 1 : ~ (i < 1)
  OBVIOUS
<1>6. d = [i \in 1 .. n - 1 |-> IF i < 1 THEN c[i] ELSE c[i + 1]]
  BY <1>3, <1>4, <1>5
<1> QED
  BY <1>2, <1>3, <1>6 DEF Without

\* A put, once there is room.
Becomes(r, m, c) == MemoryOK(r) /\ r.capacity = m.capacity /\ Elements(r) = c

LEMMA StoreStep ==
    ASSUME NEW m, MemoryOK(m), NEW k \in Key, HasKey(m, k) \/ m.size < m.capacity,
           NEW n \in Node \ DOMAIN m.heap, NEW v \in Value, NEW r, r = Store(m, n, k, v)
    PROVE  Becomes(r, m, LruPutNoEvict(Elements(m), k, v))
<1>1. PICK data, c, z : data = [key |-> k, val |-> v] /\ c = Elements(m) /\ z = m.size
  OBVIOUS
<1>2. data \in Pair
  BY <1>1 DEF Pair
<1>3. EntriesOK(c, z) /\ z \in Nat /\ (HasKey(m, k) <=> IsCached(c, k))
  BY <1>1, CacheEntries
<1>4. Stored(r, m, k, data)
  <2>1. CASE HasKey(m, k)
    BY <1>1, <2>1, OldStored
  <2>2. CASE ~ HasKey(m, k)
    BY <1>1, <2>2, NewStored
  <2> QED
    BY <2>1, <2>2
<1>5. Elements(r) = Append(LruRemove(c, k), data)
  <2>1. CASE HasKey(m, k)
    <3>1. PICK j \in 1 .. z : c[j].key = k /\ Elements(r) = WithLast(Without(c, z, j), z - 1, data)
      BY <1>1, <1>4, <2>1 DEF Stored
    <3>2. PICK d : d = LruRemove(c, k)
      OBVIOUS
    <3>3. d = Without(c, z, j) /\ Len(d) = z - 1 /\ z - 1 \in Nat
      BY <1>3, <3>1, <3>2, RemoveIsWithout
    <3>4. d \in Seq(Pair)
      BY <1>3, <3>2, RemoveFacts DEF EntriesOK
    <3> QED
      BY <1>2, <3>1, <3>2, <3>3, <3>4, AppendIsWithLast
  <2>2. CASE ~ HasKey(m, k)
    <3>1. LruRemove(c, k) = c
      BY <1>3, <2>2 DEF LruRemove
    <3>2. Append(c, data) = WithLast(c, z, data)
      BY <1>2, <1>3, AppendIsWithLast DEF EntriesOK
    <3> QED
      BY <1>1, <1>4, <2>2, <3>1, <3>2 DEF Stored
  <2> QED
    BY <2>1, <2>2
<1> QED
  BY <1>1, <1>4, <1>5 DEF Becomes, Stored, LruPutNoEvict

\* lru_cache_remove
LEMMA RemoveStep ==
    ASSUME NEW m, MemoryOK(m), NEW k \in Key,
           NEW r, r = IF HasKey(m, k) THEN RemoveEntry(Unlink(m, NodeOf(m, k)), k) ELSE m
    PROVE  Becomes(r, m, LruRemove(Elements(m), k))
<1>1. PICK c, z : c = Elements(m) /\ z = m.size
  OBVIOUS
<1>2. EntriesOK(c, z) /\ z \in Nat /\ (HasKey(m, k) <=> IsCached(c, k))
  BY <1>1, CacheEntries
<1>3. CASE HasKey(m, k)
  <2>1. TakenOut(r, m, k)
    BY <1>3, KeyTakenOut
  <2>2. PICK j \in 1 .. z : c[j].key = k /\ Elements(r) = Without(c, z, j)
    BY <1>1, <2>1 DEF TakenOut
  <2>3. LruRemove(c, k) = Without(c, z, j)
    BY <1>2, <2>2, RemoveIsWithout
  <2> QED
    BY <1>1, <2>1, <2>2, <2>3 DEF Becomes, TakenOut
<1>4. CASE ~ HasKey(m, k)
  BY <1>1, <1>2, <1>4 DEF Becomes, LruRemove
<1> QED
  BY <1>3, <1>4

\* lru_cache_put with a place for the evicted key.
PutDone(r, m, k, v, evicts) ==
    /\ Becomes(r, m, LruPut(Elements(m), m.capacity, k, v))
    /\ evicts <=> LruEvicts(Elements(m), m.capacity, k)
    /\ evicts => Head(Elements(m)).key = m.heap[m.head].data.key

LEMMA PutStep ==
    ASSUME NEW m, MemoryOK(m), NEW k \in Key, NEW v \in Value,
           NEW evicts, evicts \in BOOLEAN, evicts <=> IsFull(m) /\ ~ HasKey(m, k),
           NEW room, room = IF evicts THEN EvictHead(m) ELSE m,
           NEW n \in Node \ DOMAIN room.heap, NEW r, r = Store(room, n, k, v)
    PROVE  PutDone(r, m, k, v, evicts)
<1>1. PICK c, z, cap : c = Elements(m) /\ z = m.size /\ cap = m.capacity
  OBVIOUS
<1>2. EntriesOK(c, z) /\ z \in Nat /\ (HasKey(m, k) <=> IsCached(c, k))
  BY <1>1, CacheEntries
<1>3. cap \in Nat \ {0} /\ z <= cap
  BY <1>1 DEF MemoryOK, IsMemory, TableOK
<1>4. IsFull(m) <=> LruIsFull(c, cap)
  BY <1>1, <1>2 DEF IsFull, LruIsFull, EntriesOK
<1>5. evicts <=> LruEvicts(c, cap, k)
  BY <1>2, <1>4 DEF LruEvicts
<1>6. CASE evicts
  <2>1. z # 0 /\ ~ HasKey(m, k) /\ ~ IsCached(c, k)
    BY <1>1, <1>2, <1>3, <1>6 DEF IsFull
  <2>2. PICK q : q = m.heap[m.head].data.key
    OBVIOUS
  <2>3. /\ q \in Key /\ TakenOut(room, m, q) /\ c[1].key = q
        /\ \A j \in 1 .. z : NodeOf(m, q) = Walk(m)[j] => j = 1
    BY <1>1, <1>6, <2>1, <2>2, HeadTakenOut
  <2>4. Elements(room) = Without(c, z, 1)
    BY <1>1, <2>3 DEF TakenOut
  <2>5. Elements(room) = Tail(c) /\ Head(c) = c[1]
    BY <1>2, <2>1, <2>4, TailIsWithout DEF EntriesOK
  <2>6. MemoryOK(room) /\ room.capacity = cap /\ room.size = z - 1
    BY <1>1, <2>3 DEF TakenOut
  <2>7. room.size < room.capacity
    BY <1>2, <1>3, <2>6
  <2>8. Becomes(r, room, LruPutNoEvict(Tail(c), k, v))
    BY <2>5, <2>6, <2>7, StoreStep
  <2>9. LruPut(c, cap, k, v) = LruPutNoEvict(Tail(c), k, v)
    BY <1>5, <1>6 DEF LruPut
  <2> QED
    BY <1>1, <1>5, <2>2, <2>3, <2>5, <2>6, <2>8, <2>9 DEF Becomes, PutDone
<1>7. CASE ~ evicts
  <2>1. room = m
    BY <1>7
  <2>2. HasKey(m, k) \/ m.size < m.capacity
    BY <1>1, <1>2, <1>3, <1>7 DEF IsFull
  <2>3. Becomes(r, m, LruPutNoEvict(c, k, v))
    BY <1>1, <2>1, <2>2, StoreStep
  <2>4. LruPut(c, cap, k, v) = LruPutNoEvict(c, k, v)
    BY <1>5, <1>7 DEF LruPut
  <2> QED
    BY <1>1, <1>5, <1>7, <2>3, <2>4 DEF PutDone
<1> QED
  BY <1>6, <1>7

\* lru_cache_get finds the value of the pair.
LEMMA GetStep ==
    ASSUME NEW m, MemoryOK(m), NEW k \in Key, HasKey(m, k), NEW v, v = m.heap[NodeOf(m, k)].data.val
    PROVE  v \in Value /\ v = CachedValue(Elements(m), k)
<1>1. PICK s, n, h, c : s = Walk(m) /\ n = m.size /\ h = m.heap /\ c = Elements(m)
  OBVIOUS
<1>2. /\ c = [i \in 1 .. n |-> h[s[i]].data] /\ \A i \in 1 .. n : h[s[i]].data \in Pair
  BY <1>1, CacheNodes
<1>3. EntriesOK(c, n)
  BY <1>1, CacheEntries
<1>4. PICK j \in 1 .. n : NodeOf(m, k) = s[j] /\ h[s[j]].data.key = k
  BY <1>1, HeldNode
<1>5. j \in DOMAIN c /\ c[j].key = k /\ v = c[j].val /\ v \in Value
  BY <1>1, <1>2, <1>4 DEF Pair
<1>6. IsCached(c, k) /\ KeysUnique(c)
  BY <1>3, <1>5 DEF IsCached, EntriesOK
<1>7. KeyIndex(c, k) = j
  BY <1>5, <1>6, KeyIndexFacts DEF KeysUnique
<1> QED
  BY <1>1, <1>5, <1>7 DEF CachedValue
-----------------------------------------------------------------------------
\* The memory of a cache stays in order, whatever is called: the list and the
\* table hold the same nodes, one for each key, and no other node is allocated.
THEOREM HeapInvariant == Spec => []HeapInv
<1>1. Init => HeapInv
  BY NewCache DEF Init, HeapInv
<1>2. HeapInv /\ [Next]_heapVars => HeapInv'
  <2> SUFFICES ASSUME HeapInv, [Next]_heapVars
               PROVE  HeapInv'
    OBVIOUS
  <2>1. PICK m, r : m = mem /\ r = mem'
    OBVIOUS
  <2>2. MemoryOK(m)
    BY <2>1 DEF HeapInv
  <2>3. SUFFICES MemoryOK(r)
    BY <2>1 DEF HeapInv
  <2>4. CASE Renew
    <3>1. PICK c \in Capacity : r = EmptyCache(c, FreeTable(m).heap)
      BY <2>1, <2>4 DEF Renew
    <3> QED
      BY <2>2, <3>1, AllFreed, NewCache
  <2>5. ASSUME NEW k \in Key, NEW v \in Value, Put(k, v)
        PROVE  MemoryOK(r)
    <3>1. PICK evicts \in BOOLEAN : evicts <=> IsFull(m) /\ ~ HasKey(m, k)
      OBVIOUS
    <3>2. PICK room : room = IF evicts THEN EvictHead(m) ELSE m
      OBVIOUS
    <3>3. PICK n \in Node \ DOMAIN room.heap : r = Store(room, n, k, v)
      BY <2>1, <2>5, <3>1, <3>2 DEF Put
    <3>4. PutDone(r, m, k, v, evicts)
      BY <2>2, <3>1, <3>2, <3>3, PutStep
    <3> QED
      BY <3>4 DEF PutDone, Becomes
  <2>6. ASSUME NEW k \in Key, NEW v \in Value, PutPresent(k, v)
        PROVE  MemoryOK(r)
    <3>1. HasKey(m, k) /\ \E n \in Node \ DOMAIN m.heap : r = Store(m, n, k, v)
      BY <2>1, <2>6 DEF PutPresent
    <3> QED
      BY <2>2, <3>1, StoreStep DEF Becomes
  <2>7. ASSUME NEW k \in Key, GetHit(k)
        PROVE  MemoryOK(r)
    <3>1. PICK v : v = m.heap[NodeOf(m, k)].data.val
      OBVIOUS
    <3>2. HasKey(m, k) /\ \E n \in Node \ DOMAIN m.heap : r = Store(m, n, k, v)
      BY <2>1, <2>7, <3>1 DEF GetHit
    <3>3. v \in Value
      BY <2>2, <3>1, <3>2, GetStep
    <3> QED
      BY <2>2, <3>2, <3>3, StoreStep DEF Becomes
  <2>8. ASSUME NEW k \in Key, RemoveKey(k)
        PROVE  MemoryOK(r)
    <3>1. r = IF HasKey(m, k) THEN RemoveEntry(Unlink(m, NodeOf(m, k)), k) ELSE m
      BY <2>1, <2>8 DEF RemoveKey
    <3> QED
      BY <2>2, <3>1, RemoveStep DEF Becomes
  <2>9. ASSUME r = m
        PROVE  MemoryOK(r)
    BY <2>2, <2>9
  <2>10. ASSUME NEW k \in Key, GetMiss(k)
         PROVE  MemoryOK(r)
    BY <2>1, <2>9, <2>10 DEF GetMiss
  <2>11. CASE UNCHANGED heapVars
    BY <2>1, <2>9, <2>11 DEF heapVars
  <2> QED
    BY <2>4, <2>5, <2>6, <2>7, <2>8, <2>10, <2>11 DEF Next
<1> QED
  BY <1>1, <1>2, PTL DEF Spec

\* ListIsRing: the nodes in memory are those of the list, in one circle of the
\* length the list believes it has.
THEOREM CacheListIsRing == Spec => []ListIsRing
<1>1. HeapInv => ListIsRing
  <2> SUFFICES ASSUME HeapInv
               PROVE  ListIsRing
    OBVIOUS
  <2>1. PICK m, s, n, h : m = mem /\ s = Walk(m) /\ n = m.size /\ h = m.heap
    OBVIOUS
  <2>2. MemoryOK(m)
    BY <2>1 DEF HeapInv
  <2>3. /\ Circle(m, s) /\ Owns(m, s) /\ n \in Nat /\ DOMAIN h \subseteq Node
        /\ s \in [1 .. n -> DOMAIN h]
    BY <2>1, <2>2, CacheNodes
  <2>4. IsRing(m)
    BY <2>3, CircleIsRing
  <2>5. ASSUME NEW x \in DOMAIN h
        PROVE  h[x] \in ListNode(Pair, Node)
    <3>1. PICK e : e = h[x] /\ e = [data |-> e.data, prev |-> e.prev, next |-> e.next]
      BY <2>1, <2>3 DEF Circle, IsDoubleNode
    <3>2. e.data \in Pair
      BY <2>1, <2>2, <3>1 DEF MemoryOK
    <3>3. e.prev \in Node /\ e.next \in Node
      BY <2>1, <2>3, <2>4, <3>1 DEF IsRing
    <3> QED
      BY <3>1, <3>2, <3>3 DEF ListNode
  <2>6. h = [x \in DOMAIN h |-> h[x]]
    BY <2>1, <2>3 DEF Circle, IsList
  <2>7. h \in [DOMAIN h -> ListNode(Pair, Node)]
    BY <2>5, <2>6
  <2> QED
    BY <2>1, <2>4, <2>7 DEF ListIsRing
<1> QED
  BY <1>1, HeapInvariant, PTL

\* No bucket has more entries than the table counts: there is a node for each.
LEMMA BucketShort ==
    ASSUME NEW m, MemoryOK(m), NEW b \in Buckets(m), NEW c, c = m.table[b]
    PROVE  Len(c) <= m.count
<1>1. PICK s, n, h : s = Walk(m) /\ n = m.size /\ h = m.heap
  OBVIOUS
<1>2. Owns(m, s) /\ n \in Nat /\ m.count = n
  BY <1>1, CacheNodes DEF MemoryOK
<1>3. PICK l : l = Len(c) /\ l \in Nat /\ DOMAIN c = 1 .. l
  BY DEF MemoryOK, IsMemory, TableOK, BucketOK
<1>4. ASSUME NEW i \in 1 .. l
      PROVE  c[i].node \in DOMAIN h /\ h[c[i].node].data.key = c[i].key
  <2>1. BucketOK(m, b, c)
    BY DEF MemoryOK, IsMemory, TableOK
  <2>2. PICK k, x : k = c[i].key /\ x = c[i].node
    OBVIOUS
  <2>3. c[i] = [key |-> k, node |-> x] /\ k \in Key /\ BucketOf(m, k) = b
    BY <1>3, <2>1, <2>2, EntryFields DEF BucketOK
  <2>4. Holds(m, k, x)
    BY <1>3, <2>3 DEF Holds, Range
  <2> QED
    BY <1>1, <2>2, <2>3, <2>4 DEF MemoryOK, Matches
<1>5. PICK f : f = [i \in 1 .. l |-> CHOOSE j \in 1 .. n : s[j] = c[i].node]
  OBVIOUS
<1>6. ASSUME NEW i \in 1 .. l
      PROVE  f[i] \in 1 .. n /\ s[f[i]] = c[i].node
  <2>1. \E j \in 1 .. n : s[j] = c[i].node
    BY <1>1, <1>2, <1>4 DEF Owns
  <2> QED
    BY <1>5, <2>1
<1>7. ASSUME NEW i \in 1 .. l, NEW j \in 1 .. l, f[i] = f[j]
      PROVE  i = j
  <2>1. c[i].node = c[j].node
    BY <1>6, <1>7
  <2>2. c[i].key = c[j].key
    BY <1>4, <2>1
  <2> QED
    BY <1>3, <2>2 DEF MemoryOK, IsMemory, TableOK, BucketOK
<1>8. f \in Injection(1 .. l, 1 .. n)
  BY <1>5, <1>6, <1>7 DEF Injection, IsInjective
<1>9. IsFiniteSet(1 .. n) /\ Cardinality(1 .. n) = n /\ Cardinality(1 .. l) = l
  <2>1. 1 \in Int /\ n \in Int /\ l \in Int
    BY <1>2, <1>3
  <2>2. IsFiniteSet(1 .. n) /\ Cardinality(1 .. n) = IF 1 > n THEN 0 ELSE n - 1 + 1
    BY <2>1, FS_Interval
  <2>3. Cardinality(1 .. l) = IF 1 > l THEN 0 ELSE l - 1 + 1
    BY <2>1, FS_Interval
  <2> QED
    BY <1>2, <1>3, <2>2, <2>3
<1>10. Cardinality(1 .. l) <= Cardinality(1 .. n)
  BY <1>8, <1>9, FS_Injection
<1> QED
  BY <1>2, <1>3, <1>9, <1>10

\* TableMatchesList: the table finds every node of the list under its key, and
\* nothing else: one entry per node, in the bucket of its key.
THEOREM TableFindsList == Spec => []TableMatchesList
<1>1. HeapInv => TableMatchesList
  <2> SUFFICES ASSUME HeapInv
               PROVE  TableMatchesList
    OBVIOUS
  <2>1. PICK m, h : m = mem /\ h = m.heap /\ MemoryOK(m)
    BY DEF HeapInv
  <2>2. PICK found : found = {p \in Buckets(m) \X (1 .. m.count) : p[2] \in DOMAIN m.table[p[1]]}
    OBVIOUS
  <2>3. /\ \A b \in Buckets(m) : Len(m.table[b]) <= m.count /\ BucketOK(m, b, m.table[b])
        /\ m.count = m.size /\ m.size \in Nat
    BY <2>1, BucketShort, CacheNodes DEF MemoryOK, IsMemory, TableOK
  <2>4. ASSUME NEW p \in found
        PROVE  /\ p = <<p[1], p[2]>> /\ p[1] \in Buckets(m) /\ p[2] \in DOMAIN m.table[p[1]]
               /\ m.table[p[1]][p[2]].node \in DOMAIN h
               /\ h[m.table[p[1]][p[2]].node].data.key = m.table[p[1]][p[2]].key
               /\ BucketOf(m, m.table[p[1]][p[2]].key) = p[1]
    <3>1. p = <<p[1], p[2]>> /\ p[1] \in Buckets(m) /\ p[2] \in DOMAIN m.table[p[1]]
      BY <2>2
    <3>2. PICK b, i, c, k, x : b = p[1] /\ i = p[2] /\ c = m.table[b] /\ k = c[i].key /\ x = c[i].node
      OBVIOUS
    <3>3. c[i] = [key |-> k, node |-> x] /\ k \in Key /\ BucketOf(m, k) = b
      BY <2>3, <3>1, <3>2, EntryFields DEF BucketOK
    <3>4. Holds(m, k, x)
      BY <3>1, <3>2, <3>3 DEF Holds, Range
    <3>5. x \in DOMAIN h /\ h[x].data.key = k
      BY <2>1, <3>3, <3>4 DEF MemoryOK, Matches
    <3> QED
      BY <3>1, <3>2, <3>3, <3>5
  <2>5. ASSUME NEW x \in DOMAIN h
        PROVE  \E p \in found : m.table[p[1]][p[2]].node = x
    <3>1. PICK k, b : k = h[x].data.key /\ b = BucketOf(m, k)
      OBVIOUS
    <3>2. k \in Key /\ Holds(m, k, x)
      BY <2>1, <3>1 DEF MemoryOK, Matches, Pair
    <3>3. b \in Buckets(m)
      BY <2>1, <3>1, <3>2, Bucketed DEF MemoryOK, IsMemory, TableOK
    <3>4. PICK i \in DOMAIN m.table[b] : m.table[b][i] = [key |-> k, node |-> x]
      BY <3>1, <3>2 DEF Holds, Range
    <3>5. i \in 1 .. m.count
      <4>1. PICK c : c = m.table[b] /\ c \in Seq(TableEntry) /\ Len(c) <= m.count
        BY <2>3, <3>3 DEF BucketOK
      <4>2. i \in 1 .. Len(c) /\ Len(c) \in Nat
        BY <3>4, <4>1
      <4> QED
        BY <2>3, <4>1, <4>2
    <3>6. <<b, i>> \in found
      BY <2>2, <3>3, <3>4, <3>5
    <3>7. m.table[<<b, i>>[1]][<<b, i>>[2]].node = x
      BY <3>4
    <3> QED
      BY <3>6, <3>7
  <2>6. ASSUME NEW p \in found, NEW q \in found, m.table[p[1]][p[2]].key = m.table[q[1]][q[2]].key
        PROVE  p = q
    <3>1. PICK a, i, b, j : a = p[1] /\ i = p[2] /\ b = q[1] /\ j = q[2]
      OBVIOUS
    <3>2. p = <<a, i>> /\ a \in Buckets(m) /\ i \in DOMAIN m.table[a] /\ BucketOf(m, m.table[a][i].key) = a
      BY <2>4, <3>1
    <3>3. q = <<b, j>> /\ j \in DOMAIN m.table[b] /\ BucketOf(m, m.table[b][j].key) = b
      BY <2>4, <3>1
    <3>4. m.table[a][i].key = m.table[b][j].key
      BY <2>6, <3>1
    <3>5. a = b
      BY <3>2, <3>3, <3>4
    <3>6. i = j
      BY <2>3, <3>2, <3>3, <3>4, <3>5 DEF BucketOK
    <3> QED
      BY <3>2, <3>3, <3>5, <3>6
  <2>7. /\ \A b \in Buckets(m) : Len(m.table[b]) <= m.count
        /\ m.count = m.size
    BY <2>3
  <2> DEFINE all == {p \in Buckets(mem) \X (1 .. mem.count) : p[2] \in DOMAIN mem.table[p[1]]}
             entry(p) == mem.table[p[1]][p[2]]
  <2>8. found = all /\ \A p : entry(p) = m.table[p[1]][p[2]]
    BY <2>1, <2>2
  <2> HIDE DEF all, entry
  <2>9. \A p \in all : /\ entry(p).node \in DOMAIN mem.heap
                       /\ mem.heap[entry(p).node].data.key = entry(p).key
                       /\ BucketOf(mem, entry(p).key) = p[1]
    BY <2>1, <2>4, <2>8
  <2>10. \A n \in DOMAIN mem.heap : \E p \in all : entry(p).node = n
    BY <2>1, <2>5, <2>8
  <2>11. \A p, q \in all : entry(p).key = entry(q).key => p = q
    BY <2>6, <2>8
  <2>12. (\A b \in Buckets(mem) : Len(mem.table[b]) <= mem.count) /\ mem.count = mem.size
    BY <2>1, <2>7
  <2> QED
    BY <2>9, <2>10, <2>11, <2>12 DEF TableMatchesList, all, entry
<1> QED
  BY <1>1, HeapInvariant, PTL
-----------------------------------------------------------------------------
(***************************************************************************)
(* The calls on the sequence of entries.                                   *)
(***************************************************************************)
\* The abstract specification has its own name for each operator of LruCache.
LEMMA SameCalls ==
    /\ \A c, k : Abstract!IsCached(c, k) <=> IsCached(c, k)
    /\ \A c, k : Abstract!CachedValue(c, k) = CachedValue(c, k)
    /\ \A c, k : Abstract!LruRemove(c, k) = LruRemove(c, k)
    /\ \A c, k, v : Abstract!LruPutNoEvict(c, k, v) = LruPutNoEvict(c, k, v)
    /\ \A c, n, k : Abstract!LruEvicts(c, n, k) <=> LruEvicts(c, n, k)
    /\ \A c, n, k, v : Abstract!LruPut(c, n, k, v) = LruPut(c, n, k, v)
    /\ \A c, k : Abstract!LruGet(c, k) = LruGet(c, k)
<1>1. \A c, k : Abstract!IsCached(c, k) <=> IsCached(c, k)
  BY DEF Abstract!IsCached, IsCached
<1>2. \A c, k : Abstract!KeyIndex(c, k) = KeyIndex(c, k)
  BY DEF Abstract!KeyIndex, KeyIndex
<1>3. \A c, k : Abstract!CachedValue(c, k) = CachedValue(c, k)
  BY <1>2 DEF Abstract!CachedValue, CachedValue
<1>4. \A c, i : Abstract!RemoveAt(c, i) = RemoveAt(c, i)
  BY DEF Abstract!RemoveAt, RemoveAt
<1>5. \A c, k : Abstract!LruRemove(c, k) = LruRemove(c, k)
  BY <1>1, <1>2, <1>4 DEF Abstract!LruRemove, LruRemove
<1>6. \A c, k, v : Abstract!LruPutNoEvict(c, k, v) = LruPutNoEvict(c, k, v)
  BY <1>5 DEF Abstract!LruPutNoEvict, LruPutNoEvict
<1>7. \A c, n, k : Abstract!LruEvicts(c, n, k) <=> LruEvicts(c, n, k)
  BY <1>1 DEF Abstract!LruEvicts, LruEvicts, Abstract!LruIsFull, LruIsFull
<1>8. \A c, n, k, v : Abstract!LruPut(c, n, k, v) = LruPut(c, n, k, v)
  BY <1>6, <1>7 DEF Abstract!LruPut, LruPut
<1>9. \A c, k : Abstract!LruGet(c, k) = LruGet(c, k)
  BY <1>1, <1>3, <1>6 DEF Abstract!LruGet, LruGet
<1> QED
  BY <1>1, <1>3, <1>5, <1>6, <1>7, <1>8, <1>9

LEMMA SameOutcomes ==
    /\ \A e, x : Abstract!PutResult(e, x) = PutResult(e, x)
    /\ \A v : Abstract!GetResult(v) = GetResult(v)
    /\ Abstract!Done = Done
BY DEF Abstract!PutResult, PutResult, Abstract!GetResult, GetResult, Abstract!Done, Done

LEMMA LruStep ==
    ASSUME HeapInv, [Next]_heapVars
    PROVE  [Abstract!SpecNext]_(Abstract!specVars)
<1>1. PICK m, r, c, d : m = mem /\ r = mem' /\ c = Elements(m) /\ d = Elements(r)
  OBVIOUS
<1>2. MemoryOK(m) /\ \A k \in Key : HasKey(m, k) <=> IsCached(c, k)
  BY <1>1, CacheEntries DEF HeapInv
<1>3. c = Elements(mem) /\ d = Elements(mem)' /\ m.capacity = mem.capacity /\ r.capacity = (mem.capacity)'
  BY <1>1
<1>4. ASSUME Renew
      PROVE  Abstract!SpecRenew
  <2>1. PICK cap \in Capacity : r = EmptyCache(cap, FreeTable(m).heap)
    BY <1>1, <1>4 DEF Renew
  <2>2. d = << >> /\ r.capacity = cap
    BY <1>1, <1>2, <2>1, AllFreed, NewCache
  <2> QED
    BY <1>3, <1>4, <2>2, SameOutcomes DEF Renew, Abstract!SpecRenew
<1>5. ASSUME NEW k \in Key, NEW v \in Value, Put(k, v)
      PROVE  Abstract!SpecPut(k, v)
  <2>1. PICK evicts \in BOOLEAN : evicts <=> IsFull(m) /\ ~ HasKey(m, k)
    OBVIOUS
  <2>2. PICK room : room = IF evicts THEN EvictHead(m) ELSE m
    OBVIOUS
  <2>3. PICK n \in Node \ DOMAIN room.heap : r = Store(room, n, k, v)
    BY <1>1, <1>5, <2>1, <2>2 DEF Put
  <2>4. PutDone(r, m, k, v, evicts)
    BY <1>2, <2>1, <2>2, <2>3, PutStep
  <2>5. d = LruPut(c, m.capacity, k, v) /\ r.capacity = m.capacity
    BY <1>1, <2>4 DEF PutDone, Becomes
  <2>6. outcome' = PutResult(IsCached(c, k), IF LruEvicts(c, m.capacity, k) THEN Head(c).key ELSE Nothing)
    <3>1. outcome' = PutResult(HasKey(m, k), IF evicts THEN m.heap[m.head].data.key ELSE Nothing)
      BY <1>1, <1>5, <2>1 DEF Put
    <3>2. PICK a, b : a = HasKey(m, k) /\ b = IsCached(c, k)
      OBVIOUS
    <3>3. a = b
      BY <1>2, <3>2 DEF HasKey, IsCached
    <3>4. (IF evicts THEN m.heap[m.head].data.key ELSE Nothing) =
              IF LruEvicts(c, m.capacity, k) THEN Head(c).key ELSE Nothing
      BY <1>1, <2>4 DEF PutDone
    <3> QED
      BY <3>1, <3>2, <3>3, <3>4
  <2>7. PICK a, b : a = IsCached(c, k) /\ b = Abstract!IsCached(c, k)
    OBVIOUS
  <2>8. a = b
    BY <2>7 DEF IsCached, Abstract!IsCached
  <2>9. PICK x : x = IF LruEvicts(c, m.capacity, k) THEN Head(c).key ELSE Nothing
    OBVIOUS
  <2>10. x = IF Abstract!LruEvicts(c, m.capacity, k) THEN Head(c).key ELSE Nothing
    BY <2>9, SameCalls
  <2>11. outcome' = Abstract!PutResult(b, x)
    BY <2>6, <2>7, <2>8, <2>9, SameOutcomes
  <2>12. outcome' = Abstract!PutResult(Abstract!IsCached(c, k),
                        IF Abstract!LruEvicts(c, m.capacity, k) THEN Head(c).key ELSE Nothing)
    BY <2>7, <2>10, <2>11
  <2>13. d = Abstract!LruPut(c, m.capacity, k, v)
    BY <2>5, SameCalls
  <2> QED
    BY <1>3, <2>5, <2>12, <2>13 DEF Abstract!SpecPut
<1>6. ASSUME NEW k \in Key, NEW v \in Value, PutPresent(k, v)
      PROVE  Abstract!SpecPutPresent(k, v)
  <2>1. HasKey(m, k) /\ outcome' = PutResult(TRUE, Nothing)
    BY <1>1, <1>6 DEF PutPresent
  <2>2. PICK n \in Node \ DOMAIN m.heap : r = Store(m, n, k, v)
    BY <1>1, <1>6 DEF PutPresent
  <2>3. d = LruPutNoEvict(c, k, v) /\ r.capacity = m.capacity
    BY <1>1, <1>2, <2>1, <2>2, StoreStep DEF Becomes
  <2> QED
    BY <1>2, <1>3, <2>1, <2>3, SameCalls, SameOutcomes DEF Abstract!SpecPutPresent
<1>7. ASSUME NEW k \in Key, GetHit(k)
      PROVE  Abstract!SpecGet(k)
  <2>1. PICK v : v = m.heap[NodeOf(m, k)].data.val
    OBVIOUS
  <2>2. HasKey(m, k) /\ outcome' = GetResult(v)
    BY <1>1, <1>7, <2>1 DEF GetHit
  <2>3. PICK n \in Node \ DOMAIN m.heap : r = Store(m, n, k, v)
    BY <1>1, <1>7, <2>1 DEF GetHit
  <2>4. v \in Value /\ v = CachedValue(c, k)
    BY <1>1, <1>2, <2>1, <2>2, GetStep
  <2>5. d = LruPutNoEvict(c, k, v) /\ r.capacity = m.capacity
    BY <1>1, <1>2, <2>2, <2>3, <2>4, StoreStep DEF Becomes
  <2>6. IsCached(c, k)
    BY <1>2, <2>2
  <2>7. d = LruGet(c, k)
    BY <2>4, <2>5, <2>6 DEF LruGet
  <2> QED
    BY <1>3, <2>2, <2>4, <2>5, <2>6, <2>7, SameCalls, SameOutcomes DEF Abstract!SpecGet
<1>8. ASSUME NEW k \in Key, GetMiss(k)
      PROVE  Abstract!SpecGet(k)
  <2>1. ~ IsCached(c, k) /\ r = m /\ outcome' = GetResult(Nothing)
    BY <1>1, <1>2, <1>8 DEF GetMiss
  <2>2. LruGet(c, k) = c
    BY <2>1 DEF LruGet
  <2> QED
    BY <1>1, <1>3, <2>1, <2>2, SameCalls, SameOutcomes DEF Abstract!SpecGet
<1>9. ASSUME NEW k \in Key, RemoveKey(k)
      PROVE  Abstract!SpecRemove(k)
  <2>1. r = (IF HasKey(m, k) THEN RemoveEntry(Unlink(m, NodeOf(m, k)), k) ELSE m) /\ outcome' = Done
    BY <1>1, <1>9 DEF RemoveKey
  <2>2. d = LruRemove(c, k) /\ r.capacity = m.capacity
    BY <1>1, <1>2, <2>1, RemoveStep DEF Becomes
  <2> QED
    BY <1>3, <2>1, <2>2, SameCalls, SameOutcomes DEF Abstract!SpecRemove
<1>10. CASE UNCHANGED heapVars
  BY <1>1, <1>3, <1>10 DEF heapVars, Abstract!specVars
<1> QED
  BY <1>4, <1>5, <1>6, <1>7, <1>8, <1>9, <1>10 DEF Next, Abstract!SpecNext

\* ImplementsLru, for every capacity and every hash: the list and the table
\* together do what the calls on the sequence of entries do, by which Server
\* models the caches.
THEOREM CacheIsSequence == Spec => ImplementsLru
<1>1. Init => Abstract!SpecInit
  <2> SUFFICES ASSUME Init
               PROVE  Abstract!SpecInit
    OBVIOUS
  <2>1. PICK c \in Capacity : mem = EmptyCache(c, << >>)
    BY DEF Init
  <2>2. Elements(mem) = << >> /\ mem.capacity = c
    BY <2>1, NewCache
  <2> QED
    BY <2>2, SameOutcomes DEF Init, Abstract!SpecInit
<1>2. HeapInv /\ [Next]_heapVars => [Abstract!SpecNext]_(Abstract!specVars)
  BY LruStep
<1> QED
  BY <1>1, <1>2, HeapInvariant, PTL DEF Spec, ImplementsLru, Abstract!CacheSpec
=============================================================================
