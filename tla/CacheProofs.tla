---------------------------- MODULE CacheProofs -----------------------------
(***************************************************************************)
(* What the operations of the LRU cache preserve: a cache holds no key     *)
(* twice, does not outgrow its capacity, and holds nothing that was not    *)
(* put into it.                                                            *)
(***************************************************************************)
EXTENDS LruCache, SequenceTheorems, TLAPS

\* A cache after a pair e was written: e, and pairs of other keys as before.
WrittenTo(after, before, e) ==
    \A n \in DOMAIN after :
        \/ after[n] = e
        \/ after[n].key # e.key /\ \E m \in DOMAIN before : before[m] = after[n]

\* Taking one element out of a sequence.
LEMMA RemoveAtFacts ==
    ASSUME NEW S, NEW c \in Seq(S), NEW i \in 1 .. Len(c)
    PROVE  /\ RemoveAt(c, i) \in Seq(S)
           /\ Len(RemoveAt(c, i)) = Len(c) - 1
           /\ \A j \in 1 .. Len(c) - 1 :
                RemoveAt(c, i)[j] = c[IF j < i THEN j ELSE j + 1]
<1> DEFINE front == SubSeq(c, 1, i - 1)
           back == SubSeq(c, i + 1, Len(c))
<1>1. Len(c) \in Nat /\ \A j \in 1 .. Len(c) : c[j] \in S
  BY LenProperties, ElementOfSeq
<1>2. /\ front \in Seq(S)
      /\ Len(front) = i - 1
      /\ \A j \in 1 .. i - 1 : front[j] = c[j]
  <2>1. \A j \in 1 .. i - 1 : c[j] \in S
    BY <1>1
  <2>2. /\ front \in Seq(S)
        /\ Len(front) = IF 1 <= i - 1 THEN (i - 1) - 1 + 1 ELSE 0
        /\ \A j \in 1 .. (i - 1) - 1 + 1 : front[j] = c[1 + j - 1]
    BY <1>1, <2>1, SubSeqProperties
  <2> HIDE DEF front
  <2> QED
    BY <1>1, <2>2
<1>3. /\ back \in Seq(S)
      /\ Len(back) = Len(c) - i
      /\ \A j \in 1 .. Len(c) - i : back[j] = c[i + j]
  <2>1. \A j \in i + 1 .. Len(c) : c[j] \in S
    BY <1>1
  <2>2. /\ back \in Seq(S)
        /\ Len(back) = IF i + 1 <= Len(c) THEN Len(c) - (i + 1) + 1 ELSE 0
        /\ \A j \in 1 .. Len(c) - (i + 1) + 1 : back[j] = c[(i + 1) + j - 1]
    BY <1>1, <2>1, SubSeqProperties
  <2> HIDE DEF back
  <2> QED
    BY <1>1, <2>2
<1> HIDE DEF front, back
<1>4. /\ front \o back \in Seq(S)
      /\ Len(front \o back) = Len(c) - 1
      /\ \A j \in 1 .. Len(c) - 1 :
            (front \o back)[j] = IF j <= i - 1 THEN front[j] ELSE back[j - (i - 1)]
  <2>1. /\ front \o back \in Seq(S)
        /\ Len(front \o back) = Len(front) + Len(back)
        /\ \A j \in 1 .. Len(front) + Len(back) :
              (front \o back)[j] = IF j <= Len(front) THEN front[j] ELSE back[j - Len(front)]
    BY <1>2, <1>3, ConcatProperties
  <2>2. Len(front) + Len(back) = Len(c) - 1
    BY <1>1, <1>2, <1>3
  <2> QED
    BY <1>2, <2>1, <2>2
<1>5. RemoveAt(c, i) = front \o back
  BY DEF RemoveAt, front, back
<1>6. ASSUME NEW j \in 1 .. Len(c) - 1
      PROVE  (front \o back)[j] = c[IF j < i THEN j ELSE j + 1]
  BY <1>1, <1>2, <1>3, <1>4
<1> QED
  BY <1>4, <1>5, <1>6

\* A key that is cached is found by its index.
LEMMA KeyIndexFacts ==
    ASSUME NEW c, NEW k, IsCached(c, k)
    PROVE  KeyIndex(c, k) \in DOMAIN c /\ c[KeyIndex(c, k)].key = k
BY DEF IsCached, KeyIndex

\* lru_cache_remove keeps the other pairs and leaves no pair of the key.
LEMMA RemoveFacts ==
    ASSUME NEW S, NEW c \in Seq(S), KeysUnique(c), NEW k
    PROVE  /\ LruRemove(c, k) \in Seq(S)
           /\ Len(LruRemove(c, k)) = IF IsCached(c, k) THEN Len(c) - 1 ELSE Len(c)
           /\ KeysUnique(LruRemove(c, k))
           /\ \A n \in DOMAIN LruRemove(c, k) :
                /\ LruRemove(c, k)[n].key # k
                /\ \E m \in DOMAIN c : c[m] = LruRemove(c, k)[n]
<1>1. CASE ~ IsCached(c, k)
  BY <1>1 DEF LruRemove, IsCached
<1>2. CASE IsCached(c, k)
  <2> DEFINE i == KeyIndex(c, k)
             d == RemoveAt(c, i)
  <2>1. i \in DOMAIN c /\ c[i].key = k
    BY <1>2, KeyIndexFacts
  <2>2. Len(c) \in Nat /\ DOMAIN c = 1 .. Len(c)
    BY LenProperties
  <2> HIDE DEF i
  <2>3. /\ d \in Seq(S)
        /\ Len(d) = Len(c) - 1
        /\ \A j \in 1 .. Len(c) - 1 : d[j] = c[IF j < i THEN j ELSE j + 1]
    BY <2>1, <2>2, RemoveAtFacts
  <2> HIDE DEF d
  <2>4. DOMAIN d = 1 .. Len(c) - 1
    BY <2>3, LenProperties
  <2>5. ASSUME NEW n \in DOMAIN d
        PROVE  d[n].key # k /\ \E m \in DOMAIN c : c[m] = d[n]
    BY <2>1, <2>2, <2>3, <2>4 DEF KeysUnique
  <2>6. ASSUME NEW m \in DOMAIN d, NEW n \in DOMAIN d, d[m].key = d[n].key
        PROVE  m = n
    <3> DEFINE old(j) == IF j < i THEN j ELSE j + 1
    <3>1. /\ old(m) \in DOMAIN c /\ d[m] = c[old(m)]
          /\ old(n) \in DOMAIN c /\ d[n] = c[old(n)]
      BY <2>1, <2>2, <2>3, <2>4
    <3>2. old(m) = old(n)
      BY <2>6, <3>1 DEF KeysUnique
    <3> QED
      BY <2>1, <2>2, <2>4, <3>2
  <2>7. LruRemove(c, k) = d
    BY <1>2 DEF LruRemove, d, i
  <2> QED
    BY <1>2, <2>3, <2>5, <2>6, <2>7 DEF KeysUnique
<1> QED
  BY <1>1, <1>2

\* A pair of a key that is not there may be added at the end.
LEMMA AppendFacts ==
    ASSUME NEW S, NEW c \in Seq(S), KeysUnique(c), NEW e \in S,
           \A n \in DOMAIN c : c[n].key # e.key
    PROVE  /\ Append(c, e) \in Seq(S)
           /\ Len(Append(c, e)) = Len(c) + 1
           /\ KeysUnique(Append(c, e))
           /\ \A n \in DOMAIN Append(c, e) :
                Append(c, e)[n] = e \/ \E m \in DOMAIN c : c[m] = Append(c, e)[n]
           /\ \E n \in DOMAIN Append(c, e) : Append(c, e)[n] = e
<1> DEFINE d == Append(c, e)
<1>1. Len(c) \in Nat /\ DOMAIN c = 1 .. Len(c)
  BY LenProperties
<1>2. /\ d \in Seq(S)
      /\ Len(d) = Len(c) + 1
      /\ \A j \in 1 .. Len(c) : d[j] = c[j]
      /\ d[Len(c) + 1] = e
  BY AppendProperties
<1> HIDE DEF d
<1>3. DOMAIN d = 1 .. Len(c) + 1
  BY <1>2, LenProperties
<1>4. ASSUME NEW m \in DOMAIN d, NEW n \in DOMAIN d, d[m].key = d[n].key
      PROVE  m = n
  BY <1>1, <1>2, <1>3, <1>4 DEF KeysUnique
<1>5. ASSUME NEW n \in DOMAIN d
      PROVE  d[n] = e \/ \E m \in DOMAIN c : c[m] = d[n]
  BY <1>1, <1>2, <1>3
<1>6. Len(c) + 1 \in DOMAIN d
  BY <1>1, <1>3
<1>7. /\ d \in Seq(S)
      /\ Len(d) = Len(c) + 1
      /\ KeysUnique(d)
      /\ \A n \in DOMAIN d : d[n] = e \/ \E m \in DOMAIN c : c[m] = d[n]
      /\ \E n \in DOMAIN d : d[n] = e
  BY <1>2, <1>4, <1>5, <1>6 DEF KeysUnique
<1> QED
  BY <1>7 DEF d

\* Dropping the head, the least recently used pair.
LEMMA TailFacts ==
    ASSUME NEW S, NEW c \in Seq(S), KeysUnique(c), c # <<>>
    PROVE  /\ Tail(c) \in Seq(S)
           /\ Len(Tail(c)) = Len(c) - 1
           /\ KeysUnique(Tail(c))
           /\ \A n \in DOMAIN Tail(c) : \E m \in DOMAIN c : c[m] = Tail(c)[n]
<1> DEFINE d == Tail(c)
<1>1. Len(c) \in Nat /\ DOMAIN c = 1 .. Len(c)
  BY LenProperties
<1>2. d \in Seq(S) /\ Len(d) = Len(c) - 1 /\ \A j \in 1 .. Len(d) : d[j] = c[j + 1]
  BY HeadTailProperties
<1> HIDE DEF d
<1>3. DOMAIN d = 1 .. Len(c) - 1
  BY <1>2, LenProperties
<1>4. ASSUME NEW m \in DOMAIN d, NEW n \in DOMAIN d, d[m].key = d[n].key
      PROVE  m = n
  <2>1. /\ m + 1 \in DOMAIN c /\ d[m] = c[m + 1]
        /\ n + 1 \in DOMAIN c /\ d[n] = c[n + 1]
    BY <1>1, <1>2, <1>3
  <2>2. m + 1 = n + 1
    BY <1>4, <2>1 DEF KeysUnique
  <2> QED
    BY <1>1, <1>3, <2>2
<1>5. ASSUME NEW n \in DOMAIN d
      PROVE  \E m \in DOMAIN c : c[m] = d[n]
  BY <1>1, <1>2, <1>3
<1>6. /\ d \in Seq(S)
      /\ Len(d) = Len(c) - 1
      /\ KeysUnique(d)
      /\ \A n \in DOMAIN d : \E m \in DOMAIN c : c[m] = d[n]
  BY <1>2, <1>4, <1>5 DEF KeysUnique
<1> QED
  BY <1>6 DEF d

\* lru_cache_put of the pair e leaves e and pairs of other keys.
LEMMA PutNoEvictFacts ==
    ASSUME NEW Key, NEW Val, NEW c \in Seq(Entry(Key, Val)), KeysUnique(c),
           NEW k \in Key, NEW v \in Val, NEW e, e = [key |-> k, val |-> v],
           NEW d, d = LruPutNoEvict(c, k, v)
    PROVE  /\ d \in Seq(Entry(Key, Val))
           /\ KeysUnique(d)
           /\ Len(d) = IF IsCached(c, k) THEN Len(c) ELSE Len(c) + 1
           /\ \E n \in DOMAIN d : d[n] = e
           /\ \A n \in DOMAIN d :
                \/ d[n] = e
                \/ d[n].key # k /\ \E m \in DOMAIN c : c[m] = d[n]
<1> DEFINE S == Entry(Key, Val)
           rest == LruRemove(c, k)
<1>1. e \in S /\ e.key = k
  BY DEF Entry
<1>2. d = Append(rest, e)
  BY DEF LruPutNoEvict
<1> HIDE DEF S
<1>3. /\ rest \in Seq(S)
      /\ Len(rest) = IF IsCached(c, k) THEN Len(c) - 1 ELSE Len(c)
      /\ KeysUnique(rest)
      /\ \A n \in DOMAIN rest :
            rest[n].key # k /\ \E m \in DOMAIN c : c[m] = rest[n]
  BY RemoveFacts DEF S
<1> HIDE DEF rest
<1>4. /\ d \in Seq(S)
      /\ Len(d) = Len(rest) + 1
      /\ KeysUnique(d)
      /\ \A n \in DOMAIN d : d[n] = e \/ \E m \in DOMAIN rest : rest[m] = d[n]
      /\ \E n \in DOMAIN d : d[n] = e
  BY <1>1, <1>2, <1>3, AppendFacts
<1>5. Len(c) \in Nat
  BY LenProperties
<1>6. Len(d) = IF IsCached(c, k) THEN Len(c) ELSE Len(c) + 1
  BY <1>3, <1>4, <1>5
<1>7. \A n \in DOMAIN d :
            \/ d[n] = e
            \/ d[n].key # k /\ \E m \in DOMAIN c : c[m] = d[n]
  BY <1>3, <1>4
<1> QED
  BY <1>4, <1>6, <1>7 DEF S

\* If it may evict it keeps within the capacity.
LEMMA PutFacts ==
    ASSUME NEW Key, NEW Val, NEW c \in Seq(Entry(Key, Val)), KeysUnique(c),
           NEW capacity \in Nat \ {0}, Len(c) <= capacity,
           NEW k \in Key, NEW v \in Val, NEW e, e = [key |-> k, val |-> v],
           NEW d, d = LruPut(c, capacity, k, v)
    PROVE  /\ d \in Seq(Entry(Key, Val))
           /\ KeysUnique(d)
           /\ Len(d) <= capacity
           /\ \E n \in DOMAIN d : d[n] = e
           /\ \A n \in DOMAIN d :
                \/ d[n] = e
                \/ d[n].key # k /\ \E m \in DOMAIN c : c[m] = d[n]
<1> DEFINE S == Entry(Key, Val)
           rest == IF LruEvicts(c, capacity, k) THEN Tail(c) ELSE c
<1>1. Len(c) \in Nat
  BY LenProperties
<1>2. d = LruPutNoEvict(rest, k, v)
  BY DEF LruPut
<1> HIDE DEF S
<1>3. /\ rest \in Seq(S)
      /\ KeysUnique(rest)
      /\ (IF IsCached(rest, k) THEN Len(rest) ELSE Len(rest) + 1) <= capacity
      /\ \A n \in DOMAIN rest : \E m \in DOMAIN c : c[m] = rest[n]
  <2>1. CASE LruEvicts(c, capacity, k)
    <3>1. c # <<>>
      BY <1>1, <2>1 DEF LruEvicts, LruIsFull
    <3>2. /\ Tail(c) \in Seq(S)
          /\ Len(Tail(c)) = Len(c) - 1
          /\ KeysUnique(Tail(c))
          /\ \A n \in DOMAIN Tail(c) : \E m \in DOMAIN c : c[m] = Tail(c)[n]
      BY <3>1, TailFacts DEF S
    <3>3. rest = Tail(c)
      BY <2>1
    <3> HIDE DEF rest
    <3>4. (IF IsCached(rest, k) THEN Len(rest) ELSE Len(rest) + 1) <= capacity
      BY <1>1, <3>2, <3>3
    <3> QED
      BY <3>2, <3>3, <3>4
  <2>2. CASE ~ LruEvicts(c, capacity, k)
    <3>1. rest = c
      BY <2>2
    <3> HIDE DEF rest
    <3>2. (IF IsCached(c, k) THEN Len(c) ELSE Len(c) + 1) <= capacity
      BY <1>1, <2>2 DEF LruEvicts, LruIsFull
    <3> QED
      BY <3>1, <3>2 DEF S
  <2> QED
    BY <2>1, <2>2
<1> HIDE DEF rest
<1>4. /\ d \in Seq(S)
      /\ KeysUnique(d)
      /\ Len(d) = IF IsCached(rest, k) THEN Len(rest) ELSE Len(rest) + 1
      /\ \E n \in DOMAIN d : d[n] = e
      /\ \A n \in DOMAIN d :
            \/ d[n] = e
            \/ d[n].key # k /\ \E m \in DOMAIN rest : rest[m] = d[n]
  BY <1>2, <1>3, PutNoEvictFacts DEF S
<1>5. Len(d) <= capacity
  BY <1>3, <1>4
<1>6. \A n \in DOMAIN d :
            \/ d[n] = e
            \/ d[n].key # k /\ \E m \in DOMAIN c : c[m] = d[n]
  BY <1>3, <1>4
<1> QED
  BY <1>4, <1>5, <1>6 DEF S

\* lru_cache_get changes no pair and keeps the key.
LEMMA GetFacts ==
    ASSUME NEW Key, NEW Val, NEW c \in Seq(Entry(Key, Val)), KeysUnique(c),
           NEW k \in Key, NEW d, d = LruGet(c, k)
    PROVE  /\ d \in Seq(Entry(Key, Val))
           /\ KeysUnique(d)
           /\ Len(d) = Len(c)
           /\ IsCached(d, k) <=> IsCached(c, k)
           /\ \A n \in DOMAIN d : \E m \in DOMAIN c : c[m] = d[n]
<1>1. CASE ~ IsCached(c, k)
  BY <1>1 DEF LruGet
<1>2. CASE IsCached(c, k)
  <2> DEFINE i == KeyIndex(c, k)
             v == CachedValue(c, k)
             e == [key |-> k, val |-> v]
  <2>1. d = LruPutNoEvict(c, k, v)
    BY <1>2 DEF LruGet
  <2>2. i \in DOMAIN c /\ c[i].key = k
    BY <1>2, KeyIndexFacts
  <2>3. c[i] \in Entry(Key, Val)
    BY <2>2, LenProperties, ElementOfSeq
  <2>4. v \in Val /\ c[i] = e /\ e.key = k
    BY <2>2, <2>3 DEF Entry, CachedValue
  <2>5. e = [key |-> k, val |-> v]
    OBVIOUS
  <2> HIDE DEF i, v, e
  <2>6. /\ d \in Seq(Entry(Key, Val))
        /\ KeysUnique(d)
        /\ Len(d) = IF IsCached(c, k) THEN Len(c) ELSE Len(c) + 1
        /\ \E n \in DOMAIN d : d[n] = e
        /\ \A n \in DOMAIN d :
                \/ d[n] = e
                \/ d[n].key # k /\ \E m \in DOMAIN c : c[m] = d[n]
    BY <2>1, <2>4, <2>5, PutNoEvictFacts
  <2>7. IsCached(d, k)
    BY <2>4, <2>6 DEF IsCached
  <2>8. \A n \in DOMAIN d : \E m \in DOMAIN c : c[m] = d[n]
    BY <2>2, <2>4, <2>6
  <2> QED
    BY <1>2, <2>6, <2>7, <2>8
<1> QED
  BY <1>1, <1>2

-----------------------------------------------------------------------------
\* The keys that a cache holds, whatever their order.
KeysOf(c) == {c[n].key : n \in DOMAIN c}

\* lru_cache_remove takes one key out, and no other.
LEMMA KeysAfterRemove ==
    ASSUME NEW S, NEW c \in Seq(S), KeysUnique(c), NEW k
    PROVE  KeysOf(LruRemove(c, k)) = KeysOf(c) \ {k}
<1>1. CASE ~ IsCached(c, k)
  BY <1>1 DEF LruRemove, IsCached, KeysOf
<1>2. CASE IsCached(c, k)
  <2> DEFINE i == KeyIndex(c, k)
             d == RemoveAt(c, i)
  <2>1. i \in DOMAIN c /\ c[i].key = k
    BY <1>2, KeyIndexFacts
  <2>2. Len(c) \in Nat /\ DOMAIN c = 1 .. Len(c)
    BY LenProperties
  <2> HIDE DEF i
  <2>3. /\ d \in Seq(S)
        /\ Len(d) = Len(c) - 1
        /\ \A j \in 1 .. Len(c) - 1 : d[j] = c[IF j < i THEN j ELSE j + 1]
    BY <2>1, <2>2, RemoveAtFacts
  <2>4. d = LruRemove(c, k)
    BY <1>2 DEF LruRemove, i
  <2> HIDE DEF d
  <2>5. DOMAIN d = 1 .. Len(c) - 1
    BY <2>3, LenProperties
  <2>6. ASSUME NEW n \in DOMAIN c, c[n].key # k
        PROVE  \E m \in DOMAIN d : d[m] = c[n]
    <3>1. n # i
      BY <2>1, <2>6
    <3>2. CASE n < i
      <4>1. n \in DOMAIN d /\ d[n] = c[n]
        BY <2>1, <2>2, <2>3, <2>5, <3>2
      <4> QED
        BY <4>1
    <3>3. CASE n > i
      <4>1. n - 1 \in DOMAIN d /\ d[n - 1] = c[n]
        BY <2>1, <2>2, <2>3, <2>5, <3>3
      <4> QED
        BY <4>1
    <3> QED
      BY <2>1, <2>2, <3>1, <3>2, <3>3
  <2>7. \A n \in DOMAIN d : d[n].key # k /\ \E m \in DOMAIN c : c[m] = d[n]
    BY <2>4, RemoveFacts
  <2>8. KeysOf(d) = KeysOf(c) \ {k}
    BY <2>6, <2>7 DEF KeysOf
  <2> QED
    BY <2>4, <2>8
<1> QED
  BY <1>1, <1>2

\* lru_cache_put without an eviction adds one key.
LEMMA KeysAfterPutNoEvict ==
    ASSUME NEW S, NEW c \in Seq(S), KeysUnique(c), NEW k, NEW v,
           [key |-> k, val |-> v] \in S
    PROVE  KeysOf(LruPutNoEvict(c, k, v)) = KeysOf(c) \union {k}
<1> DEFINE e == [key |-> k, val |-> v]
           r == LruRemove(c, k)
           d == Append(r, e)
<1>1. r \in Seq(S) /\ KeysOf(r) = KeysOf(c) \ {k}
  BY RemoveFacts, KeysAfterRemove
<1>2. e \in S /\ e.key = k
  OBVIOUS
<1>3. d = LruPutNoEvict(c, k, v)
  BY DEF LruPutNoEvict
<1> HIDE DEF e, r
<1>4. Len(r) \in Nat /\ DOMAIN r = 1 .. Len(r)
  BY <1>1, LenProperties
<1>5. /\ d \in Seq(S)
      /\ Len(d) = Len(r) + 1
      /\ \A j \in 1 .. Len(r) : d[j] = r[j]
      /\ d[Len(r) + 1] = e
  BY <1>1, <1>2, AppendProperties
<1> HIDE DEF d
<1>6. DOMAIN d = 1 .. Len(r) + 1
  BY <1>5, LenProperties
<1>7. DOMAIN d = DOMAIN r \union {Len(r) + 1}
  BY <1>4, <1>6
<1>8. KeysOf(d) = KeysOf(r) \union {k}
  BY <1>2, <1>4, <1>5, <1>7 DEF KeysOf
<1> QED
  BY <1>1, <1>3, <1>8

\* Dropping the head takes its key out.
LEMMA KeysAfterTail ==
    ASSUME NEW S, NEW c \in Seq(S), KeysUnique(c), c # <<>>
    PROVE  KeysOf(Tail(c)) = KeysOf(c) \ {Head(c).key} /\ Head(c).key \in KeysOf(c)
<1> DEFINE d == Tail(c)
<1>1. Len(c) \in Nat /\ Len(c) > 0 /\ DOMAIN c = 1 .. Len(c)
  BY LenProperties, EmptySeq
<1>2. d \in Seq(S) /\ Len(d) = Len(c) - 1 /\ Head(c) = c[1] /\ \A j \in 1 .. Len(d) : d[j] = c[j + 1]
  BY HeadTailProperties
<1> HIDE DEF d
<1>3. DOMAIN d = 1 .. Len(c) - 1
  BY <1>2, LenProperties
<1>4. ASSUME NEW n \in DOMAIN d
      PROVE  d[n].key \in KeysOf(c) /\ d[n].key # c[1].key
  <2>1. n + 1 \in DOMAIN c /\ 1 \in DOMAIN c /\ n + 1 # 1 /\ d[n] = c[n + 1]
    BY <1>1, <1>2, <1>3
  <2> QED
    BY <2>1 DEF KeysOf, KeysUnique
<1>5. ASSUME NEW n \in DOMAIN c, c[n].key # c[1].key
      PROVE  c[n].key \in KeysOf(d)
  <2>1. n - 1 \in DOMAIN d /\ d[n - 1] = c[n]
    <3>1. n # 1
      BY <1>5
    <3> QED
      BY <1>1, <1>2, <1>3, <3>1
  <2> QED
    BY <2>1 DEF KeysOf
<1>6. 1 \in DOMAIN c
  BY <1>1
<1>7. KeysOf(d) = KeysOf(c) \ {c[1].key} /\ c[1].key \in KeysOf(c)
  BY <1>4, <1>5, <1>6 DEF KeysOf
<1> QED
  BY <1>2, <1>7 DEF d

\* lru_cache_get reorders the cache.
LEMMA KeysAfterGet ==
    ASSUME NEW Key, NEW Val, NEW c \in Seq(Entry(Key, Val)), KeysUnique(c), NEW k
    PROVE  KeysOf(LruGet(c, k)) = KeysOf(c)
<1>1. CASE ~ IsCached(c, k)
  BY <1>1 DEF LruGet
<1>2. CASE IsCached(c, k)
  <2>1. KeyIndex(c, k) \in DOMAIN c /\ c[KeyIndex(c, k)].key = k
    BY <1>2, KeyIndexFacts
  <2>2. c[KeyIndex(c, k)] \in Entry(Key, Val)
    BY <2>1, LenProperties, ElementOfSeq
  <2>3. [key |-> k, val |-> CachedValue(c, k)] \in Entry(Key, Val)
    BY <2>1, <2>2 DEF CachedValue, Entry
  <2>4. KeysOf(LruGet(c, k)) = KeysOf(c) \union {k}
    BY <1>2, <2>3, KeysAfterPutNoEvict DEF LruGet
  <2>5. k \in KeysOf(c)
    BY <2>1 DEF KeysOf
  <2> QED
    BY <2>4, <2>5
<1> QED
  BY <1>1, <1>2

\* lru_cache_put drives out the head if it evicts, and else nothing.
LEMMA KeysAfterPut ==
    ASSUME NEW S, NEW c \in Seq(S), KeysUnique(c), NEW capacity \in Nat \ {0},
           NEW k, NEW v, [key |-> k, val |-> v] \in S
    PROVE  KeysOf(c) \ KeysOf(LruPut(c, capacity, k, v)) =
               IF LruEvicts(c, capacity, k) THEN {Head(c).key} ELSE {}
<1>1. CASE ~ LruEvicts(c, capacity, k)
  <2>1. LruPut(c, capacity, k, v) = LruPutNoEvict(c, k, v)
    BY <1>1 DEF LruPut
  <2>2. KeysOf(LruPutNoEvict(c, k, v)) = KeysOf(c) \union {k}
    BY KeysAfterPutNoEvict
  <2> QED
    BY <1>1, <2>1, <2>2
<1>2. CASE LruEvicts(c, capacity, k)
  <2> DEFINE rest == Tail(c)
  <2>1. c # <<>>
    BY <1>2, EmptySeq DEF LruEvicts, LruIsFull
  <2>2. rest \in Seq(S) /\ KeysUnique(rest)
    BY <2>1, TailFacts
  <2>3. KeysOf(rest) = KeysOf(c) \ {Head(c).key} /\ Head(c).key \in KeysOf(c)
    BY <2>1, KeysAfterTail
  <2>4. LruPut(c, capacity, k, v) = LruPutNoEvict(rest, k, v)
    BY <1>2 DEF LruPut
  <2> HIDE DEF rest
  <2>5. KeysOf(LruPutNoEvict(rest, k, v)) = KeysOf(rest) \union {k}
    BY <2>2, KeysAfterPutNoEvict
  <2>6. k \notin KeysOf(c)
    BY <1>2 DEF LruEvicts, IsCached, KeysOf
  <2> QED
    BY <1>2, <2>3, <2>4, <2>5, <2>6
<1> QED
  BY <1>1, <1>2
=============================================================================
