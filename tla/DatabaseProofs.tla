--------------------------- MODULE DatabaseProofs ---------------------------
(***************************************************************************)
(* The theorems: what holds of every behaviour of the program, for any set *)
(* of servers, documents and contents, any number of labels, any hashes    *)
(* the assumptions allow, and any sizes of queues and caches.              *)
(*                                                                         *)
(* First, where documents and EDITs are, and what a cache holds.  Then     *)
(* what the client may rely on: the database is one store, and a response  *)
(* says the truth about the server that gives it and what left its cache.  *)
(***************************************************************************)
EXTENDS DatabaseRefinement, Responses, DatabaseInvariant, CacheProofs, FiniteSetTheorems,
        WellFoundedInduction
-----------------------------------------------------------------------------
(***************************************************************************)
(* The laws of the ring search on which the moves of documents rest.       *)
(***************************************************************************)

(***************************************************************************)
(* On the ring as seen from h, a comes before b: strictly above h first,   *)
(* then around the end, up to h itself.                                    *)
(***************************************************************************)
Precedes(h, a, b) ==
    \/ h < a /\ (a < b \/ b <= h)
    \/ a <= h /\ a < b /\ b <= h

\* The search stated without its two minima.
IsNearest(points, h, p) ==
    /\ p \in points
    /\ \A q \in points : q # p => Precedes(h, PointHash(p), PointHash(q))

\* Server ids and label indices are natural numbers.
LEMMA LabelType ==
    /\ \A s \in Server : s \in Nat
    /\ \A i \in Replica : i \in Nat
<1>1. \A s \in Server : s \in Nat
  BY RingConstants
<1>2. \A i \in Replica : i \in Nat
  BY DEF Replica
<1> QED
  BY <1>1, <1>2

\* The hash of a point is a number below HashMax.
LEMMA PointHashType ==
    ASSUME NEW p \in Point
    PROVE  PointHash(p) \in 0 .. HashMax
BY RingConstants DEF PointHash, Point

\* The code's search, with its fall back to the global minimum, finds the
\* point that precedes all others.
LEMMA NextIsNearest ==
    ASSUME DistinctPoints, NEW points \in SUBSET Point, NEW h \in 0 .. HashMax, NEW p
    PROVE  IsNextReplica(points, h, p) <=> IsNearest(points, h, p)
<1>1. ASSUME NEW q \in Point
      PROVE  PointHash(q) \in Nat
  BY PointHashType, RingConstants
<1>2. ASSUME p \in points, NEW q \in points, q # p
      PROVE  /\ PointHash(p) # PointHash(q)
             /\ ~ Before(q, p) <=> PointHash(p) < PointHash(q)
  <2>1. PointHash(p) # PointHash(q)
    BY <1>2 DEF DistinctPoints
  <2> QED
    BY <1>1, <1>2, <2>1 DEF Before
<1>3. ASSUME p \in points
      PROVE  ~ Before(p, p)
  <2>1. PointHash(p) \in Nat
    BY <1>1, <1>3
  <2>2. p.server \in Server /\ p.replica \in Replica
    BY <1>3 DEF Point
  <2>3. p.server \in Nat /\ p.replica \in Nat
    BY <2>2, LabelType
  <2> QED
    BY <2>1, <2>3 DEF Before
<1>4. CASE Above(points, h) # {}
  <2>1. PICK a \in points : h < PointHash(a)
    BY <1>4 DEF Above
  <2>2. IsFirst(Above(points, h), p) <=>
            /\ p \in points
            /\ h < PointHash(p)
            /\ \A q \in points : h < PointHash(q) /\ q # p => PointHash(p) < PointHash(q)
    BY <1>2, <1>3 DEF IsFirst, Above
  <2>3. ASSUME IsFirst(Above(points, h), p)
        PROVE  IsNearest(points, h, p)
    BY <1>1, <2>2, <2>3 DEF IsNearest, Precedes
  <2>4. ASSUME IsNearest(points, h, p)
        PROVE  IsFirst(Above(points, h), p)
    <3>1. h < PointHash(p)
      BY <1>1, <2>1, <2>4 DEF IsNearest, Precedes
    <3> QED
      BY <1>1, <2>2, <2>4, <3>1 DEF IsNearest, Precedes
  <2> QED
    BY <1>4, <2>3, <2>4 DEF IsNextReplica
<1>5. CASE Above(points, h) = {}
  <2>1. \A q \in points : PointHash(q) <= h
    BY <1>1, <1>5 DEF Above
  <2>2. IsFirst(points, p) <=>
            p \in points /\ \A q \in points : q # p => PointHash(p) < PointHash(q)
    BY <1>2, <1>3 DEF IsFirst
  <2>3. IsFirst(points, p) <=> IsNearest(points, h, p)
    BY <1>1, <2>1, <2>2 DEF IsNearest, Precedes
  <2> QED
    BY <1>5, <2>3 DEF IsNextReplica
<1> QED
  BY <1>4, <1>5

\* There is one next point at most.
LEMMA NearestUnique ==
    ASSUME NEW points \in SUBSET Point, NEW h \in 0 .. HashMax, NEW p, NEW q,
           IsNearest(points, h, p), IsNearest(points, h, q)
    PROVE  p = q
<1>1. /\ p \in Point /\ PointHash(p) \in Nat
      /\ q \in Point /\ PointHash(q) \in Nat
  BY PointHashType, RingConstants DEF IsNearest
<1> QED
  BY <1>1 DEF IsNearest, Precedes

\* What is next among more points is next among fewer.
LEMMA NearestInSubset ==
    ASSUME NEW points, NEW fewer \in SUBSET points, NEW h, NEW p \in fewer,
           IsNearest(points, h, p)
    PROVE  IsNearest(fewer, h, p)
BY DEF IsNearest

\* A new point y in front of the point p that was next: the documents between
\* p's predecessor and y are now y's, and p is what follows y.
LEMMA NewcomerIsNearest ==
    ASSUME NEW points \in SUBSET Point, NEW y \in Point, NEW h \in 0 .. HashMax, NEW p,
           IsNearest(points, h, p), Precedes(h, PointHash(y), PointHash(p))
    PROVE  /\ IsNearest(points \union {y}, h, y)
           /\ y \notin points => IsNearest(points, PointHash(y), p)
<1>1. ASSUME NEW q \in Point
      PROVE  PointHash(q) \in Nat
  BY PointHashType, RingConstants
<1>2. p \in points /\ PointHash(p) \in Nat /\ PointHash(y) \in Nat
  BY <1>1 DEF IsNearest
<1>3. ASSUME NEW q \in points, q # p
      PROVE  /\ Precedes(h, PointHash(y), PointHash(q))
             /\ Precedes(PointHash(y), PointHash(p), PointHash(q)) \/ q = y
  BY <1>1, <1>2, <1>3 DEF IsNearest, Precedes
<1> QED
  BY <1>2, <1>3 DEF IsNearest, Precedes

\* A point p that was next is removed with others: what follows it among the
\* points left is next.
LEMMA SuccessorIsNearest ==
    ASSUME NEW points \in SUBSET Point, NEW left \in SUBSET points, NEW h \in 0 .. HashMax,
           NEW p \in points \ left, NEW q, 
           IsNearest(points, h, p), IsNearest(left, PointHash(p), q)
    PROVE  IsNearest(left, h, q)
<1>1. ASSUME NEW r \in Point
      PROVE  PointHash(r) \in Nat
  BY PointHashType, RingConstants
<1>2. PointHash(p) \in Nat /\ q \in left /\ q # p /\ PointHash(q) \in Nat
  BY <1>1 DEF IsNearest
<1>3. ASSUME NEW r \in left, r # q
      PROVE  Precedes(h, PointHash(q), PointHash(r))
  <2>1. /\ PointHash(r) \in Nat
        /\ Precedes(h, PointHash(p), PointHash(q))
        /\ Precedes(h, PointHash(p), PointHash(r))
        /\ Precedes(PointHash(p), PointHash(q), PointHash(r))
    BY <1>1, <1>2, <1>3 DEF IsNearest
  <2> QED
    BY <1>2, <2>1 DEF Precedes
<1> QED
  BY <1>2, <1>3 DEF IsNearest

\* A server finds among its own labels the one the whole ring has next, if
\* that one is its own.
LEMMA ExecutorIsNearest ==
    ASSUME DistinctPoints, NEW s \in Server, NEW h \in 0 .. HashMax, NEW i \in Replica
    PROVE  IsReplicaExecutor(s, h, i) <=>
               IsNearest(Points({s}), h, [server |-> s, replica |-> i])
<1>1. Points({s}) \in SUBSET Point
  BY DEF Points, Point
<1>2. {p \in Above(Points({s}), h) : PointHash(p) < HashMax} = Above(Points({s}), h)
  BY <1>1 DEF Above, DistinctPoints
<1>3. IsReplicaExecutor(s, h, i) <=>
          IsNextReplica(Points({s}), h, [server |-> s, replica |-> i])
  BY <1>2 DEF IsReplicaExecutor, IsNextReplica
<1> QED
  BY <1>1, <1>3, NextIsNearest

-----------------------------------------------------------------------------
(***************************************************************************)
(* The same laws of the search itself.                                     *)
(***************************************************************************)

\* A search has one answer.
LEMMA NextUnique ==
    ASSUME DistinctPoints, NEW points \in SUBSET Point, NEW h \in 0 .. HashMax, NEW p, NEW q,
           IsNextReplica(points, h, p), IsNextReplica(points, h, q)
    PROVE  p = q
BY NextIsNearest, NearestUnique

\* A search among fewer points that still include the answer finds it again.
LEMMA NextInSubset ==
    ASSUME DistinctPoints, NEW points \in SUBSET Point, NEW fewer \in SUBSET points,
           NEW h \in 0 .. HashMax, NEW p \in fewer, IsNextReplica(points, h, p)
    PROVE  IsNextReplica(fewer, h, p)
<1>1. IsNearest(fewer, h, p)
  BY NextIsNearest, NearestInSubset
<1> QED
  BY <1>1, NextIsNearest

\* A new point either leaves the answer as it is, or it is the new answer and
\* the old answer is what follows it.
LEMMA NewcomerSplits ==
    ASSUME DistinctPoints, NEW points \in SUBSET Point, NEW y \in Point \ points,
           NEW h \in 0 .. HashMax, NEW p, IsNextReplica(points, h, p)
    PROVE  /\ p \in points
           /\ \/ /\ ~ Precedes(h, PointHash(y), PointHash(p))
                 /\ IsNextReplica(points \union {y}, h, p)
              \/ /\ Precedes(h, PointHash(y), PointHash(p))
                 /\ IsNextReplica(points \union {y}, h, y)
                 /\ IsNextReplica(points, PointHash(y), p)
<1>1. IsNearest(points, h, p) /\ p \in points
  BY NextIsNearest DEF IsNearest
<1>2. points \union {y} \in SUBSET Point /\ PointHash(y) \in 0 .. HashMax
  BY PointHashType
<1>3. CASE Precedes(h, PointHash(y), PointHash(p))
  <2>1. IsNearest(points \union {y}, h, y) /\ IsNearest(points, PointHash(y), p)
    BY <1>1, <1>3, NewcomerIsNearest
  <2> QED
    BY <1>1, <1>2, <1>3, <2>1, NextIsNearest
<1>4. CASE ~ Precedes(h, PointHash(y), PointHash(p))
  <2>1. PointHash(y) # PointHash(p) /\ PointHash(y) \in Nat /\ PointHash(p) \in Nat
    BY <1>1, <1>2, PointHashType, RingConstants DEF DistinctPoints
  <2>2. Precedes(h, PointHash(p), PointHash(y))
    BY <1>4, <2>1 DEF Precedes
  <2>3. IsNearest(points \union {y}, h, p)
    BY <1>1, <2>2 DEF IsNearest
  <2> QED
    BY <1>1, <1>2, <1>4, <2>3, NextIsNearest
<1> QED
  BY <1>3, <1>4

\* What follows a removed answer is the answer among the points left.
LEMMA SuccessorIsNext ==
    ASSUME DistinctPoints, NEW points \in SUBSET Point, NEW left \in SUBSET points,
           NEW h \in 0 .. HashMax, NEW p \in points \ left, NEW q,
           IsNextReplica(points, h, p), IsNextReplica(left, PointHash(p), q)
    PROVE  IsNextReplica(left, h, q)
<1>1. IsNearest(points, h, p) /\ IsNearest(left, PointHash(p), q)
  BY NextIsNearest, PointHashType
<1>2. IsNearest(left, h, q)
  BY <1>1, SuccessorIsNearest
<1> QED
  BY <1>2, NextIsNearest

\* The label that executes a task is the answer on the whole ring, if that
\* answer is a label of the server at all.
LEMMA ExecutorIsNext ==
    ASSUME DistinctPoints, NEW points \in SUBSET Point, NEW s \in Server,
           Points({s}) \subseteq points, NEW h \in 0 .. HashMax,
           NEW i \in Replica, NEW j \in Replica, IsReplicaExecutor(s, h, i),
           IsNextReplica(points, h, [server |-> s, replica |-> j])
    PROVE  i = j
<1>1. Points({s}) \in SUBSET Point
  BY DEF Points, Point
<1>2. [server |-> s, replica |-> j] \in Points({s})
  BY DEF Points
<1>3. IsNextReplica(Points({s}), h, [server |-> s, replica |-> j])
  BY <1>2, NextInSubset
<1>4. IsNextReplica(Points({s}), h, [server |-> s, replica |-> i])
  BY <1>1, ExecutorIsNearest, NextIsNearest
<1>5. [server |-> s, replica |-> i] = [server |-> s, replica |-> j]
  BY <1>1, <1>3, <1>4, NextUnique
<1> QED
  BY <1>5

\* A document that one label of a newcomer draws from all older points is
\* drawn, once the newcomer has all its labels, by the label executing for it.
LEMMA JoinedIsNext ==
    ASSUME DistinctPoints, NEW points \in SUBSET Point, NEW s \in Server,
           NEW h \in 0 .. HashMax, NEW i \in Replica, NEW j \in Replica,
           IsReplicaExecutor(s, h, i),
           [server |-> s, replica |-> j] \notin points,
           IsNextReplica(points \union {[server |-> s, replica |-> j]}, h,
                         [server |-> s, replica |-> j])
    PROVE  IsNextReplica(points \union Points({s}), h, [server |-> s, replica |-> i])
<1> DEFINE pi == [server |-> s, replica |-> i]
           pj == [server |-> s, replica |-> j]
<1>1. /\ Points({s}) \in SUBSET Point
      /\ pi \in Points({s}) /\ pj \in Points({s})
  BY DEF Points, Point
<1>2. IsNearest(Points({s}), h, pi)
  BY ExecutorIsNearest
<1>3. IsNearest(points \union {pj}, h, pj)
  BY <1>1, NextIsNearest
<1>4. ASSUME NEW q \in Point
      PROVE  PointHash(q) \in Nat
  BY PointHashType, RingConstants
<1> HIDE DEF pi, pj
<1>5. ASSUME NEW q \in points, q # pi
      PROVE  Precedes(h, PointHash(pi), PointHash(q))
  <2>1. Precedes(h, PointHash(pj), PointHash(q))
    BY <1>3, <1>5 DEF pj, IsNearest
  <2>2. pi = pj \/ Precedes(h, PointHash(pi), PointHash(pj))
    BY <1>1, <1>2 DEF IsNearest
  <2>3. PointHash(pi) \in Nat /\ PointHash(pj) \in Nat /\ PointHash(q) \in Nat
    BY <1>1, <1>4
  <2>4. ASSUME Precedes(h, PointHash(pi), PointHash(pj))
        PROVE  Precedes(h, PointHash(pi), PointHash(q))
    BY <2>1, <2>3, <2>4 DEF Precedes
  <2> QED
    BY <2>1, <2>2, <2>4
<1>6. IsNearest(points \union Points({s}), h, pi)
  BY <1>2, <1>5 DEF IsNearest
<1> QED
  BY <1>1, <1>6, NextIsNearest DEF pi

-----------------------------------------------------------------------------
(***************************************************************************)
(* Every step keeps the types of the variables, and every cache within its *)
(* capacity and without a key twice.                                       *)
(***************************************************************************)

\* What a job holds.
LEMMA JobShape ==
    ASSUME job \in Job
    PROVE  /\ job.op = "get" => job.doc \in Doc /\ job.target \in Server
           /\ job.op = "add" =>
                /\ job.newcomer \in Server /\ job.label \in Replica
                /\ job.target \in Server /\ job.index \in Replica
           /\ job.op = "remove" => job.target \in Server
           /\ job.op \in {"idle", "get", "add", "remove", "crashed", "finished"}
           /\ job.op = "idle" <=> job = Idle
           /\ job.op = "crashed" <=> job = Crashed
           /\ job.op = "finished" <=> job = Finished
BY DEF Job, Idle, Crashed, Finished, Getting, Adding, Removing, Point

\* A job that drains a queue has a server.
LEMMA TargetType ==
    ASSUME job \in Job, Draining
    PROVE  job.target \in Server
BY JobShape DEF Draining

\* What server_edit_document leaves in the cache.
LEMMA EditedCache ==
    ASSUME TypeOK, CacheWellFormed, NEW s \in Server, capacity[s] > 0,
           NEW d \in Doc, NEW c \in Content, NEW after,
           after = LruPut(LruGet(cache[s], d), capacity[s], d, c)
    PROVE  /\ after \in Seq(Entry(Doc, Content))
           /\ KeysUnique(after)
           /\ Len(after) <= capacity[s]
           /\ WrittenTo(after, cache[s], [key |-> d, val |-> c])
<1> DEFINE before == cache[s]
           size == capacity[s]
           got == LruGet(before, d)
           e == [key |-> d, val |-> c]
<1>1. /\ before \in Seq(Entry(Doc, Content)) /\ KeysUnique(before)
      /\ Len(before) <= size /\ size \in Nat \ {0}
  BY DEF TypeOK, CacheWellFormed
<1>2. after = LruPut(got, size, d, c) /\ e = [key |-> d, val |-> c]
  OBVIOUS
<1> HIDE DEF before, size, e
<1>3. /\ got \in Seq(Entry(Doc, Content))
      /\ KeysUnique(got)
      /\ Len(got) <= size
      /\ \A n \in DOMAIN got : \E m \in DOMAIN before : before[m] = got[n]
  BY <1>1, GetFacts
<1> HIDE DEF got
<1>4. /\ after \in Seq(Entry(Doc, Content))
      /\ KeysUnique(after)
      /\ Len(after) <= size
      /\ \A n \in DOMAIN after :
            \/ after[n] = e
            \/ after[n].key # d /\ \E m \in DOMAIN got : got[m] = after[n]
  BY <1>1, <1>2, <1>3, PutFacts
<1>5. e.key = d
  BY DEF e
<1>6. WrittenTo(after, before, e)
  BY <1>3, <1>4, <1>5 DEF WrittenTo
<1> QED
  BY <1>4, <1>6 DEF before, size, e

\* A cache of s after a GET of d: pairs as before, or the document as stored.
ReadFrom(after, s, d) ==
    \A n \in DOMAIN after :
        \/ \E m \in DOMAIN cache[s] : cache[s][m] = after[n]
        \/ \E doc \in Stored(s, d) : after[n].key = d /\ after[n].val = doc.content

\* What server_get_document leaves in the cache.
LEMMA ReadCache ==
    ASSUME TypeOK, CacheWellFormed, NEW s \in Server, NEW d \in Doc, GetDocument(s, d)
    PROVE  \E after \in Seq(Entry(Doc, Content)) :
            /\ cache' = [cache EXCEPT ![s] = after]
            /\ KeysUnique(after)
            /\ Len(after) <= capacity[s]
            /\ ReadFrom(after, s, d)
<1> DEFINE before == cache[s]
           size == capacity[s]
<1>1. /\ before \in Seq(Entry(Doc, Content)) /\ KeysUnique(before)
      /\ Len(before) <= size /\ size \in Nat \ {0}
      /\ cache = [cache EXCEPT ![s] = before]
  BY DEF TypeOK, CacheWellFormed, GetDocument
<1>2. CASE GetNothing(s, d)
  BY <1>1, <1>2 DEF GetNothing, ReadFrom
<1>3. CASE GetFromDatabase(s, d)
  <2>1. PICK doc \in Stored(s, d) :
            cache' = [cache EXCEPT ![s] = LruPut(cache[s], capacity[s], d, doc.content)]
    BY <1>3 DEF GetFromDatabase
  <2>2. doc.content \in Content
    BY DEF Stored, TypeOK, Document
  <2> DEFINE e == [key |-> d, val |-> doc.content]
             after == LruPut(before, size, d, doc.content)
  <2>3. e = [key |-> d, val |-> doc.content] /\ after = LruPut(before, size, d, doc.content)
    OBVIOUS
  <2>4. cache' = [cache EXCEPT ![s] = after]
    BY <2>1
  <2> HIDE DEF before, size, e, after
  <2>5. /\ after \in Seq(Entry(Doc, Content))
        /\ KeysUnique(after)
        /\ Len(after) <= size
        /\ \A n \in DOMAIN after :
            \/ after[n] = e
            \/ after[n].key # d /\ \E m \in DOMAIN before : before[m] = after[n]
    BY <1>1, <2>2, <2>3, PutFacts
  <2>6. \A n \in DOMAIN after :
            \/ \E m \in DOMAIN before : before[m] = after[n]
            \/ after[n].key = d /\ after[n].val = doc.content
    BY <2>3, <2>5
  <2> QED
    BY <2>4, <2>5, <2>6 DEF before, size, ReadFrom
<1>4. CASE GetFromCache(s, d)
  <2> DEFINE v == CachedValue(before, d)
             got == LruGet(before, d)
             e == [key |-> d, val |-> v]
             after == LruPutNoEvict(got, d, v)
  <2>1. IsCached(before, d) /\ cache' = [cache EXCEPT ![s] = after]
    BY <1>4 DEF GetFromCache
  <2>2. PICK m \in DOMAIN before : before[m].key = d /\ v = before[m].val
    BY <2>1, KeyIndexFacts DEF CachedValue
  <2>3. before[m] \in Entry(Doc, Content)
    BY <1>1, LenProperties, ElementOfSeq
  <2>4. v \in Content /\ before[m] = e
    BY <2>2, <2>3 DEF Entry
  <2>5. e = [key |-> d, val |-> v] /\ after = LruPutNoEvict(got, d, v)
    OBVIOUS
  <2> HIDE DEF before, size, e, after, v
  <2>6. /\ got \in Seq(Entry(Doc, Content))
        /\ KeysUnique(got)
        /\ Len(got) = Len(before)
        /\ IsCached(got, d)
        /\ \A n \in DOMAIN got : \E l \in DOMAIN before : before[l] = got[n]
    BY <1>1, <2>1, GetFacts
  <2> HIDE DEF got
  <2>7. /\ after \in Seq(Entry(Doc, Content))
        /\ KeysUnique(after)
        /\ Len(after) = IF IsCached(got, d) THEN Len(got) ELSE Len(got) + 1
        /\ \A n \in DOMAIN after :
            \/ after[n] = e
            \/ after[n].key # d /\ \E l \in DOMAIN got : got[l] = after[n]
    BY <2>4, <2>5, <2>6, PutNoEvictFacts
  <2>8. Len(after) <= size
    BY <1>1, <2>6, <2>7
  <2>9. \A n \in DOMAIN after : \E l \in DOMAIN before : before[l] = after[n]
    BY <2>4, <2>6, <2>7
  <2> QED
    BY <2>1, <2>7, <2>8, <2>9 DEF before, size, ReadFrom
<1> QED
  BY <1>2, <1>3, <1>4 DEF GetDocument

\* The task that is executed, and what it leaves in the cache.
LEMMA ExecutedTask ==
    ASSUME TypeOK, CacheWellFormed, NEW s \in Server, ExecuteTask(s)
    PROVE  \E after \in Seq(Entry(Doc, Content)), d \in Doc, c \in Content :
            /\ Head(taskQueue[s]) = [doc |-> d, content |-> c]
            /\ EditDocument(s, d, c)
            /\ cache' = [cache EXCEPT ![s] = after]
            /\ KeysUnique(after)
            /\ Len(after) <= capacity[s]
            /\ WrittenTo(after, cache[s], [key |-> d, val |-> c])
<1>1. taskQueue[s] \in Seq(Task) /\ taskQueue[s] # <<>> /\ capacity[s] > 0
  BY DEF TypeOK, ExecuteTask
<1>2. Head(taskQueue[s]) \in Task
  BY <1>1, HeadTailProperties
<1>3. PICK d \in Doc, c \in Content : Head(taskQueue[s]) = [doc |-> d, content |-> c]
  BY <1>2 DEF Task
<1>4. EditDocument(s, d, c)
  BY <1>3 DEF ExecuteTask
<1>5. PICK after :
            /\ after = LruPut(LruGet(cache[s], d), capacity[s], d, c)
            /\ cache' = [cache EXCEPT ![s] = after]
  BY <1>4 DEF EditDocument
<1>6. /\ after \in Seq(Entry(Doc, Content))
      /\ KeysUnique(after)
      /\ Len(after) <= capacity[s]
      /\ WrittenTo(after, cache[s], [key |-> d, val |-> c])
  BY <1>1, <1>5, EditedCache
<1> QED
  BY <1>3, <1>4, <1>5, <1>6

\* The types of what a task changes.
LEMMA ExecuteTaskTypes ==
    ASSUME TypeOK, CacheWellFormed, NEW s \in Server, ExecuteTask(s)
    PROVE  /\ taskQueue' \in [Server -> Seq(Task)]
           /\ localDatabase' \in [Server -> SUBSET Document]
           /\ cache' \in [Server -> Seq(Entry(Doc, Content))]
           /\ capacity' \in [Server -> Nat]
           /\ reply' \in Reply
<1>1. PICK after \in Seq(Entry(Doc, Content)), d \in Doc, c \in Content :
            EditDocument(s, d, c) /\ cache' = [cache EXCEPT ![s] = after]
  BY ExecutedTask
<1>2. localDatabase' \in [Server -> SUBSET Document] /\ reply' \in Reply
  <2>1. CASE OverrideDocument(s, d, c)
    <3>1. PICK doc \in Stored(s, d) :
            localDatabase' = [localDatabase EXCEPT
                                ![s] = (@ \ {doc}) \union {[doc EXCEPT !.content = c]}]
      BY <2>1 DEF OverrideDocument
    <3>2. [doc EXCEPT !.content = c] \in Document
      <4>1. doc \in Document
        BY DEF Stored, TypeOK
      <4> QED
        BY <4>1 DEF Document
    <3>3. reply' \in Reply
      BY <2>1 DEF OverrideDocument, Reply
    <3> QED
      BY <3>1, <3>2, <3>3 DEF TypeOK
  <2>2. CASE CreateDocument(s, d, c)
    <3>1. PICK i \in Replica :
            localDatabase' = [localDatabase EXCEPT
                                ![s] = @ \union {[name |-> d, content |-> c, replica |-> i]}]
      BY <2>2 DEF CreateDocument
    <3>2. [name |-> d, content |-> c, replica |-> i] \in Document
      BY DEF Document
    <3>3. reply' \in Reply
      BY <2>2 DEF CreateDocument, Reply
    <3> QED
      BY <3>1, <3>2, <3>3 DEF TypeOK
  <2> QED
    BY <1>1, <2>1, <2>2 DEF EditDocument
<1>3. cache' \in [Server -> Seq(Entry(Doc, Content))]
  BY <1>1 DEF TypeOK
<1>4. taskQueue' \in [Server -> Seq(Task)] /\ capacity' \in [Server -> Nat]
  <2>1. Tail(taskQueue[s]) \in Seq(Task)
    BY HeadTailProperties DEF TypeOK, ExecuteTask
  <2> QED
    BY <2>1 DEF ExecuteTask, TypeOK
<1> QED
  BY <1>2, <1>3, <1>4

\* What server_edit_document leaves in the local database: one document of that
\* name, filed as before or as the ring search of a new document says.
LEMMA EditedDatabase ==
    ASSUME TypeOK, StoredOnce, NEW s \in Server, NEW d \in Doc, NEW c \in Content,
           EditDocument(s, d, c)
    PROVE  \E e \in Document :
            /\ e.name = d /\ e.content = c
            /\ localDatabase' = [localDatabase EXCEPT
                    ![s] = {b \in localDatabase[s] : b.name # d} \union {e}]
            /\ \/ \E doc \in Stored(s, d) : doc.replica = e.replica
               \/ Stored(s, d) = {} /\ IsReplicaExecutor(s, DocHash[d], e.replica)
<1>1. CASE OverrideDocument(s, d, c)
  <2>1. PICK doc \in Stored(s, d) :
            localDatabase' = [localDatabase EXCEPT
                ![s] = (localDatabase[s] \ {doc}) \union {[doc EXCEPT !.content = c]}]
    BY <1>1 DEF OverrideDocument
  <2>2. PICK e : e = [doc EXCEPT !.content = c]
    OBVIOUS
  <2>3. doc \in Document /\ doc.name = d
    BY DEF Stored, TypeOK
  <2>4. e \in Document /\ e.name = d /\ e.content = c /\ e.replica = doc.replica
    BY <2>2, <2>3 DEF Document
  <2>5. localDatabase[s] \ {doc} = {b \in localDatabase[s] : b.name # d}
    BY <2>3 DEF Stored, StoredOnce
  <2>6. localDatabase' = [localDatabase EXCEPT
                ![s] = {b \in localDatabase[s] : b.name # d} \union {e}]
    BY <2>1, <2>2, <2>5
  <2> QED
    BY <2>4, <2>6
<1>2. CASE CreateDocument(s, d, c)
  <2>1. PICK i \in Replica :
            /\ IsReplicaExecutor(s, DocHash[d], i)
            /\ localDatabase' = [localDatabase EXCEPT
                ![s] = localDatabase[s] \union {[name |-> d, content |-> c, replica |-> i]}]
    BY <1>2 DEF CreateDocument
  <2>2. PICK e : e = [name |-> d, content |-> c, replica |-> i]
    OBVIOUS
  <2>3. e \in Document /\ e.name = d /\ e.content = c /\ e.replica = i
    BY <2>2 DEF Document
  <2>4. Stored(s, d) = {}
    BY <1>2 DEF CreateDocument
  <2>5. localDatabase[s] = {b \in localDatabase[s] : b.name # d}
    BY <2>4 DEF Stored
  <2>6. localDatabase' = [localDatabase EXCEPT
                ![s] = {b \in localDatabase[s] : b.name # d} \union {e}]
    BY <2>1, <2>2, <2>5
  <2> QED
    BY <2>1, <2>3, <2>4, <2>6
<1> QED
  BY <1>1, <1>2 DEF EditDocument

\* Types are kept by every step.
LEMMA TypeStep ==
    ASSUME IInv, [Next]_vars
    PROVE  TypeOK'
<1> USE DEF IInv
<1>1. ASSUME NEW d \in Doc, NEW c \in Content, Edit(d, c)
      PROVE  TypeOK'
  <2>1. PICK p \in Points(live) : QueueEdit(p.server, d, c)
    BY <1>1 DEF Edit
  <2>2. p.server \in Server /\ [doc |-> d, content |-> c] \in Task
    BY <1>1 DEF Points, TypeOK, Task
  <2>3. Append(taskQueue[p.server], [doc |-> d, content |-> c]) \in Seq(Task)
    BY <2>2, AppendProperties DEF TypeOK
  <2>4. taskQueue' \in [Server -> Seq(Task)]
    BY <2>1, <2>2, <2>3 DEF QueueEdit, PushTask, TypeOK
  <2> QED
    BY <1>1, <2>1, <2>4 DEF Edit, QueueEdit, TypeOK, Reply
<1>2. ASSUME NEW d \in Doc, BeginGet(d)
      PROVE  TypeOK'
  BY <1>2 DEF BeginGet, TypeOK, Job, Reply, Points
<1>3. ASSUME FinishGet
      PROVE  TypeOK'
  <2>1. job.target \in Server /\ job.doc \in Doc /\ GetDocument(job.target, job.doc)
    BY <1>3, JobShape DEF FinishGet, TypeOK
  <2>2. PICK after \in Seq(Entry(Doc, Content)) : cache' = [cache EXCEPT ![job.target] = after]
    BY <2>1, ReadCache
  <2>3. cache' \in [Server -> Seq(Entry(Doc, Content))]
    BY <2>2 DEF TypeOK
  <2>4. reply' \in Reply
    <3>1. CASE GetFromCache(job.target, job.doc)
      <4>1. IsCached(cache[job.target], job.doc) /\ cache[job.target] \in Seq(Entry(Doc, Content))
        BY <2>1, <3>1 DEF GetFromCache, TypeOK
      <4>2. CachedValue(cache[job.target], job.doc) \in Content
        <5> DEFINE c == cache[job.target]
                   i == KeyIndex(c, job.doc)
        <5>1. i \in DOMAIN c
          BY <4>1, KeyIndexFacts
        <5>2. c[i] \in Entry(Doc, Content)
          BY <4>1, <5>1, ElementOfSeq, LenProperties
        <5> QED
          BY <5>2 DEF CachedValue, Entry
      <4> QED
        BY <2>1, <3>1, <4>2 DEF GetFromCache, Reply
    <3>2. CASE GetFromDatabase(job.target, job.doc)
      BY <2>1, <3>2 DEF GetFromDatabase, Stored, TypeOK, Document, Reply
    <3>3. CASE GetNothing(job.target, job.doc)
      BY <2>1, <3>3 DEF GetNothing, Reply
    <3> QED
      BY <2>1, <3>1, <3>2, <3>3 DEF GetDocument
  <2> QED
    BY <1>3, <2>1, <2>3, <2>4 DEF FinishGet, GetDocument, TypeOK, Job
<1>4. ASSUME DivideByZero \/ \E d \in Doc : ForwardToNobody(d)
      PROVE  TypeOK'
  BY <1>4 DEF ForwardToNobody, DivideByZero, TypeOK, Job, Reply
<1>5. ASSUME DrainTask
      PROVE  TypeOK'
  BY <1>5, TargetType, ExecuteTaskTypes DEF DrainTask, TypeOK
<1>6. ASSUME NEW x \in Server, NEW size \in CacheSize, BeginAdd(x, size)
      PROVE  TypeOK'
  <2>1. capacity' \in [Server -> Nat]
    BY <1>6, CacheSizes DEF BeginAdd, InitServer, TypeOK
  <2>2. live' \in SUBSET Server /\ job' \in Job
    <3>1. CASE live = {}
      BY <1>6, <3>1 DEF BeginAdd, TypeOK, Job
    <3>2. CASE live # {}
      <4>1. PICK p \in Points(live) : job' = Adding(x, 0, p)
        BY <1>6, <3>2 DEF BeginAdd
      <4>2. p \in Point
        BY DEF Points, Point, TypeOK
      <4>3. 0 \in Replica
        BY RingConstants DEF Replica
      <4> QED
        BY <1>6, <3>2, <4>1, <4>2, <4>3 DEF BeginAdd, TypeOK, Job
    <3> QED
      BY <3>1, <3>2
  <2> QED
    BY <1>6, <2>1, <2>2 DEF BeginAdd, InitServer, TypeOK, Reply
<1>7. ASSUME NEW doc \in Document, MoveDocument(doc)
      PROVE  TypeOK'
  <2>1. job.target \in Server /\ job.newcomer \in Server /\ job.label \in Replica
    BY <1>7, JobShape DEF MoveDocument, TypeOK
  <2>2. LruRemove(cache[job.target], doc.name) \in Seq(Entry(Doc, Content))
    BY <2>1, RemoveFacts DEF TypeOK, CacheWellFormed
  <2>3. cache' \in [Server -> Seq(Entry(Doc, Content))]
    BY <1>7, <2>2 DEF MoveDocument, TypeOK
  <2>4. localDatabase' \in [Server -> SUBSET Document]
    BY <1>7, <2>1 DEF MoveDocument, TypeOK, Document
  <2>5. UNCHANGED <<taskQueue, capacity, live, job>> /\ reply' \in Reply
    BY <1>7 DEF MoveDocument, Reply
  <2> QED
    BY <2>3, <2>4, <2>5 DEF TypeOK
<1>8. ASSUME NextLabel
      PROVE  TypeOK'
  <2>1. job.newcomer \in Server /\ job.label \in Replica
    BY <1>8, JobShape DEF NextLabel, MovesDone, TypeOK
  <2>2. PICK p \in Points(live) : job' = Adding(job.newcomer, job.label + 1, p)
    BY <1>8 DEF NextLabel
  <2>3. p \in Point
    BY DEF Points, Point, TypeOK
  <2>4. job.label + 1 \in Replica
    BY <1>8, <2>1, RingConstants DEF NextLabel, Replica
  <2>5. job' \in Job
    BY <2>1, <2>2, <2>3, <2>4 DEF Job
  <2> QED
    BY <1>8, <2>5 DEF NextLabel, TypeOK, Reply
<1>9. ASSUME FinishAdd
      PROVE  TypeOK'
  <2>1. job.newcomer \in Server
    BY <1>9, JobShape DEF FinishAdd, MovesDone, TypeOK
  <2>2. PICK label \in [localDatabase[job.newcomer] -> Replica] :
            localDatabase' = [localDatabase EXCEPT
                ![job.newcomer] = {[doc EXCEPT !.replica = label[doc]] : doc \in @}]
    BY <1>9 DEF FinishAdd
  <2>3. \A doc \in localDatabase[job.newcomer] : [doc EXCEPT !.replica = label[doc]] \in Document
    <3> SUFFICES ASSUME NEW doc \in localDatabase[job.newcomer]
                 PROVE  [doc EXCEPT !.replica = label[doc]] \in Document
      OBVIOUS
    <3>1. doc \in Document /\ label[doc] \in Replica
      BY <2>1 DEF TypeOK
    <3> QED
      BY <3>1 DEF Document
  <2>4. localDatabase' \in [Server -> SUBSET Document]
    BY <2>1, <2>2, <2>3 DEF TypeOK
  <2>5. /\ live' \in SUBSET Server /\ job' \in Job /\ reply' \in Reply
        /\ UNCHANGED <<taskQueue, cache, capacity>>
    BY <1>9, <2>1 DEF FinishAdd, TypeOK, Job, Reply
  <2> QED
    BY <2>4, <2>5 DEF TypeOK
<1>10. ASSUME NEW x \in Server, BeginRemove(x)
       PROVE  TypeOK'
  BY <1>10 DEF BeginRemove, TypeOK, Reply, Job
<1>11. ASSUME NEW doc \in Document, DistributeDocument(doc)
       PROVE  TypeOK'
  <2>1. PICK p \in Points(live) :
            localDatabase' = [localDatabase EXCEPT
                ![job.target] = @ \ {doc},
                ![p.server] = @ \union {[doc EXCEPT !.replica = p.replica]}]
    BY <1>11 DEF DistributeDocument
  <2>2. p.server \in Server /\ p.replica \in Replica
    BY DEF Points, TypeOK
  <2>3. localDatabase' \in [Server -> SUBSET Document]
    BY <2>1, <2>2 DEF TypeOK, Document
  <2>4. UNCHANGED <<taskQueue, cache, capacity, live, job>> /\ reply' \in Reply
    BY <1>11 DEF DistributeDocument, Reply
  <2> QED
    BY <2>3, <2>4 DEF TypeOK
<1>12. ASSUME FinishRemove
       PROVE  TypeOK'
  <2>1. <<>> \in Seq(Task) /\ <<>> \in Seq(Entry(Doc, Content))
    BY EmptySeq
  <2>2. /\ taskQueue' \in [Server -> Seq(Task)]
        /\ localDatabase' \in [Server -> SUBSET Document]
        /\ cache' \in [Server -> Seq(Entry(Doc, Content))]
        /\ capacity' \in [Server -> Nat]
    BY <1>12, <2>1 DEF FinishRemove, FreeServer, TypeOK
  <2>3. live' = live /\ job' \in Job /\ reply' \in Reply
    BY <1>12 DEF FinishRemove, FreeServer, Job, Reply
  <2> QED
    BY <2>2, <2>3 DEF TypeOK
<1>13. ASSUME Finish
       PROVE  TypeOK'
  <2>1. <<>> \in Seq(Task) /\ <<>> \in Seq(Entry(Doc, Content))
    BY EmptySeq
  <2> QED
    BY <1>13, <2>1 DEF Finish, TypeOK, Reply, Job
<1>14. ASSUME UNCHANGED vars
       PROVE  TypeOK'
  BY <1>14 DEF vars, serverVars, TypeOK
<1> QED
  BY <1>1, <1>2, <1>3, <1>4, <1>5, <1>6, <1>7, <1>8, <1>9, <1>10, <1>11, <1>12, <1>13, <1>14
     DEF Next, Request, Progress, Ended

\* Between requests a server that is not live holds nothing.
LEMMA RestIsEmpty ==
    ASSUME Filing, job = Idle, NEW x \in Server, x \notin live
    PROVE  taskQueue[x] = <<>> /\ localDatabase[x] = {} /\ cache[x] = <<>>
BY DEF Filing, RestEmpty, InTransit, Idle

\* Capacities are respected by every step.
LEMMA WellFormedStep ==
    ASSUME IInv, [Next]_vars
    PROVE  CacheWellFormed'
<1> DEFINE Ok(s) == Len(cache[s]) <= capacity[s] /\ KeysUnique(cache[s])
<1>0. TypeOK /\ CacheWellFormed /\ StoredOnce /\ (job # Crashed => Filing)
  BY DEF IInv
<1>1. ASSUME UNCHANGED <<cache, capacity>>
      PROVE  CacheWellFormed'
  BY <1>0, <1>1 DEF CacheWellFormed
<1>2. ASSUME FinishGet
      PROVE  CacheWellFormed'
  <2>1. job.target \in Server /\ job.doc \in Doc /\ GetDocument(job.target, job.doc)
    BY <1>0, <1>2, JobShape DEF FinishGet, TypeOK
  <2>2. PICK after \in Seq(Entry(Doc, Content)) :
            /\ cache' = [cache EXCEPT ![job.target] = after]
            /\ KeysUnique(after) /\ Len(after) <= capacity[job.target]
    BY <1>0, <2>1, ReadCache
  <2>3. capacity' = capacity
    BY <2>1 DEF GetDocument
  <2> QED
    BY <1>0, <2>2, <2>3 DEF CacheWellFormed, TypeOK
<1>3. ASSUME DrainTask
      PROVE  CacheWellFormed'
  <2>1. job.target \in Server /\ ExecuteTask(job.target)
    BY <1>0, <1>3, TargetType DEF DrainTask, TypeOK
  <2>2. PICK after \in Seq(Entry(Doc, Content)) :
            /\ cache' = [cache EXCEPT ![job.target] = after]
            /\ KeysUnique(after) /\ Len(after) <= capacity[job.target]
    BY <1>0, <2>1, ExecutedTask
  <2>3. capacity' = capacity
    BY <2>1 DEF ExecuteTask
  <2> QED
    BY <1>0, <2>2, <2>3 DEF CacheWellFormed, TypeOK
<1>4. ASSUME NEW x \in Server, NEW size \in CacheSize, BeginAdd(x, size)
      PROVE  CacheWellFormed'
  <2>1. job = Idle /\ x \notin live /\ cache' = cache /\ capacity' = [capacity EXCEPT ![x] = size]
    BY <1>4 DEF BeginAdd, InitServer
  <2>2. Filing
    BY <1>0, <2>1 DEF Idle, Crashed
  <2>3. cache[x] = <<>>
    BY <2>1, <2>2, RestIsEmpty
  <2>4. Len(cache[x]) = 0 /\ KeysUnique(cache[x]) /\ size \in Nat
    BY <2>3, CacheSizes DEF KeysUnique
  <2> QED
    BY <1>0, <2>1, <2>4 DEF CacheWellFormed, TypeOK
<1>5. ASSUME NEW doc \in Document, MoveDocument(doc)
      PROVE  CacheWellFormed'
  <2>1. /\ job.target \in Server
        /\ cache' = [cache EXCEPT ![job.target] = LruRemove(cache[job.target], doc.name)]
        /\ capacity' = capacity
    BY <1>0, <1>5, JobShape DEF MoveDocument, TypeOK
  <2>2. /\ cache[job.target] \in Seq(Entry(Doc, Content))
        /\ KeysUnique(cache[job.target])
        /\ Len(cache[job.target]) <= capacity[job.target]
        /\ capacity[job.target] \in Nat
    BY <1>0, <2>1 DEF CacheWellFormed, TypeOK
  <2>3. PICK after :
            /\ after = LruRemove(cache[job.target], doc.name)
            /\ KeysUnique(after)
            /\ Len(after) = IF IsCached(cache[job.target], doc.name)
                            THEN Len(cache[job.target]) - 1 ELSE Len(cache[job.target])
    BY <2>2, RemoveFacts
  <2>4. Len(cache[job.target]) \in Nat
    BY <2>2, LenProperties
  <2>5. Len(after) <= capacity[job.target]
    BY <2>2, <2>3, <2>4
  <2> QED
    BY <1>0, <2>1, <2>3, <2>5 DEF CacheWellFormed, TypeOK
<1>6. ASSUME FinishRemove
      PROVE  CacheWellFormed'
  <2>1. /\ job.target \in Server
        /\ cache' = [cache EXCEPT ![job.target] = <<>>]
        /\ capacity' = [capacity EXCEPT ![job.target] = 0]
    BY <1>0, <1>6, JobShape DEF FinishRemove, FreeServer, TypeOK
  <2>2. Len(<<>>) = 0 /\ KeysUnique(<<>>)
    BY DEF KeysUnique
  <2> QED
    BY <1>0, <2>1, <2>2 DEF CacheWellFormed, TypeOK
<1>7. ASSUME Finish
      PROVE  CacheWellFormed'
  <2>1. cache' = [s \in Server |-> <<>>] /\ capacity' = [s \in Server |-> 0]
    BY <1>7 DEF Finish
  <2>2. Len(<<>>) = 0 /\ KeysUnique(<<>>)
    BY DEF KeysUnique
  <2> QED
    BY <2>1, <2>2 DEF CacheWellFormed
<1>8. ASSUME NEW d \in Doc, NEW c \in Content, Edit(d, c)
      PROVE  CacheWellFormed'
  BY <1>1, <1>8 DEF Edit, QueueEdit
<1> QED
  BY <1>1, <1>2, <1>3, <1>4, <1>5, <1>6, <1>7, <1>8
     DEF Next, Request, Progress, Ended, BeginGet, ForwardToNobody, NextLabel, FinishAdd,
         BeginRemove, DistributeDocument, DivideByZero, vars, serverVars

\* A live server caches what it stores, after every step.
LEMMA CoherentStep ==
    ASSUME IInv, [Next]_vars
    PROVE  CacheCoherent'
<1>0. TypeOK /\ StoredOnce /\ CacheWellFormed /\ CacheCoherent /\ (job # Crashed => Filing)
  BY DEF IInv
<1>1. ASSUME UNCHANGED cache, live' \subseteq live,
             \A s \in live : localDatabase[s] \subseteq localDatabase'[s]
      PROVE  CacheCoherent'
  BY <1>0, <1>1 DEF CacheCoherent, Stored
<1>2. ASSUME FinishGet
      PROVE  CacheCoherent'
  <2>1. job.target \in Server /\ job.doc \in Doc /\ GetDocument(job.target, job.doc)
    BY <1>0, <1>2, JobShape DEF FinishGet, TypeOK
  <2>2. PICK after \in Seq(Entry(Doc, Content)) :
            /\ cache' = [cache EXCEPT ![job.target] = after]
            /\ ReadFrom(after, job.target, job.doc)
    BY <1>0, <2>1, ReadCache
  <2>3. localDatabase' = localDatabase /\ live' = live
    BY <1>2, <2>1 DEF FinishGet, GetDocument
  <2>4. ASSUME job.target \in live, NEW n \in DOMAIN after
        PROVE  \E doc \in localDatabase[job.target] :
                    doc.name = after[n].key /\ doc.content = after[n].val
    BY <1>0, <2>2, <2>4 DEF CacheCoherent, ReadFrom, Stored
  <2>5. SUFFICES ASSUME NEW s \in live, NEW n \in DOMAIN cache'[s]
                 PROVE  \E doc \in localDatabase[s] :
                            doc.name = cache'[s][n].key /\ doc.content = cache'[s][n].val
    BY <2>3 DEF CacheCoherent, Stored
  <2>6. CASE s = job.target
    BY <1>0, <2>1, <2>2, <2>4, <2>6 DEF TypeOK
  <2>7. CASE s # job.target
    BY <1>0, <2>1, <2>2, <2>7 DEF TypeOK, CacheCoherent, Stored
  <2> QED
    BY <2>6, <2>7
<1>3. ASSUME DrainTask
      PROVE  CacheCoherent'
  <2>1. job.target \in Server /\ ExecuteTask(job.target) /\ live' = live
    BY <1>0, <1>3, TargetType DEF DrainTask, TypeOK
  <2>2. PICK after \in Seq(Entry(Doc, Content)), d \in Doc, c \in Content :
            /\ EditDocument(job.target, d, c)
            /\ cache' = [cache EXCEPT ![job.target] = after]
            /\ WrittenTo(after, cache[job.target], [key |-> d, val |-> c])
    BY <1>0, <2>1, ExecutedTask
  <2>3. PICK e \in Document :
            /\ e.name = d /\ e.content = c
            /\ localDatabase' = [localDatabase EXCEPT
                    ![job.target] = {b \in localDatabase[job.target] : b.name # d} \union {e}]
    BY <1>0, <2>1, <2>2, EditedDatabase
  <2>3a. /\ \A s \in Server \ {job.target} : localDatabase'[s] = localDatabase[s]
         /\ localDatabase'[job.target] = {b \in localDatabase[job.target] : b.name # d} \union {e}
    BY <1>0, <2>1, <2>3 DEF TypeOK
  <2>4. ASSUME job.target \in live, NEW n \in DOMAIN after
        PROVE  \E doc \in localDatabase'[job.target] :
                    doc.name = after[n].key /\ doc.content = after[n].val
    <3>1. CASE after[n] = [key |-> d, val |-> c]
      BY <2>3, <2>3a, <3>1
    <3>2. CASE after[n] # [key |-> d, val |-> c]
      <4>1. PICK m \in DOMAIN cache[job.target] : cache[job.target][m] = after[n]
        BY <2>2, <3>2 DEF WrittenTo
      <4>2. after[n].key # d
        BY <2>2, <3>2 DEF WrittenTo
      <4>3. PICK doc \in localDatabase[job.target] :
                doc.name = after[n].key /\ doc.content = after[n].val
        BY <1>0, <2>4, <4>1 DEF CacheCoherent, Stored
      <4> QED
        BY <2>3a, <4>2, <4>3
    <3> QED
      BY <3>1, <3>2
  <2>5. SUFFICES ASSUME NEW s \in live, NEW n \in DOMAIN cache'[s]
                 PROVE  \E doc \in localDatabase'[s] :
                            doc.name = cache'[s][n].key /\ doc.content = cache'[s][n].val
    BY <2>1 DEF CacheCoherent, Stored
  <2>6. CASE s = job.target
    BY <1>0, <2>1, <2>2, <2>4, <2>6 DEF TypeOK
  <2>7. CASE s # job.target
    BY <1>0, <2>1, <2>2, <2>3a, <2>7 DEF TypeOK, CacheCoherent, Stored
  <2> QED
    BY <2>6, <2>7
<1>4. ASSUME NEW x \in Server, NEW size \in CacheSize, BeginAdd(x, size)
      PROVE  CacheCoherent'
  <2>1. /\ job = Idle /\ x \notin live
        /\ cache' = cache /\ localDatabase' = localDatabase
        /\ live' \subseteq live \union {x}
    BY <1>4 DEF BeginAdd, InitServer
  <2>2. cache[x] = <<>>
    BY <1>0, <2>1, RestIsEmpty DEF Idle, Crashed
  <2> QED
    BY <1>0, <2>1, <2>2 DEF CacheCoherent, Stored
<1>5. ASSUME NEW doc \in Document, MoveDocument(doc)
      PROVE  CacheCoherent'
  <2>1. /\ job.target \in Server /\ job.newcomer \in Server
        /\ cache' = [cache EXCEPT ![job.target] = LruRemove(cache[job.target], doc.name)]
        /\ live' = live
        /\ \A s \in Server : localDatabase[s] \ {doc} \subseteq localDatabase'[s]
        /\ \A s \in Server \ {job.target} : localDatabase[s] \subseteq localDatabase'[s]
    BY <1>0, <1>5, JobShape DEF MoveDocument, TypeOK
  <2>2. /\ cache[job.target] \in Seq(Entry(Doc, Content))
        /\ KeysUnique(cache[job.target])
    BY <1>0, <2>1 DEF CacheWellFormed, TypeOK
  <2>3. PICK after :
            /\ after = LruRemove(cache[job.target], doc.name)
            /\ \A n \in DOMAIN after :
                /\ after[n].key # doc.name
                /\ \E m \in DOMAIN cache[job.target] : cache[job.target][m] = after[n]
    BY <2>2, RemoveFacts
  <2>4. SUFFICES ASSUME NEW s \in live, NEW n \in DOMAIN cache'[s]
                 PROVE  \E b \in localDatabase'[s] :
                            b.name = cache'[s][n].key /\ b.content = cache'[s][n].val
    BY <2>1 DEF CacheCoherent, Stored
  <2>5. CASE s = job.target
    <3>1. cache'[s] = after
      BY <1>0, <2>1, <2>3, <2>5 DEF TypeOK
    <3>2. PICK m \in DOMAIN cache[s] : cache[s][m] = after[n] /\ after[n].key # doc.name
      BY <2>3, <2>5, <3>1
    <3>3. PICK b \in localDatabase[s] : b.name = after[n].key /\ b.content = after[n].val
      BY <1>0, <3>2 DEF CacheCoherent, Stored
    <3> QED
      BY <2>1, <2>5, <3>1, <3>2, <3>3
  <2>6. CASE s # job.target
    BY <1>0, <2>1, <2>6 DEF TypeOK, CacheCoherent, Stored
  <2> QED
    BY <2>5, <2>6
<1>6. ASSUME FinishAdd
      PROVE  CacheCoherent'
  <2>1. /\ job.newcomer \in Server
        /\ live' = live \union {job.newcomer}
        /\ cache' = cache
        /\ \A s \in Server \ {job.newcomer} : localDatabase'[s] = localDatabase[s]
    BY <1>0, <1>6, JobShape DEF FinishAdd, MovesDone, TypeOK
  <2>2. job.newcomer \notin live /\ cache[job.newcomer] = <<>>
    BY <1>0, <1>6 DEF FinishAdd, MovesDone, Filing, AddInv, Crashed
  <2>3. SUFFICES ASSUME NEW s \in live', NEW n \in DOMAIN cache[s]
                 PROVE  \E doc \in localDatabase'[s] :
                            doc.name = cache[s][n].key /\ doc.content = cache[s][n].val
    BY <2>1 DEF CacheCoherent, Stored
  <2>4. s \in live /\ s # job.newcomer
    BY <2>1, <2>2, <2>3, EmptySeq
  <2>5. localDatabase'[s] = localDatabase[s]
    BY <1>0, <2>1, <2>4 DEF TypeOK
  <2> QED
    BY <1>0, <2>4, <2>5 DEF CacheCoherent, Stored
<1>7. ASSUME NEW doc \in Document, DistributeDocument(doc)
      PROVE  CacheCoherent'
  <2>1. PICK p \in Points(live) :
            localDatabase' = [localDatabase EXCEPT
                ![job.target] = @ \ {doc},
                ![p.server] = @ \union {[doc EXCEPT !.replica = p.replica]}]
    BY <1>7 DEF DistributeDocument
  <2>2. job.target \notin live
    BY <1>0, <1>7 DEF DistributeDocument, Filing, RemoveInv, Crashed
  <2>3. \A s \in live : localDatabase[s] \subseteq localDatabase'[s]
    BY <1>0, <2>1, <2>2 DEF TypeOK, Points
  <2> QED
    BY <1>1, <1>7, <2>3 DEF DistributeDocument
<1>8. ASSUME FinishRemove
      PROVE  CacheCoherent'
  <2>1. job.target \notin live
    BY <1>0, <1>8 DEF FinishRemove, Filing, RemoveInv, Crashed
  <2>2. live' = live
    BY <1>8 DEF FinishRemove
  <2>3. \A s \in live : localDatabase'[s] = localDatabase[s] /\ cache'[s] = cache[s]
    BY <1>0, <1>8, <2>1 DEF FinishRemove, FreeServer, TypeOK
  <2>4. SUFFICES ASSUME NEW s \in live, NEW n \in DOMAIN cache'[s]
                 PROVE  \E doc \in localDatabase'[s] :
                            doc.name = cache'[s][n].key /\ doc.content = cache'[s][n].val
    BY <2>2 DEF CacheCoherent, Stored
  <2> QED
    <3>1. cache'[s] = cache[s] /\ localDatabase'[s] = localDatabase[s]
      BY <2>3
    <3>2. \E doc \in localDatabase[s] :
                doc.name = cache[s][n].key /\ doc.content = cache[s][n].val
      BY <1>0, <3>1 DEF CacheCoherent, Stored
    <3> QED
      BY <3>1, <3>2
<1>9. ASSUME Finish
      PROVE  CacheCoherent'
  BY <1>9 DEF Finish, CacheCoherent
<1>10. ASSUME NEW d \in Doc, NEW c \in Content, Edit(d, c)
       PROVE  CacheCoherent'
  BY <1>1, <1>10 DEF Edit, QueueEdit
<1>11. ASSUME NEW x \in Server, BeginRemove(x)
       PROVE  CacheCoherent'
  BY <1>1, <1>11 DEF BeginRemove
<1>12. ASSUME UNCHANGED <<cache, live, localDatabase>>
       PROVE  CacheCoherent'
  BY <1>1, <1>12
<1> QED
  BY <1>2, <1>3, <1>4, <1>5, <1>6, <1>7, <1>8, <1>9, <1>10, <1>11, <1>12
     DEF Next, Request, Progress, Ended, BeginGet, ForwardToNobody, NextLabel,
         DivideByZero, vars, serverVars

-----------------------------------------------------------------------------
(***************************************************************************)
(* Every step keeps every document and every queued EDIT where the ring of *)
(* that step places it, and no document is ever stored twice.              *)
(***************************************************************************)

\* What a stored document is.
LEMMA DocumentFacts ==
    ASSUME TypeOK, NEW s \in Server, NEW doc \in localDatabase[s]
    PROVE  /\ doc \in Document
           /\ doc.name \in Doc /\ doc.replica \in Replica
           /\ DocHash[doc.name] \in 0 .. HashMax
           /\ Home(s, doc) \in Point /\ Home(s, doc) \in Points({s})
           /\ Home(s, doc).server = s /\ Home(s, doc).replica = doc.replica
<1>1. doc \in Document
  BY DEF TypeOK
<1>2. doc.name \in Doc /\ doc.replica \in Replica
  BY <1>1 DEF Document
<1> QED
  BY <1>1, <1>2, RingConstants DEF Home, Point, Points

\* What a queued EDIT is.
LEMMA TaskFacts ==
    ASSUME TypeOK, NEW s \in Server, NEW n \in DOMAIN taskQueue[s]
    PROVE  /\ taskQueue[s][n] \in Task
           /\ taskQueue[s][n].doc \in Doc
           /\ DocHash[taskQueue[s][n].doc] \in 0 .. HashMax
<1>1. taskQueue[s] \in Seq(Task)
  BY DEF TypeOK
<1>2. taskQueue[s][n] \in Task
  BY <1>1, ElementOfSeq, LenProperties
<1>3. taskQueue[s][n].doc \in Doc
  BY <1>2 DEF Task
<1> QED
  BY <1>2, <1>3, RingConstants

\* A label of a known server.
LEMMA LabelPoint ==
    ASSUME NEW s \in Server, NEW i \in Replica
    PROVE  /\ [server |-> s, replica |-> i] \in Point
           /\ PointHash([server |-> s, replica |-> i]) = ServerHash[s][i]
           /\ ServerHash[s][i] \in 0 .. HashMax
BY RingConstants DEF Point, PointHash

\* The ring that is served consists of points and includes every live server.
LEMMA ServedRingType ==
    ASSUME TypeOK, job.op = "remove" => job.target \notin live
    PROVE  /\ ServedRing \in SUBSET Point
           /\ Points(live) \in SUBSET Point
           /\ Points(live) \subseteq ServedRing
<1>1. live \in SUBSET Server /\ job \in Job
  BY DEF TypeOK
<1>2. Points(live) \in SUBSET Point
  BY <1>1 DEF Points, Point
<1>3. CASE job.op = "add"
  <2>1. LabelsBelow(job.newcomer, job.label) \subseteq Point
    BY <1>1, <1>3, JobShape DEF LabelsBelow, Points, Point
  <2> QED
    BY <1>2, <1>3, <2>1 DEF ServedRing
<1>4. CASE job.op = "remove"
  <2>1. Points(live \union {job.target}) \subseteq Point
    BY <1>1, <1>4, JobShape DEF Points, Point
  <2>2. Points(live) \subseteq Points(live \union {job.target})
    BY DEF Points
  <2> QED
    BY <1>2, <1>4, <2>1, <2>2 DEF ServedRing
<1>5. CASE job.op # "add" /\ job.op # "remove"
  BY <1>2, <1>5 DEF ServedRing
<1> QED
  BY <1>3, <1>4, <1>5

\* While tasks are left, the server that is drained is filed by the ring too.
LEMMA TargetFiled ==
    ASSUME TypeOK, Filing, Draining, ~ NoTasksLeft
    PROVE  /\ job.target \in Server
           /\ DocumentsFiled(job.target, ServedRing)
           /\ TasksFiled(job.target, ServedRing)
           /\ Points({job.target}) \subseteq ServedRing
<1>1. job.target \in Server
  BY TargetType DEF TypeOK
<1>2. CASE job.op = "remove"
  <2>1. ServedRing = Points(live \union {job.target})
    BY <1>2 DEF ServedRing
  <2>2. Points({job.target}) \subseteq Points(live \union {job.target})
    BY DEF Points
  <2> QED
    BY <1>1, <1>2, <2>1, <2>2 DEF Filing, RemoveInv
<1>3. CASE job.op # "remove"
  <2>1. job.target \in live
    BY <1>3 DEF Draining, Filing, GetInv, AddInv
  <2>2. Points({job.target}) \subseteq Points(live)
    BY <2>1 DEF Points
  <2> QED
    BY <1>1, <1>3, <2>1, <2>2, ServedRingType DEF Filing, LiveFiled
<1> QED
  BY <1>2, <1>3

\* The point at which the next task to execute is due.
LEMMA TaskPoint ==
    ASSUME TypeOK, Filing, Draining, ~ NoTasksLeft, NEW d, d = Head(taskQueue[job.target]).doc
    PROVE  /\ d \in Doc /\ DocHash[d] \in 0 .. HashMax
           /\ \E j \in Replica :
                IsNextReplica(ServedRing, DocHash[d], [server |-> job.target, replica |-> j])
<1>1. job.target \in Server
  BY TargetFiled
<1>2. taskQueue[job.target] \in Seq(Task) /\ taskQueue[job.target] # <<>>
  BY <1>1 DEF TypeOK, NoTasksLeft
<1>3. 1 \in DOMAIN taskQueue[job.target] /\ d = taskQueue[job.target][1].doc
  BY <1>2
<1> QED
  BY <1>1, <1>3, TaskFacts, TargetFiled DEF TasksFiled

\* While a task is queued for a document, no other server stores it: a live one
\* would be its place on the ring, and a newcomer has not been given it yet.
LEMMA NotElsewhere ==
    ASSUME TypeOK, Filing, Draining, ~ NoTasksLeft,
           NEW s \in Server, s # job.target, NEW doc \in localDatabase[s]
    PROVE  doc.name # Head(taskQueue[job.target]).doc
<1> DEFINE d == Head(taskQueue[job.target]).doc
           h == DocHash[d]
           y == Home(s, doc)
<1>1. SUFFICES ASSUME doc.name = d
               PROVE  FALSE
  OBVIOUS
<1>2. PICK j \in Replica :
        IsNextReplica(ServedRing, h, [server |-> job.target, replica |-> j])
  BY TaskPoint
<1> DEFINE q == [server |-> job.target, replica |-> j]
<1>3. h \in 0 .. HashMax /\ y \in Point /\ y # q
  <2>1. h = DocHash[doc.name] /\ q.server = job.target
    BY <1>1
  <2>2. DocHash[doc.name] \in 0 .. HashMax /\ y \in Point /\ y.server = s
    BY DocumentFacts
  <2> QED
    BY <2>1, <2>2
<1>4. ServedRing \in SUBSET Point /\ Points(live) \subseteq ServedRing /\ job.target \in Server
  BY ServedRingType, TargetFiled DEF Filing, RemoveInv
<1>5. CASE s \in live
  <2>1. IsNextReplica(ServedRing, h, y)
    BY <1>1, <1>5 DEF Filing, LiveFiled, DocumentsFiled
  <2> HIDE DEF h, y, q
  <2> QED
    BY <1>2, <1>3, <1>4, <2>1, HashesDistinct, NextUnique DEF q
<1>6. CASE job.op = "add" /\ s = job.newcomer
  <2> DEFINE fewer == Points(live) \union {y}
  <2>1. /\ doc.replica <= job.label
        /\ doc.replica # job.label
        /\ IsNextReplica(fewer, h, y)
        /\ job.target \in live
    BY <1>1, <1>6 DEF Filing, AddInv
  <2>2. doc.replica < job.label
    <3>1. job.label \in Replica
      BY <1>6, JobShape DEF TypeOK
    <3>2. doc.replica \in Replica
      BY DocumentFacts
    <3> QED
      BY <2>1, <3>1, <3>2, LabelType
  <2>3. y \in LabelsBelow(job.newcomer, job.label)
    BY <1>6, <2>2, DocumentFacts DEF LabelsBelow
  <2>4. fewer \in SUBSET ServedRing
    BY <1>4, <1>6, <2>3 DEF ServedRing
  <2>5. q \in fewer
    BY <2>1 DEF Points
  <2> HIDE DEF h, y, q, fewer
  <2>6. IsNextReplica(fewer, h, q)
    BY <1>2, <1>3, <1>4, <2>4, <2>5, HashesDistinct, NextInSubset DEF q
  <2> QED
    BY <1>3, <1>4, <2>1, <2>4, <2>6, HashesDistinct, NextUnique
<1>7. CASE s \notin live /\ ~ (job.op = "add" /\ s = job.newcomer)
  <2>1. s \notin live \union InTransit
    BY <1>7 DEF InTransit
  <2> QED
    BY <2>1 DEF Filing, RestEmpty
<1> QED
  BY <1>5, <1>6, <1>7

\* What one iteration of execute_server_task_queue does to the documents and the
\* queue of the server: what it stores and what it has yet to execute remain
\* placed by the same ring.
LEMMA DrainedServer ==
    ASSUME TypeOK, StoredOnce, CacheWellFormed, Filing, DrainTask
    PROVE  \E e \in Document :
            /\ e.name = Head(taskQueue[job.target]).doc
            /\ localDatabase' = [localDatabase EXCEPT ![job.target] =
                    {b \in localDatabase[job.target] : b.name # e.name} \union {e}]
            /\ taskQueue' = [taskQueue EXCEPT ![job.target] = Tail(taskQueue[job.target])]
            /\ ~ NoTasksLeft
            /\ IsNextReplica(ServedRing, DocHash[e.name], Home(job.target, e))
<1>1. job.target \in Server /\ ExecuteTask(job.target) /\ Draining /\ ~ NoTasksLeft
  BY TargetType DEF DrainTask, TypeOK, ExecuteTask, NoTasksLeft
<1>2. PICK d \in Doc, c \in Content :
        Head(taskQueue[job.target]) = [doc |-> d, content |-> c] /\ EditDocument(job.target, d, c)
  BY <1>1, ExecutedTask
<1>3. d = Head(taskQueue[job.target]).doc
  BY <1>2
<1>4. PICK e \in Document :
        /\ e.name = d /\ e.content = c
        /\ localDatabase' = [localDatabase EXCEPT
                ![job.target] = {b \in localDatabase[job.target] : b.name # d} \union {e}]
        /\ \/ \E doc \in Stored(job.target, d) : doc.replica = e.replica
           \/ Stored(job.target, d) = {} /\ IsReplicaExecutor(job.target, DocHash[d], e.replica)
  BY <1>1, <1>2, EditedDatabase
<1>5. IsNextReplica(ServedRing, DocHash[d], Home(job.target, e))
  <2>1. CASE \E doc \in Stored(job.target, d) : doc.replica = e.replica
    <3>1. PICK doc \in localDatabase[job.target] : doc.name = d /\ doc.replica = e.replica
      BY <2>1 DEF Stored
    <3>2. IsNextReplica(ServedRing, DocHash[doc.name], Home(job.target, doc))
      BY <1>1, <3>1, TargetFiled DEF DocumentsFiled
    <3> QED
      BY <3>1, <3>2 DEF Home
  <2>2. CASE IsReplicaExecutor(job.target, DocHash[d], e.replica)
    <3>1. PICK j \in Replica :
            IsNextReplica(ServedRing, DocHash[d], [server |-> job.target, replica |-> j])
      BY <1>1, <1>3, TaskPoint
    <3>2. /\ e.replica \in Replica /\ DocHash[d] \in 0 .. HashMax
          /\ ServedRing \in SUBSET Point /\ Points({job.target}) \subseteq ServedRing
      BY <1>1, RingConstants, ServedRingType, TargetFiled DEF Document, Filing, RemoveInv
    <3>3. e.replica = j
      BY <1>1, <2>2, <3>1, <3>2, HashesDistinct, ExecutorIsNext
    <3> QED
      BY <3>1, <3>3 DEF Home
  <2> QED
    BY <1>4, <2>1, <2>2
<1> QED
  BY <1>1, <1>3, <1>4, <1>5 DEF ExecuteTask

-----------------------------------------------------------------------------
\* No step stores a document a second time.
LEMMA StoredOnceStep ==
    ASSUME IInv, [Next]_vars
    PROVE  StoredOnce'
<1>0. TypeOK /\ StoredOnce /\ CacheWellFormed /\ (job # Crashed => Filing)
  BY DEF IInv
<1>1. ASSUME localDatabase' = localDatabase
      PROVE  StoredOnce'
  BY <1>0, <1>1 DEF StoredOnce
<1>2. ASSUME DrainTask
      PROVE  StoredOnce'
  <2>1. /\ Draining /\ ~ NoTasksLeft /\ job.target \in Server /\ job # Crashed
    BY <1>0, <1>2, TargetType DEF DrainTask, Draining, Crashed, ExecuteTask, NoTasksLeft, TypeOK
  <2>2. PICK e \in Document :
            /\ e.name = Head(taskQueue[job.target]).doc
            /\ localDatabase' = [localDatabase EXCEPT ![job.target] =
                    {b \in localDatabase[job.target] : b.name # e.name} \union {e}]
    BY <1>0, <1>2, <2>1, DrainedServer
  <2>3. ASSUME NEW s \in Server, s # job.target, NEW b \in localDatabase[s]
        PROVE  b.name # e.name
    BY <1>0, <2>1, <2>2, <2>3, NotElsewhere
  <2>4. \A s \in Server : \A b \in localDatabase'[s] :
            \/ s = job.target /\ b = e
            \/ b \in localDatabase[s] /\ b.name # e.name
    BY <1>0, <2>1, <2>2, <2>3 DEF TypeOK
  <2> QED
    BY <1>0, <2>4 DEF StoredOnce
<1>3. ASSUME NEW doc \in Document, MoveDocument(doc)
      PROVE  StoredOnce'
  <2>1. /\ job.target \in Server /\ job.newcomer \in Server
        /\ doc \in localDatabase[job.target]
        /\ localDatabase' = [localDatabase EXCEPT
                ![job.target] = @ \ {doc},
                ![job.newcomer] = @ \union {[doc EXCEPT !.replica = job.label]}]
    BY <1>0, <1>3, JobShape DEF MoveDocument, TypeOK
  <2>2. job.target # job.newcomer
    BY <1>0, <1>3 DEF MoveDocument, Filing, AddInv, Crashed
  <2>3. PICK e : e = [doc EXCEPT !.replica = job.label]
    OBVIOUS
  <2>4. e.name = doc.name
    BY <2>3 DEF Document
  <2>5. \A s \in Server : \A b \in localDatabase'[s] :
            \/ s = job.newcomer /\ b = e
            \/ b \in localDatabase[s] /\ ~ (s = job.target /\ b = doc)
    BY <1>0, <2>1, <2>2, <2>3 DEF TypeOK
  <2>6. ASSUME NEW s \in Server, NEW b \in localDatabase[s], ~ (s = job.target /\ b = doc)
        PROVE  b.name # e.name
    BY <1>0, <2>1, <2>4, <2>6 DEF StoredOnce
  <2> QED
    BY <1>0, <2>5, <2>6 DEF StoredOnce
<1>4. ASSUME FinishAdd
      PROVE  StoredOnce'
  <2>1. job.newcomer \in Server
    BY <1>0, <1>4, JobShape DEF FinishAdd, MovesDone, TypeOK
  <2>2. PICK label \in [localDatabase[job.newcomer] -> Replica] :
            localDatabase' = [localDatabase EXCEPT
                ![job.newcomer] = {[doc EXCEPT !.replica = label[doc]] : doc \in @}]
    BY <1>4 DEF FinishAdd
  <2>3. \A doc \in localDatabase[job.newcomer] : [doc EXCEPT !.replica = label[doc]].name = doc.name
    BY <2>1, DocumentFacts, <1>0 DEF Document
  <2>4. \A s \in Server \ {job.newcomer} : localDatabase'[s] = localDatabase[s]
    BY <1>0, <2>2 DEF TypeOK
  <2>5. ASSUME NEW b \in localDatabase'[job.newcomer]
        PROVE  \E doc \in localDatabase[job.newcomer] :
                    b = [doc EXCEPT !.replica = label[doc]] /\ b.name = doc.name
    <3>1. localDatabase'[job.newcomer] =
            {[doc EXCEPT !.replica = label[doc]] : doc \in localDatabase[job.newcomer]}
      BY <1>0, <2>1, <2>2 DEF TypeOK
    <3> QED
      BY <2>3, <2>5, <3>1
  <2>6. ASSUME NEW s \in Server, NEW b \in localDatabase'[s]
        PROVE  \E doc \in localDatabase[s] :
                    b.name = doc.name /\ b = IF s = job.newcomer
                                             THEN [doc EXCEPT !.replica = label[doc]] ELSE doc
    BY <2>4, <2>5, <2>6
  <2>7. SUFFICES ASSUME NEW s \in Server, NEW r \in Server,
                        NEW a \in localDatabase'[s], NEW b \in localDatabase'[r], a.name = b.name
                 PROVE  s = r /\ a = b
    BY DEF StoredOnce
  <2> QED
    BY <1>0, <2>6, <2>7 DEF StoredOnce
<1>5. ASSUME NEW doc \in Document, DistributeDocument(doc)
      PROVE  StoredOnce'
  <2>1. PICK p \in Points(live) :
            localDatabase' = [localDatabase EXCEPT
                ![job.target] = @ \ {doc},
                ![p.server] = @ \union {[doc EXCEPT !.replica = p.replica]}]
    BY <1>5 DEF DistributeDocument
  <2>2. /\ job.target \in Server /\ doc \in localDatabase[job.target]
        /\ job.target # p.server /\ p.server \in Server
    BY <1>0, <1>5, JobShape
       DEF DistributeDocument, TypeOK, Filing, RemoveInv, Points, Crashed
  <2>3. PICK e : e = [doc EXCEPT !.replica = p.replica]
    OBVIOUS
  <2>4. e.name = doc.name
    BY <2>3 DEF Document
  <2>5. \A s \in Server : \A b \in localDatabase'[s] :
            \/ s = p.server /\ b = e
            \/ b \in localDatabase[s] /\ ~ (s = job.target /\ b = doc)
    BY <1>0, <2>1, <2>2, <2>3 DEF TypeOK
  <2>6. ASSUME NEW s \in Server, NEW b \in localDatabase[s], ~ (s = job.target /\ b = doc)
        PROVE  b.name # e.name
    BY <1>0, <2>2, <2>4, <2>6 DEF StoredOnce
  <2> QED
    BY <1>0, <2>5, <2>6 DEF StoredOnce
<1>6. ASSUME FinishRemove \/ Finish
      PROVE  StoredOnce'
  <2>1. \A s \in Server : localDatabase'[s] \subseteq localDatabase[s]
    BY <1>0, <1>6 DEF FinishRemove, FreeServer, Finish, TypeOK
  <2> QED
    BY <1>0, <2>1 DEF StoredOnce
<1> QED
  BY <1>1, <1>2, <1>3, <1>4, <1>5, <1>6
     DEF Next, Request, Progress, Ended, Edit, QueueEdit, BeginGet, BeginAdd, InitServer,
         BeginRemove, FinishGet, GetDocument, NextLabel, ForwardToNobody, DivideByZero,
         vars, serverVars

-----------------------------------------------------------------------------
\* The label that is being added, its successor, and the ring between them.
LEMMA Addition ==
    ASSUME TypeOK, Filing, job.op = "add", NEW y, y = [server |-> job.newcomer, replica |-> job.label]
    PROVE  LET q == [server |-> job.target, replica |-> job.index]
           IN  /\ y \in Point \ ServedRing /\ y \notin Points(live)
               /\ PointHash(y) = ServerHash[job.newcomer][job.label]
               /\ PointHash(y) \in 0 .. HashMax
               /\ q \in Points(live) /\ q \in Point /\ q # y
               /\ PointHash(q) = ServerHash[job.target][job.index]
               /\ PointHash(q) \in 0 .. HashMax
               /\ IsNextReplica(Points(live), PointHash(y), q)
               /\ job.newcomer \in Server \ live
<1>1. /\ job.newcomer \in Server /\ job.label \in Replica
      /\ job.target \in Server /\ job.index \in Replica
  BY JobShape DEF TypeOK
<1>2. /\ job.newcomer \notin live /\ job.target \in live
      /\ IsNextReplica(Points(live), ServerHash[job.newcomer][job.label],
                       [server |-> job.target, replica |-> job.index])
  BY DEF Filing, AddInv
<1>3. y \notin Points(live) /\ y \notin LabelsBelow(job.newcomer, job.label)
  BY <1>1, <1>2, LabelType DEF Points, LabelsBelow
<1> QED
  BY <1>1, <1>2, <1>3, LabelPoint DEF ServedRing, Points

\* A document that leaves for a newcomer's label is next to it.
LEMMA LeavesIsNext ==
    ASSUME TypeOK, Filing, job.op = "add", NEW doc \in localDatabase[job.target], Leaves(doc),
           NEW y, y = [server |-> job.newcomer, replica |-> job.label]
    PROVE  IsNextReplica(Points(live) \union {y}, DocHash[doc.name], y)
<1> DEFINE q == [server |-> job.target, replica |-> job.index]
           h == DocHash[doc.name]
           points == Points(live)
           new == PointHash(y)
           next == PointHash(q)
<1>1. /\ y \in Point \ points /\ q \in points /\ q \in Point /\ q # y
      /\ new \in 0 .. HashMax /\ next \in 0 .. HashMax
      /\ BelongsToNewcomer(new, next, h) \/ new = next
  BY Addition DEF Leaves
<1>2. h \in 0 .. HashMax /\ Home(job.target, doc) = q /\ job.target \in live
  BY DocumentFacts DEF Leaves, Home, Filing, AddInv, TypeOK
<1>3. points \in SUBSET ServedRing /\ ServedRing \in SUBSET Point
  BY ServedRingType DEF Filing, AddInv, RemoveInv
<1>4. IsNextReplica(ServedRing, h, q)
  BY <1>2 DEF Filing, LiveFiled, DocumentsFiled
<1> HIDE DEF q, h, points, new, next
<1>5. IsNextReplica(points, h, q)
  BY <1>1, <1>2, <1>3, <1>4, HashesDistinct, NextInSubset
<1>6. new # next
  BY <1>1, HashesDistinct DEF DistinctPoints, new, next
<1>7. Precedes(h, new, next)
  BY <1>1, <1>2, <1>6 DEF BelongsToNewcomer, Precedes
<1>8. points \in SUBSET Point
  BY <1>3
<1>9. IsNextReplica(points \union {y}, h, y)
  BY <1>1, <1>2, <1>5, <1>7, <1>8, HashesDistinct, NewcomerSplits DEF new, next
<1> QED
  BY <1>9 DEF points, h

\* A document is next to a point of its own hash only on a ring without others.
LEMMA NoLoneHash ==
    ASSUME NEW servers \in SUBSET Server, NEW q \in Points(servers), NEW d \in Doc,
           IsNextReplica(Points(servers), DocHash[d], q)
    PROVE  DocHash[d] # PointHash(q)
<1>1. q \in Point /\ Points(servers) \in SUBSET Point /\ DocHash[d] \in 0 .. HashMax
  BY RingConstants DEF Points, Point
<1>2. CASE NumReplicas > 1
  <2>1. PICK i \in Replica : i # q.replica
    <3>1. 0 \in Replica /\ 1 \in Replica
      BY <1>2, RingConstants DEF Replica
    <3> QED
      BY <3>1
  <2> DEFINE r == [server |-> q.server, replica |-> i]
  <2>2. r \in Points(servers) /\ r # q /\ r \in Point
    BY <1>1, <2>1 DEF Points
  <2>3. Precedes(DocHash[d], PointHash(q), PointHash(r))
    BY <1>1, <2>2, HashesDistinct, NextIsNearest DEF IsNearest
  <2>4. PointHash(q) \in Nat /\ PointHash(r) \in Nat
    BY <1>1, <2>2, PointHashType
  <2> QED
    BY <2>3, <2>4 DEF Precedes
<1>3. CASE ~ (NumReplicas > 1)
  BY <1>1, <1>3, NoDocumentAtLonePoint
<1> QED
  BY <1>2, <1>3

\* When no document is left to move, the newcomer's label has taken its place
\* on the ring: whatever the live servers still hold is placed by the ring with
\* that label in it.
LEMMA LabelAdded ==
    ASSUME TypeOK, Filing, MovesDone,
           NEW y, y = [server |-> job.newcomer, replica |-> job.label],
           NEW s \in live
    PROVE  DocumentsFiled(s, ServedRing \union {y}) /\ TasksFiled(s, ServedRing \union {y})
<1> DEFINE q == [server |-> job.target, replica |-> job.index]
           points == Points(live)
           new == PointHash(y)
           next == PointHash(q)
<1>0. job.op = "add" /\ NoTasksLeft /\ s \in Server
  BY DEF MovesDone, TypeOK
<1>1. /\ y \in Point \ ServedRing /\ q \in points /\ q \in Point /\ q # y
      /\ new \in 0 .. HashMax /\ next \in 0 .. HashMax
      /\ IsNextReplica(points, new, q)
      /\ new = ServerHash[job.newcomer][job.label] /\ next = ServerHash[job.target][job.index]
  BY <1>0, Addition
<1>2. points \in SUBSET ServedRing /\ ServedRing \in SUBSET Point
  BY <1>0, ServedRingType DEF Filing, AddInv
<1>3. new # next
  BY <1>1, HashesDistinct DEF DistinctPoints
\* a point of s that would lose the hash h to y is q
<1>4. ASSUME NEW h \in 0 .. HashMax, NEW p \in points, IsNextReplica(ServedRing, h, p),
             ~ IsNextReplica(ServedRing \union {y}, h, p)
      PROVE  p = q /\ Precedes(h, new, next) /\ IsNextReplica(points, h, q)
  <2>1. y \in Point \ ServedRing /\ ServedRing \in SUBSET Point
    BY <1>1, <1>2
  <2>2. IsNextReplica(ServedRing, new, p) /\ Precedes(h, new, PointHash(p))
    BY <1>4, <2>1, HashesDistinct, NewcomerSplits
  <2> HIDE DEF points, new, next, q
  <2>3. IsNextReplica(points, new, p) /\ IsNextReplica(points, h, p)
    BY <1>1, <1>2, <1>4, <2>2, HashesDistinct, NextInSubset
  <2>4. points \in SUBSET Point
    BY <1>2
  <2>5. p = q
    BY <1>1, <2>3, <2>4, HashesDistinct, NextUnique
  <2> QED
    BY <2>2, <2>3, <2>5 DEF next
<1>5. DocumentsFiled(s, ServedRing \union {y})
  <2> SUFFICES ASSUME NEW doc \in localDatabase[s],
                      ~ IsNextReplica(ServedRing \union {y}, DocHash[doc.name], Home(s, doc))
               PROVE  FALSE
    BY DEF DocumentsFiled
  <2> DEFINE h == DocHash[doc.name]
  <2>1. /\ h \in 0 .. HashMax /\ Home(s, doc) \in points /\ doc.name \in Doc
        /\ IsNextReplica(ServedRing, h, Home(s, doc))
    BY <1>0, DocumentFacts DEF Points, Filing, LiveFiled, DocumentsFiled
  <2>2. Home(s, doc) = q /\ Precedes(h, new, next) /\ IsNextReplica(points, h, q)
    BY <1>4, <2>1
  <2>3. s = job.target /\ doc.replica = job.index
    BY <2>2 DEF Home
  <2>4. ~ Leaves(doc)
    BY <2>3 DEF MovesDone
  <2>5. h # next
    BY <1>1, <2>1, <2>2, NoLoneHash DEF TypeOK
  <2>6. BelongsToNewcomer(new, next, h)
    <3> HIDE DEF new, next, h
    <3> QED
      BY <1>1, <1>3, <2>1, <2>2, <2>5 DEF Precedes, BelongsToNewcomer
  <2> QED
    BY <1>1, <2>3, <2>4, <2>6 DEF Leaves
<1>6. TasksFiled(s, ServedRing \union {y})
  <2> SUFFICES ASSUME NEW n \in DOMAIN taskQueue[s]
               PROVE  \E i \in Replica :
                        IsNextReplica(ServedRing \union {y}, DocHash[taskQueue[s][n].doc],
                                      [server |-> s, replica |-> i])
    BY DEF TasksFiled
  <2>1. PICK i \in Replica :
            IsNextReplica(ServedRing, DocHash[taskQueue[s][n].doc], [server |-> s, replica |-> i])
    BY DEF Filing, LiveFiled, TasksFiled
  <2>2. DocHash[taskQueue[s][n].doc] \in 0 .. HashMax /\ [server |-> s, replica |-> i] \in points
    BY <1>0, TaskFacts DEF Points
  <2>3. s # job.target
    BY <1>0, EmptySeq DEF NoTasksLeft
  <2> QED
    BY <1>4, <2>1, <2>2, <2>3
<1> QED
  BY <1>5, <1>6

-----------------------------------------------------------------------------
\* The placement between requests, and before and after a GET.
LiveOnlyFiled ==
    /\ \A s \in live : DocumentsFiled(s, Points(live)) /\ TasksFiled(s, Points(live))
    /\ \A s \in Server \ live :
        taskQueue[s] = <<>> /\ localDatabase[s] = {} /\ cache[s] = <<>>

LEMMA FiledBefore ==
    ASSUME Filing, job.op \notin {"add", "remove"}
    PROVE  LiveOnlyFiled
BY DEF Filing, LiveFiled, ServedRing, RestEmpty, InTransit, LiveOnlyFiled

LEMMA FiledAfter ==
    ASSUME job' = Idle \/ job' = Finished, LiveOnlyFiled'
    PROVE  Filing'
BY DEF Filing, LiveFiled, ServedRing, GetInv, AddInv, RemoveInv, RestEmpty, InTransit,
       LiveOnlyFiled, Idle, Finished

LEMMA EditFiling ==
    ASSUME TypeOK, Filing, NEW d \in Doc, NEW c \in Content, Edit(d, c)
    PROVE  Filing'
<1>1. PICK p \in Points(live) :
        IsNextReplica(Points(live), DocHash[d], p) /\ QueueEdit(p.server, d, c)
  BY DEF Edit
<1>2. /\ job = Idle /\ job' = Idle /\ live' = live
      /\ localDatabase' = localDatabase /\ cache' = cache
      /\ \/ taskQueue' = taskQueue
         \/ taskQueue' = [taskQueue EXCEPT
                ![p.server] = Append(taskQueue[p.server], [doc |-> d, content |-> c])]
  BY <1>1 DEF Edit, QueueEdit, PushTask
<1>3. /\ p.server \in live /\ p.replica \in Replica
      /\ p = [server |-> p.server, replica |-> p.replica]
  BY DEF Points
<1>4. LiveOnlyFiled
  BY <1>2, FiledBefore DEF Idle
<1>5. ASSUME NEW s \in live, NEW n \in DOMAIN taskQueue'[s]
      PROVE  \E i \in Replica :
                IsNextReplica(Points(live), DocHash[taskQueue'[s][n].doc],
                              [server |-> s, replica |-> i])
  <2>1. taskQueue[s] \in Seq(Task) /\ s \in Server
    BY DEF TypeOK
  <2>2. CASE n \in DOMAIN taskQueue[s] /\ taskQueue'[s][n] = taskQueue[s][n]
    BY <1>4, <2>2 DEF LiveOnlyFiled, TasksFiled
  <2>3. CASE ~ (n \in DOMAIN taskQueue[s] /\ taskQueue'[s][n] = taskQueue[s][n])
    <3>1. /\ s = p.server
          /\ taskQueue'[s] = Append(taskQueue[s], [doc |-> d, content |-> c])
      BY <1>2, <1>5, <2>1, <2>3 DEF TypeOK
    <3>2. taskQueue'[s][n] = [doc |-> d, content |-> c]
      BY <1>5, <2>1, <2>3, <3>1
    <3> QED
      BY <1>1, <1>3, <3>1, <3>2
  <2> QED
    BY <2>2, <2>3
<1>6. \A s \in Server \ live :
            taskQueue'[s] = <<>> /\ localDatabase'[s] = {} /\ cache'[s] = <<>>
  BY <1>2, <1>3, <1>4 DEF LiveOnlyFiled, TypeOK
<1>7. LiveOnlyFiled'
  BY <1>2, <1>4, <1>5, <1>6 DEF LiveOnlyFiled, DocumentsFiled, TasksFiled, Home
<1> QED
  BY <1>2, <1>7, FiledAfter

LEMMA GetFiling ==
    ASSUME TypeOK, Filing, FinishGet \/ \E d \in Doc : BeginGet(d)
    PROVE  Filing'
<1>1. CASE FinishGet
  <2>1. /\ job' = Idle /\ live' = live /\ job.op = "get" /\ job.target \in live
        /\ localDatabase' = localDatabase /\ taskQueue' = taskQueue
        /\ \A s \in Server \ {job.target} : cache'[s] = cache[s]
    BY <1>1 DEF FinishGet, GetDocument, GetFromCache, GetFromDatabase, GetNothing,
                TypeOK, Filing, GetInv
  <2>2. LiveOnlyFiled
    BY <2>1, FiledBefore
  <2>3. LiveOnlyFiled'
    BY <2>1, <2>2 DEF LiveOnlyFiled, DocumentsFiled, TasksFiled, Home
  <2> QED
    BY <2>1, <2>3, FiledAfter
<1>2. ASSUME NEW d \in Doc, BeginGet(d)
      PROVE  Filing'
  <2>1. PICK p \in Points(live) :
            IsNextReplica(Points(live), DocHash[d], p) /\ job' = Getting(d, p.server)
    BY <1>2 DEF BeginGet
  <2>2. /\ p.server \in live /\ p.replica \in Replica
        /\ p = [server |-> p.server, replica |-> p.replica]
    BY DEF Points
  <2>3. /\ job = Idle /\ live' = live /\ localDatabase' = localDatabase
        /\ taskQueue' = taskQueue /\ cache' = cache
        /\ job'.op = "get" /\ job'.target = p.server /\ job'.doc = d
    BY <1>2, <2>1 DEF BeginGet, Getting
  <2>4. ServedRing = Points(live) /\ ServedRing' = Points(live) /\ InTransit = {} /\ InTransit' = {}
    BY <2>3 DEF ServedRing, InTransit, Idle
  <2>5. LiveFiled'
    BY <2>3, <2>4 DEF Filing, LiveFiled, DocumentsFiled, TasksFiled, Home
  <2>6. GetInv'
    BY <2>1, <2>2, <2>3 DEF GetInv
  <2>7. AddInv' /\ RemoveInv' /\ RestEmpty'
    BY <2>3, <2>4 DEF AddInv, RemoveInv, Filing, RestEmpty
  <2> QED
    BY <2>5, <2>6, <2>7 DEF Filing
<1> QED
  BY <1>1, <1>2

LEMMA DrainFiling ==
    ASSUME TypeOK, StoredOnce, CacheWellFormed, Filing, DrainTask
    PROVE  Filing'
<1>1. PICK e \in Document :
        /\ localDatabase' = [localDatabase EXCEPT ![job.target] =
                {b \in localDatabase[job.target] : b.name # e.name} \union {e}]
        /\ taskQueue' = [taskQueue EXCEPT ![job.target] = Tail(taskQueue[job.target])]
        /\ ~ NoTasksLeft
        /\ IsNextReplica(ServedRing, DocHash[e.name], Home(job.target, e))
  BY DrainedServer
<1>2. /\ Draining /\ live' = live /\ job' = job /\ job.target \in Server
      /\ \A s \in Server \ {job.target} : cache'[s] = cache[s]
  BY TargetType DEF DrainTask, ExecuteTask, EditDocument, TypeOK
<1>3. /\ \A s \in Server \ {job.target} :
            localDatabase'[s] = localDatabase[s] /\ taskQueue'[s] = taskQueue[s]
      /\ localDatabase'[job.target] =
            {b \in localDatabase[job.target] : b.name # e.name} \union {e}
      /\ taskQueue'[job.target] = Tail(taskQueue[job.target])
  BY <1>1, <1>2 DEF TypeOK
<1>4. DocumentsFiled(job.target, ServedRing) /\ TasksFiled(job.target, ServedRing)
  BY <1>1, <1>2, TargetFiled
<1>5. \A b \in localDatabase'[job.target] :
            IsNextReplica(ServedRing, DocHash[b.name], Home(job.target, b))
  BY <1>1, <1>3, <1>4 DEF DocumentsFiled
<1>6. \A n \in DOMAIN taskQueue'[job.target] : \E i \in Replica :
            IsNextReplica(ServedRing, DocHash[taskQueue'[job.target][n].doc],
                          [server |-> job.target, replica |-> i])
  <2> SUFFICES ASSUME NEW n \in DOMAIN taskQueue'[job.target]
               PROVE  \E i \in Replica :
                        IsNextReplica(ServedRing, DocHash[taskQueue'[job.target][n].doc],
                                      [server |-> job.target, replica |-> i])
    OBVIOUS
  <2>1. taskQueue[job.target] \in Seq(Task) /\ taskQueue[job.target] # <<>>
    BY <1>1, <1>2 DEF TypeOK, NoTasksLeft
  <2>2. /\ n + 1 \in DOMAIN taskQueue[job.target]
        /\ taskQueue'[job.target][n] = taskQueue[job.target][n + 1]
    BY <1>3, <2>1
  <2> QED
    BY <1>4, <2>2 DEF TasksFiled
\* in a removal the ring may lose the leaving server with this task
<1>7. \/ ServedRing' = ServedRing
      \/ job.op = "remove" /\ ServedRing' = Points(live)
  BY <1>1, <1>2 DEF ServedRing, LabelsBelow
<1>8. LiveFiled'
  <2>1. \A s \in live : /\ \A b \in localDatabase'[s] :
                                IsNextReplica(ServedRing, DocHash[b.name], Home(s, b))
                        /\ \A n \in DOMAIN taskQueue'[s] : \E i \in Replica :
                                IsNextReplica(ServedRing, DocHash[taskQueue'[s][n].doc],
                                              [server |-> s, replica |-> i])
    <3> SUFFICES ASSUME NEW s \in live
                 PROVE  /\ \A b \in localDatabase'[s] :
                                IsNextReplica(ServedRing, DocHash[b.name], Home(s, b))
                        /\ \A n \in DOMAIN taskQueue'[s] : \E i \in Replica :
                                IsNextReplica(ServedRing, DocHash[taskQueue'[s][n].doc],
                                              [server |-> s, replica |-> i])
      OBVIOUS
    <3>1. CASE s = job.target
      BY <1>5, <1>6, <3>1
    <3>2. CASE s # job.target
      BY <1>3, <3>2 DEF Filing, LiveFiled, DocumentsFiled, TasksFiled, TypeOK
    <3> QED
      BY <3>1, <3>2
  <2>2. CASE ServedRing' = ServedRing
    BY <1>2, <2>1, <2>2 DEF LiveFiled, DocumentsFiled, TasksFiled, Home
  <2>3. CASE job.op = "remove" /\ ServedRing' = Points(live)
    <3>1. job.target \notin live /\ ServedRing \in SUBSET Point /\ Points(live) \in SUBSET ServedRing
      BY <2>3, ServedRingType DEF Filing, RemoveInv
    <3>2. \A s \in live : localDatabase'[s] = localDatabase[s] /\ taskQueue'[s] = taskQueue[s]
      BY <1>3, <3>1 DEF TypeOK
    <3>3. ASSUME NEW s \in live, NEW b \in localDatabase'[s]
          PROVE  IsNextReplica(Points(live), DocHash[b.name], Home(s, b))
      <4>1. DocHash[b.name] \in 0 .. HashMax /\ Home(s, b) \in Points(live)
        BY <3>2, <3>3, DocumentFacts DEF TypeOK, Points
      <4>2. IsNextReplica(ServedRing, DocHash[b.name], Home(s, b))
        BY <2>1, <3>3
      <4> QED
        BY <3>1, <4>1, <4>2, HashesDistinct, NextInSubset
    <3>4. ASSUME NEW s \in live, NEW n \in DOMAIN taskQueue'[s]
          PROVE  \E i \in Replica :
                    IsNextReplica(Points(live), DocHash[taskQueue'[s][n].doc],
                                  [server |-> s, replica |-> i])
      <4>1. PICK i \in Replica : IsNextReplica(ServedRing, DocHash[taskQueue'[s][n].doc],
                                               [server |-> s, replica |-> i])
        BY <2>1, <3>4
      <4>2. /\ DocHash[taskQueue'[s][n].doc] \in 0 .. HashMax
            /\ [server |-> s, replica |-> i] \in Points(live)
        BY <3>2, <3>4, TaskFacts DEF TypeOK, Points
      <4> QED
        BY <3>1, <4>1, <4>2, HashesDistinct, NextInSubset
    <3> QED
      BY <1>2, <2>3, <3>3, <3>4 DEF LiveFiled, DocumentsFiled, TasksFiled, Home
  <2> QED
    BY <1>7, <2>2, <2>3
<1>9. GetInv'
  BY <1>2 DEF Filing, GetInv
<1>10. AddInv'
  <2> SUFFICES ASSUME job.op = "add"
               PROVE  AddInv'
    BY <1>2 DEF AddInv
  <2>1. job.newcomer \in Server /\ job.newcomer # job.target
    BY JobShape DEF TypeOK, Filing, AddInv
  <2>2. /\ localDatabase'[job.newcomer] = localDatabase[job.newcomer]
        /\ taskQueue'[job.newcomer] = taskQueue[job.newcomer]
        /\ cache'[job.newcomer] = cache[job.newcomer]
    BY <1>2, <1>3, <2>1
  <2> QED
    BY <1>1, <1>2, <2>2 DEF Filing, AddInv, Home
<1>11. RemoveInv'
  <2> SUFFICES ASSUME job.op = "remove"
               PROVE  RemoveInv'
    BY <1>2 DEF RemoveInv
  <2>1. ServedRing = Points(live \union {job.target})
    BY <1>1 DEF ServedRing
  <2> QED
    BY <1>2, <1>5, <1>6, <2>1 DEF Filing, RemoveInv, DocumentsFiled, TasksFiled, Home
<1>12. RestEmpty'
  <2>1. job.target \in live \union InTransit /\ InTransit' = InTransit
    BY <1>2 DEF Draining, InTransit, Filing, GetInv, AddInv
  <2> QED
    BY <1>2, <1>3, <2>1 DEF Filing, RestEmpty
<1> QED
  BY <1>8, <1>9, <1>10, <1>11, <1>12 DEF Filing

LEMMA BeginAddFiling ==
    ASSUME TypeOK, Filing, NEW x \in Server, NEW size \in CacheSize, BeginAdd(x, size)
    PROVE  Filing'
<1>1. /\ job = Idle /\ x \notin live
      /\ UNCHANGED <<taskQueue, localDatabase, cache>>
  BY DEF BeginAdd, InitServer
<1>2. LiveOnlyFiled /\ taskQueue[x] = <<>> /\ localDatabase[x] = {} /\ cache[x] = <<>>
  BY <1>1, FiledBefore, RestIsEmpty DEF Idle
<1>3. CASE live = {}
  <2>1. live' = {x} /\ job' = Idle
    BY <1>3 DEF BeginAdd
  <2>2. LiveOnlyFiled'
    BY <1>1, <1>2, <1>3, <2>1, EmptySeq DEF LiveOnlyFiled, DocumentsFiled, TasksFiled
  <2> QED
    BY <2>1, <2>2, FiledAfter
<1>4. CASE live # {}
  <2>1. PICK p \in Points(live) :
            IsNextReplica(Points(live), ServerHash[x][0], p) /\ job' = Adding(x, 0, p)
    BY <1>4 DEF BeginAdd
  <2>2. p.server \in live /\ p = [server |-> p.server, replica |-> p.replica]
    BY DEF Points
  <2>3. /\ job'.op = "add" /\ job'.newcomer = x /\ job'.label = 0
        /\ job'.target = p.server /\ job'.index = p.replica /\ live' = live
    BY <1>4, <2>1 DEF Adding, BeginAdd
  <2>4. LabelsBelow(x, 0) = {}
    BY LabelType, <1>1 DEF LabelsBelow, Points
  <2>5. ServedRing' = Points(live) /\ InTransit' = {x}
    BY <2>3, <2>4 DEF ServedRing, InTransit, LabelsBelow
  <2>6. LiveFiled'
    BY <1>1, <1>2, <2>3, <2>5 DEF LiveFiled, LiveOnlyFiled, DocumentsFiled, TasksFiled, Home
  <2>7. AddInv'
    BY <1>1, <1>2, <2>1, <2>2, <2>3 DEF AddInv
  <2>8. GetInv' /\ RemoveInv'
    BY <2>3 DEF GetInv, RemoveInv
  <2>9. RestEmpty'
    BY <1>1, <1>2, <2>3, <2>5 DEF RestEmpty, LiveOnlyFiled
  <2> QED
    BY <2>6, <2>7, <2>8, <2>9 DEF Filing
<1> QED
  BY <1>3, <1>4

LEMMA MoveFiling ==
    ASSUME TypeOK, Filing, NEW doc \in Document, MoveDocument(doc)
    PROVE  Filing'
<1> DEFINE y == [server |-> job.newcomer, replica |-> job.label]
<1>1. /\ job.op = "add" /\ NoTasksLeft /\ Leaves(doc)
      /\ doc \in localDatabase[job.target]
      /\ UNCHANGED <<taskQueue, live, job>>
  BY DEF MoveDocument
<1>2. /\ job.target \in live /\ job.newcomer \in Server \ live /\ job.label \in Replica
  BY <1>1, JobShape DEF TypeOK, Filing, AddInv
<1>3. PICK e : e = [doc EXCEPT !.replica = job.label]
  OBVIOUS
<1>4. e.name = doc.name /\ e.replica = job.label
  BY <1>3 DEF Document
<1>5. /\ localDatabase'[job.target] = localDatabase[job.target] \ {doc}
      /\ localDatabase'[job.newcomer] = localDatabase[job.newcomer] \union {e}
      /\ \A s \in Server \ {job.target, job.newcomer} : localDatabase'[s] = localDatabase[s]
      /\ \A s \in Server \ {job.target} : cache'[s] = cache[s]
  BY <1>2, <1>3 DEF MoveDocument, TypeOK
<1>6. ServedRing' = ServedRing /\ InTransit' = InTransit /\ InTransit = {job.newcomer}
  BY <1>1 DEF ServedRing, InTransit, LabelsBelow
<1>7. LiveFiled'
  <2>1. \A s \in live : localDatabase'[s] \subseteq localDatabase[s]
    BY <1>2, <1>5 DEF TypeOK
  <2> QED
    BY <1>1, <1>6, <2>1 DEF Filing, LiveFiled, DocumentsFiled, TasksFiled, Home
<1>8. AddInv'
  <2>1. Home(job.newcomer, e) = y
    BY <1>4 DEF Home
  <2>2. IsNextReplica(Points(live) \union {y}, DocHash[e.name], y)
    BY <1>1, <1>4, LeavesIsNext
  <2>3. \A b \in localDatabase'[job.newcomer] :
            /\ b.replica <= job.label
            /\ IsNextReplica(Points(live) \union {Home(job.newcomer, b)},
                             DocHash[b.name], Home(job.newcomer, b))
    <3> SUFFICES ASSUME NEW b \in localDatabase'[job.newcomer]
                 PROVE  /\ b.replica <= job.label
                        /\ IsNextReplica(Points(live) \union {Home(job.newcomer, b)},
                                         DocHash[b.name], Home(job.newcomer, b))
      OBVIOUS
    <3>1. CASE b = e
      <4>1. job.label \in Nat
        BY <1>2, LabelType
      <4> QED
        BY <1>4, <2>1, <2>2, <3>1, <4>1
    <3>2. CASE b \in localDatabase[job.newcomer]
      BY <1>1, <3>2 DEF Filing, AddInv
    <3> QED
      BY <1>5, <3>1, <3>2
  <2>4. NoTasksLeft'
    BY <1>1 DEF NoTasksLeft
  <2>5. cache'[job.newcomer] = cache[job.newcomer]
    BY <1>2, <1>5
  <2> QED
    BY <1>1, <2>3, <2>4, <2>5 DEF Filing, AddInv, Home
<1>9. GetInv' /\ RemoveInv'
  BY <1>1 DEF GetInv, RemoveInv
<1>10. RestEmpty'
  BY <1>1, <1>2, <1>5, <1>6 DEF Filing, RestEmpty
<1> QED
  BY <1>7, <1>8, <1>9, <1>10 DEF Filing

LEMMA NextLabelFiling ==
    ASSUME TypeOK, Filing, NextLabel
    PROVE  Filing'
<1> DEFINE y == [server |-> job.newcomer, replica |-> job.label]
<1>1. /\ MovesDone /\ job.op = "add"
      /\ UNCHANGED <<taskQueue, localDatabase, cache, live>>
  BY DEF NextLabel, MovesDone
<1>2. PICK p \in Points(live) :
        /\ IsNextReplica(Points(live), ServerHash[job.newcomer][job.label + 1], p)
        /\ job' = Adding(job.newcomer, job.label + 1, p)
  BY DEF NextLabel
<1>3. /\ job'.op = "add" /\ job'.newcomer = job.newcomer /\ job'.label = job.label + 1
      /\ job'.target = p.server /\ job'.index = p.replica
  BY <1>2 DEF Adding
<1>4. job.newcomer \in Server \ live /\ job.label \in Replica /\ job.label \in Nat
  BY <1>1, JobShape, LabelType DEF TypeOK, Filing, AddInv
<1>5. p.server \in live /\ p = [server |-> p.server, replica |-> p.replica]
  BY DEF Points
<1>6. LabelsBelow(job.newcomer, job.label + 1) = LabelsBelow(job.newcomer, job.label) \union {y}
  <2>1. ASSUME NEW q
        PROVE  q \in LabelsBelow(job.newcomer, job.label + 1) <=>
                   q \in LabelsBelow(job.newcomer, job.label) \/ q = y
    <3>1. CASE q \in Points({job.newcomer})
      <4>1. q.replica \in Nat /\ q = [server |-> job.newcomer, replica |-> q.replica]
        BY <3>1, LabelType DEF Points
      <4> QED
        BY <1>4, <3>1, <4>1 DEF LabelsBelow
    <3>2. CASE q \notin Points({job.newcomer})
      BY <1>4, <3>2 DEF LabelsBelow, Points
    <3> QED
      BY <3>1, <3>2
  <2> QED
    BY <2>1
<1>7. ServedRing' = ServedRing \union {y} /\ InTransit' = InTransit
  <2>1. ServedRing' = Points(live) \union LabelsBelow(job.newcomer, job.label + 1)
    BY <1>1, <1>3 DEF ServedRing, LabelsBelow
  <2>2. ServedRing = Points(live) \union LabelsBelow(job.newcomer, job.label)
    BY <1>1 DEF ServedRing
  <2>3. ServedRing' = ServedRing \union {y}
    BY <1>6, <2>1, <2>2
  <2> QED
    BY <1>1, <1>3, <2>3 DEF InTransit
<1>8. LiveFiled'
  <2>1. \A s \in live :
            DocumentsFiled(s, ServedRing \union {y}) /\ TasksFiled(s, ServedRing \union {y})
    BY <1>1, LabelAdded
  <2> QED
    BY <1>1, <1>7, <2>1 DEF LiveFiled, DocumentsFiled, TasksFiled, Home
<1>9. AddInv'
  <2>1. ASSUME NEW doc \in localDatabase[job.newcomer]
        PROVE  /\ doc.replica <= job.label + 1
               /\ doc.replica # job.label + 1
               /\ IsNextReplica(Points(live) \union {Home(job.newcomer, doc)},
                                DocHash[doc.name], Home(job.newcomer, doc))
    <3>1. /\ doc.replica <= job.label
          /\ IsNextReplica(Points(live) \union {Home(job.newcomer, doc)},
                           DocHash[doc.name], Home(job.newcomer, doc))
      BY <1>1 DEF Filing, AddInv
    <3>2. doc.replica \in Nat
      BY <1>4, DocumentFacts, LabelType
    <3> QED
      BY <1>4, <3>1, <3>2
  <2>2. /\ taskQueue[job.newcomer] = <<>> /\ cache[job.newcomer] = <<>>
        /\ IsNextReplica(Points(live), ServerHash[job.newcomer][job.label + 1],
                         [server |-> p.server, replica |-> p.replica])
    BY <1>1, <1>2, <1>5 DEF Filing, AddInv
  <2> QED
    BY <1>1, <1>3, <1>4, <1>5, <2>1, <2>2 DEF AddInv, Home
<1>10. GetInv' /\ RemoveInv'
  BY <1>3 DEF GetInv, RemoveInv
<1>11. RestEmpty'
  BY <1>1, <1>7 DEF Filing, RestEmpty
<1> QED
  BY <1>8, <1>9, <1>10, <1>11 DEF Filing

LEMMA FinishAddFiling ==
    ASSUME TypeOK, Filing, FinishAdd
    PROVE  Filing'
<1> DEFINE y == [server |-> job.newcomer, replica |-> job.label]
           x == job.newcomer
           points == Points(live)
<1>1. /\ MovesDone /\ job.op = "add" /\ job.label + 1 = NumReplicas
      /\ live' = live \union {x} /\ job' = Idle /\ UNCHANGED <<taskQueue, cache>>
  BY DEF FinishAdd, MovesDone
<1>2. PICK label \in [localDatabase[x] -> Replica] :
        /\ \A doc \in localDatabase[x] : IsReplicaExecutor(x, DocHash[doc.name], label[doc])
        /\ localDatabase' = [localDatabase EXCEPT
                ![x] = {[doc EXCEPT !.replica = label[doc]] : doc \in localDatabase[x]}]
  BY DEF FinishAdd
<1>3. /\ x \in Server \ live /\ job.label \in Replica
      /\ taskQueue[x] = <<>> /\ cache[x] = <<>>
  BY <1>1, JobShape DEF TypeOK, Filing, AddInv
<1>4. /\ localDatabase'[x] = {[doc EXCEPT !.replica = label[doc]] : doc \in localDatabase[x]}
      /\ \A s \in Server \ {x} : localDatabase'[s] = localDatabase[s]
  BY <1>2, <1>3 DEF TypeOK
<1>5. Points(live') = points \union Points({x}) /\ points \in SUBSET Point
  <2>1. points \in SUBSET Point
    BY DEF Points, Point, TypeOK
  <2>2. Points(live \union {x}) = points \union Points({x})
    BY DEF Points
  <2> QED
    BY <1>1, <2>1, <2>2
<1>6. Points(live') = ServedRing \union {y}
  <2>1. Points({x}) = LabelsBelow(x, job.label) \union {y}
    <3>1. ASSUME NEW q
          PROVE  q \in Points({x}) <=> q \in LabelsBelow(x, job.label) \/ q = y
      <4>1. CASE q \in Points({x})
        <5>1. q.replica \in 0 .. NumReplicas - 1 /\ q = [server |-> x, replica |-> q.replica]
          BY <4>1 DEF Points, Replica
        <5>2. q.replica < job.label \/ q.replica = job.label
          BY <1>1, <1>3, <5>1, RingConstants, LabelType
        <5> QED
          BY <4>1, <5>1, <5>2 DEF LabelsBelow
      <4>2. CASE q \notin Points({x})
        BY <1>3, <4>2 DEF LabelsBelow, Points
      <4> QED
        BY <4>1, <4>2
    <3> QED
      BY <3>1
  <2>2. ServedRing = points \union LabelsBelow(x, job.label)
    BY <1>1 DEF ServedRing
  <2> QED
    BY <1>5, <2>1, <2>2
<1>7. ASSUME NEW s \in live
      PROVE  DocumentsFiled(s, Points(live')) /\ TasksFiled(s, Points(live'))
  BY <1>1, <1>6, LabelAdded
<1>8. ASSUME NEW b \in localDatabase'[x]
      PROVE  IsNextReplica(Points(live'), DocHash[b.name], Home(x, b))
  <2>1. PICK doc \in localDatabase[x] : b = [doc EXCEPT !.replica = label[doc]]
    BY <1>4, <1>8
  <2>2. /\ doc \in Document /\ doc.replica \in Replica /\ DocHash[doc.name] \in 0 .. HashMax
        /\ Home(x, doc) = [server |-> x, replica |-> doc.replica]
    BY <1>3, DocumentFacts DEF Home
  <2>3. b.name = doc.name /\ b.replica = label[doc] /\ label[doc] \in Replica
    BY <2>1, <2>2 DEF Document
  <2>4. IsReplicaExecutor(x, DocHash[doc.name], label[doc])
    BY <1>2
  <2>5. IsNextReplica(points \union {[server |-> x, replica |-> doc.replica]},
                      DocHash[doc.name], [server |-> x, replica |-> doc.replica])
    BY <1>1, <2>2 DEF Filing, AddInv
  <2>6. [server |-> x, replica |-> doc.replica] \notin points
    BY <1>3 DEF Points
  <2> HIDE DEF points
  <2>7. IsNextReplica(points \union Points({x}), DocHash[doc.name],
                      [server |-> x, replica |-> label[doc]])
    BY <1>3, <1>5, <2>2, <2>3, <2>4, <2>5, <2>6, HashesDistinct, JoinedIsNext
  <2> QED
    BY <1>5, <2>3, <2>7 DEF Home
<1>9. LiveOnlyFiled'
  <2>1. ASSUME NEW s \in live', NEW b \in localDatabase'[s]
        PROVE  IsNextReplica(Points(live'), DocHash[b.name], Home(s, b))
    <3>1. CASE s = x
      BY <1>8, <2>1, <3>1
    <3>2. CASE s # x
      <4>1. s \in live /\ localDatabase'[s] = localDatabase[s]
        BY <1>1, <1>4, <2>1, <3>2 DEF TypeOK
      <4> QED
        BY <1>7, <2>1, <4>1 DEF DocumentsFiled
    <3> QED
      BY <3>1, <3>2
  <2>2. ASSUME NEW s \in live', NEW n \in DOMAIN taskQueue[s]
        PROVE  \E i \in Replica :
                    IsNextReplica(Points(live'), DocHash[taskQueue[s][n].doc],
                                  [server |-> s, replica |-> i])
    <3>1. s \in live
      BY <1>1, <1>3, <2>2, EmptySeq
    <3> QED
      BY <1>7, <2>2, <3>1 DEF TasksFiled
  <2>3. ASSUME NEW s \in Server \ live'
        PROVE  taskQueue'[s] = <<>> /\ localDatabase'[s] = {} /\ cache'[s] = <<>>
    BY <1>1, <1>4, <2>3 DEF Filing, RestEmpty, InTransit
  <2> QED
    BY <1>1, <2>1, <2>2, <2>3 DEF LiveOnlyFiled, DocumentsFiled, TasksFiled, Home
<1> QED
  BY <1>1, <1>9, FiledAfter

LEMMA BeginRemoveFiling ==
    ASSUME TypeOK, Filing, NEW x \in Server, BeginRemove(x)
    PROVE  Filing'
<1>1. /\ job = Idle /\ x \in live /\ live' = live \ {x}
      /\ job'.op = "remove" /\ job'.target = x
      /\ UNCHANGED <<taskQueue, localDatabase, cache>>
  BY DEF BeginRemove, Removing
<1>2. LiveOnlyFiled
  BY <1>1, FiledBefore DEF Idle
<1>3. live' \union {x} = live /\ Points(live') \in SUBSET Points(live)
      /\ Points(live) \in SUBSET Point
  BY <1>1 DEF Points, Point, TypeOK
<1>4. ServedRing' = Points(live) \/ ServedRing' = Points(live')
  BY <1>1, <1>3 DEF ServedRing
<1>5. ASSUME NEW s \in live', NEW b \in localDatabase[s]
      PROVE  /\ IsNextReplica(Points(live), DocHash[b.name], Home(s, b))
             /\ IsNextReplica(Points(live'), DocHash[b.name], Home(s, b))
  <2>1. /\ IsNextReplica(Points(live), DocHash[b.name], Home(s, b))
        /\ DocHash[b.name] \in 0 .. HashMax /\ Home(s, b) \in Points(live')
    BY <1>1, <1>2, <1>5, DocumentFacts DEF LiveOnlyFiled, DocumentsFiled, TypeOK, Points
  <2> QED
    BY <1>3, <2>1, HashesDistinct, NextInSubset
<1>6. ASSUME NEW s \in live', NEW n \in DOMAIN taskQueue[s]
      PROVE  \E i \in Replica :
                /\ IsNextReplica(Points(live), DocHash[taskQueue[s][n].doc],
                                 [server |-> s, replica |-> i])
                /\ IsNextReplica(Points(live'), DocHash[taskQueue[s][n].doc],
                                 [server |-> s, replica |-> i])
  <2>1. PICK i \in Replica :
            IsNextReplica(Points(live), DocHash[taskQueue[s][n].doc], [server |-> s, replica |-> i])
    BY <1>1, <1>2, <1>6 DEF LiveOnlyFiled, TasksFiled
  <2>2. /\ DocHash[taskQueue[s][n].doc] \in 0 .. HashMax
        /\ [server |-> s, replica |-> i] \in Points(live')
    BY <1>1, <1>6, TaskFacts DEF TypeOK, Points
  <2> QED
    BY <1>3, <2>1, <2>2, HashesDistinct, NextInSubset
<1>7. LiveFiled'
  BY <1>1, <1>4, <1>5, <1>6 DEF LiveFiled, DocumentsFiled, TasksFiled, Home
<1>8. RemoveInv'
  BY <1>1, <1>2, <1>3 DEF RemoveInv, LiveOnlyFiled, DocumentsFiled, TasksFiled, Home
<1>9. GetInv' /\ AddInv'
  BY <1>1 DEF GetInv, AddInv
<1>10. RestEmpty'
  BY <1>1, <1>2, <1>3 DEF LiveOnlyFiled, RestEmpty, InTransit
<1> QED
  BY <1>7, <1>8, <1>9, <1>10 DEF Filing

LEMMA DistributeFiling ==
    ASSUME TypeOK, Filing, NEW doc \in Document, DistributeDocument(doc)
    PROVE  Filing'
<1>1. /\ job.op = "remove" /\ NoTasksLeft /\ doc \in localDatabase[job.target]
      /\ UNCHANGED <<taskQueue, cache, live, job>>
  BY DEF DistributeDocument
<1>2. job.target \in Server \ live
  BY <1>1, JobShape DEF TypeOK, Filing, RemoveInv
<1>3. PICK p \in Points(live) :
        /\ IsNextReplica(Points(live), ServerHash[job.target][doc.replica], p)
        /\ localDatabase' = [localDatabase EXCEPT
                ![job.target] = @ \ {doc},
                ![p.server] = @ \union {[doc EXCEPT !.replica = p.replica]}]
  BY DEF DistributeDocument
<1>4. /\ p.server \in live /\ p.replica \in Replica
      /\ p = [server |-> p.server, replica |-> p.replica]
  BY DEF Points
<1>5. PICK e : e = [doc EXCEPT !.replica = p.replica]
  OBVIOUS
<1>6. e.name = doc.name /\ Home(p.server, e) = p
  BY <1>4, <1>5 DEF Document, Home
<1>7. /\ localDatabase'[job.target] = localDatabase[job.target] \ {doc}
      /\ localDatabase'[p.server] = localDatabase[p.server] \union {e}
      /\ \A s \in Server \ {job.target, p.server} : localDatabase'[s] = localDatabase[s]
  BY <1>2, <1>3, <1>4, <1>5 DEF TypeOK
<1>8. ServedRing = Points(live) /\ ServedRing' = Points(live)
  BY <1>1 DEF ServedRing, NoTasksLeft
<1>9. IsNextReplica(Points(live), DocHash[e.name], p)
  <2> DEFINE points == Points(live \union {job.target})
             left == Points(live)
             h == DocHash[doc.name]
             q == Home(job.target, doc)
  <2>1. points \in SUBSET Point /\ left \in SUBSET points
    BY <1>2 DEF Points, Point, TypeOK
  <2>2. h \in 0 .. HashMax /\ q \in points \ left /\ PointHash(q) = ServerHash[job.target][doc.replica]
    BY <1>1, <1>2, DocumentFacts DEF Points, PointHash, Home
  <2>3. IsNextReplica(points, h, q)
    BY <1>1 DEF Filing, RemoveInv, DocumentsFiled
  <2>4. IsNextReplica(left, PointHash(q), p)
    BY <1>3, <2>2
  <2> HIDE DEF points, left, h, q
  <2>5. IsNextReplica(left, h, p)
    BY <2>1, <2>2, <2>3, <2>4, HashesDistinct, SuccessorIsNext
  <2> QED
    BY <1>6, <2>5 DEF left, h
<1>10. LiveFiled'
  <2>1. ASSUME NEW s \in live, NEW b \in localDatabase'[s]
        PROVE  IsNextReplica(Points(live), DocHash[b.name], Home(s, b))
    <3>1. CASE s = p.server /\ b = e
      BY <1>6, <1>9, <3>1
    <3>2. CASE ~ (s = p.server /\ b = e)
      <4>1. b \in localDatabase[s]
        BY <1>2, <1>7, <2>1, <3>2 DEF TypeOK
      <4> QED
        BY <1>8, <4>1 DEF Filing, LiveFiled, DocumentsFiled
    <3> QED
      BY <3>1, <3>2
  <2> QED
    BY <1>1, <1>8, <2>1 DEF Filing, LiveFiled, DocumentsFiled, TasksFiled, Home
<1>11. RemoveInv'
  BY <1>1, <1>7 DEF Filing, RemoveInv, DocumentsFiled, TasksFiled, Home
<1>12. GetInv' /\ AddInv'
  BY <1>1 DEF GetInv, AddInv
<1>13. RestEmpty'
  BY <1>1, <1>4, <1>7 DEF Filing, RestEmpty, InTransit
<1> QED
  BY <1>10, <1>11, <1>12, <1>13 DEF Filing

LEMMA FinishRemoveFiling ==
    ASSUME TypeOK, Filing, FinishRemove
    PROVE  Filing'
<1>1. /\ job.op = "remove" /\ NoTasksLeft /\ live' = live /\ job' = Idle
      /\ FreeServer(job.target)
  BY DEF FinishRemove
<1>2. job.target \in Server \ live
  BY <1>1, JobShape DEF TypeOK, Filing, RemoveInv
<1>3. /\ taskQueue'[job.target] = <<>> /\ localDatabase'[job.target] = {}
      /\ cache'[job.target] = <<>>
      /\ \A s \in Server \ {job.target} :
            /\ taskQueue'[s] = taskQueue[s] /\ localDatabase'[s] = localDatabase[s]
            /\ cache'[s] = cache[s]
  BY <1>1, <1>2 DEF FreeServer, TypeOK
<1>4. \A s \in live : DocumentsFiled(s, Points(live)) /\ TasksFiled(s, Points(live))
  BY <1>1 DEF Filing, LiveFiled, ServedRing
<1>5. \A s \in live : s \in Server \ {job.target}
  BY <1>2 DEF TypeOK
<1>6. LiveOnlyFiled'
  <2>1. \A s \in Server \ live :
            taskQueue'[s] = <<>> /\ localDatabase'[s] = {} /\ cache'[s] = <<>>
    BY <1>1, <1>3 DEF Filing, RestEmpty, InTransit
  <2> QED
    BY <1>1, <1>3, <1>4, <1>5, <2>1 DEF LiveOnlyFiled, DocumentsFiled, TasksFiled, Home
<1> QED
  BY <1>1, <1>6, FiledAfter

\* Every step keeps the placement, unless it ends the program.
LEMMA FilingStep ==
    ASSUME IInv, [Next]_vars, job' # Crashed
    PROVE  Filing'
<1>0. TypeOK /\ StoredOnce /\ CacheWellFormed /\ (job # Crashed => Filing)
  BY DEF IInv
<1>1. ASSUME NEW d \in Doc, NEW c \in Content, Edit(d, c)
      PROVE  Filing'
  BY <1>0, <1>1, EditFiling DEF Edit, Idle, Crashed
<1>2. ASSUME FinishGet \/ \E d \in Doc : BeginGet(d)
      PROVE  Filing'
  BY <1>0, <1>2, GetFiling DEF FinishGet, BeginGet, Idle, Crashed
<1>3. ASSUME DivideByZero \/ \E d \in Doc : ForwardToNobody(d)
      PROVE  Filing'
  BY <1>3 DEF ForwardToNobody, DivideByZero
<1>4. ASSUME DrainTask
      PROVE  Filing'
  BY <1>0, <1>4, DrainFiling DEF DrainTask, Draining, Crashed
<1>5. ASSUME NEW x \in Server, NEW size \in CacheSize, BeginAdd(x, size)
      PROVE  Filing'
  BY <1>0, <1>5, BeginAddFiling DEF BeginAdd, Idle, Crashed
<1>6. ASSUME NEW doc \in Document, MoveDocument(doc)
      PROVE  Filing'
  BY <1>0, <1>6, MoveFiling DEF MoveDocument, Crashed
<1>7. ASSUME NextLabel
      PROVE  Filing'
  BY <1>0, <1>7, NextLabelFiling DEF NextLabel, MovesDone, Crashed
<1>8. ASSUME FinishAdd
      PROVE  Filing'
  <2>1. job # Crashed
    BY <1>8 DEF FinishAdd, MovesDone, Crashed
  <2> QED
    BY <1>0, <1>8, <2>1, FinishAddFiling
<1>9. ASSUME NEW x \in Server, BeginRemove(x)
      PROVE  Filing'
  BY <1>0, <1>9, BeginRemoveFiling DEF BeginRemove, Idle, Crashed
<1>10. ASSUME NEW doc \in Document, DistributeDocument(doc)
       PROVE  Filing'
  BY <1>0, <1>10, DistributeFiling DEF DistributeDocument, Crashed
<1>11. ASSUME FinishRemove
       PROVE  Filing'
  BY <1>0, <1>11, FinishRemoveFiling DEF FinishRemove, Crashed
<1>12. ASSUME Finish
       PROVE  Filing'
  <2>1. LiveOnlyFiled'
    BY <1>12 DEF Finish, LiveOnlyFiled
  <2> QED
    BY <1>12, <2>1, FiledAfter DEF Finish
<1>13. ASSUME UNCHANGED vars
       PROVE  Filing'
  <2>1. Filing /\ UNCHANGED <<taskQueue, localDatabase, cache, live, job>>
    BY <1>0, <1>13 DEF vars, serverVars
  <2>2. ServedRing' = ServedRing /\ InTransit' = InTransit /\ NoTasksLeft' = NoTasksLeft
    BY <2>1 DEF ServedRing, InTransit, NoTasksLeft, LabelsBelow
  <2>3. LiveFiled'
    BY <2>1, <2>2 DEF Filing, LiveFiled, DocumentsFiled, TasksFiled, Home
  <2>4. AddInv'
    BY <2>1, <2>2 DEF Filing, AddInv, Home
  <2>5. RemoveInv'
    BY <2>1 DEF Filing, RemoveInv, DocumentsFiled, TasksFiled, Home
  <2>6. GetInv' /\ RestEmpty'
    BY <2>1, <2>2 DEF Filing, GetInv, RestEmpty
  <2> QED
    BY <2>3, <2>4, <2>5, <2>6 DEF Filing
<1> QED
  BY <1>1, <1>2, <1>3, <1>4, <1>5, <1>6, <1>7, <1>8, <1>9, <1>10, <1>11, <1>12, <1>13
     DEF Next, Request, Progress, Ended

-----------------------------------------------------------------------------
(***************************************************************************)
(* The theorems.                                                           *)
(***************************************************************************)

\* Nothing is stored, cached or queued at the start.
LEMMA InitInvariant == Init => IInv
<1> SUFFICES ASSUME Init
             PROVE  IInv
  OBVIOUS
<1>1. TypeOK
  <2>1. <<>> \in Seq(Task) /\ <<>> \in Seq(Entry(Doc, Content))
    BY EmptySeq
  <2> QED
    BY <2>1 DEF Init, TypeOK, Reply, Job
<1>2. StoredOnce /\ CacheCoherent
  BY DEF Init, StoredOnce, CacheCoherent
<1>3. CacheWellFormed
  <2>1. Len(<<>>) = 0 /\ KeysUnique(<<>>)
    BY DEF KeysUnique
  <2>2. ASSUME NEW s \in Server
        PROVE  Len(cache[s]) <= capacity[s] /\ KeysUnique(cache[s])
    <3>1. cache[s] = <<>> /\ capacity[s] = 0
      BY DEF Init
    <3> QED
      BY <2>1, <3>1
  <2> QED
    BY <2>2 DEF CacheWellFormed
<1>4. Filing
  BY DEF Init, Idle, Filing, LiveFiled, GetInv, AddInv, RemoveInv, RestEmpty
<1> QED
  BY <1>1, <1>2, <1>3, <1>4 DEF IInv

LEMMA StepInvariant == IInv /\ [Next]_vars => IInv'
<1> SUFFICES ASSUME IInv, [Next]_vars
             PROVE  IInv'
  OBVIOUS
<1>1. TypeOK'
  BY TypeStep
<1>2. StoredOnce'
  BY StoredOnceStep
<1>3. CacheCoherent'
  BY CoherentStep
<1>4. CacheWellFormed'
  BY WellFormedStep
<1>5. (job # Crashed => Filing)'
  BY FilingStep DEF Crashed
<1> QED
  BY <1>1, <1>2, <1>3, <1>4, <1>5 DEF IInv

\* Invariance: IInv holds in every state of every behaviour, whatever happens
\* between the iterations of the loops of the load balancer.
THEOREM Invariance == Spec => []IInv
BY InitInvariant, StepInvariant, PTL DEF Spec

\* TypesCorrect: the variables keep their types.
THEOREM TypesCorrect == Spec => []TypeOK
<1>1. IInv => TypeOK
  BY DEF IInv
<1> QED
  BY <1>1, Invariance, PTL

\* EveryDocumentPlaced: between requests every document is on the server, and
\* under the label, at which loader_forward_request looks for it, after any
\* sequence of additions, removals and edits.
THEOREM EveryDocumentPlaced == Spec => []DocumentsPlaced
<1>1. IInv => DocumentsPlaced
  <2> SUFFICES ASSUME IInv, job = Idle
               PROVE  \A s \in live : DocumentsFiled(s, Points(live))
    BY DEF DocumentsPlaced, DocumentsFiled, Home
  <2>1. Filing
    BY DEF IInv, Idle, Crashed
  <2> QED
    BY <2>1, FiledBefore DEF LiveOnlyFiled, Idle
<1> QED
  BY <1>1, Invariance, PTL

\* EveryTaskPlaced: between requests every queued EDIT waits on the server that
\* its document is looked for on.
THEOREM EveryTaskPlaced == Spec => []TasksPlaced
<1>1. IInv => TasksPlaced
  <2> SUFFICES ASSUME IInv, job = Idle
               PROVE  \A s \in live : TasksFiled(s, Points(live))
    BY DEF TasksPlaced, TasksFiled
  <2>1. Filing
    BY DEF IInv, Idle, Crashed
  <2> QED
    BY <2>1, FiledBefore DEF LiveOnlyFiled, Idle
<1> QED
  BY <1>1, Invariance, PTL

\* NoSecondCopy: a document is never stored twice, not even in the middle of a
\* move from one server to another.
THEOREM NoSecondCopy == Spec => []StoredOnce
<1>1. IInv => StoredOnce
  BY DEF IInv
<1> QED
  BY <1>1, Invariance, PTL

\* CachesCoherent: a pair cached on a live server is a document stored there.
THEOREM CachesCoherent == Spec => []CacheCoherent
<1>1. IInv => CacheCoherent
  BY DEF IInv
<1> QED
  BY <1>1, Invariance, PTL

\* CachesWellFormed: no cache outgrows its capacity, though lru_cache_put can be
\* called in a way that lets it, and none holds a key twice.
THEOREM CachesWellFormed == Spec => []CacheWellFormed
<1>1. IInv => CacheWellFormed
  BY DEF IInv
<1> QED
  BY <1>1, Invariance, PTL

\* CreatedIsNew: server_edit_document looks only at the local list of one server,
\* and yet a document it reports as created was on no server.
THEOREM CreatedIsNew == Spec => CreatedOnlyIfNew
<1>1. IInv /\ [Next]_vars =>
        [\A d \in Doc : reply' = Created(d) => \A s \in Server : Stored(s, d) = {}]_vars
  <2> SUFFICES ASSUME IInv, Next, vars' # vars, NEW d \in Doc, reply' = Created(d)
               PROVE  \A s \in Server : Stored(s, d) = {}
    OBVIOUS
  <2>1. DrainTask
    <3>1. /\ \A e \in Doc, c \in Content : Created(d) # Got(e, c) /\ Created(d) # Got(e, NoContent)
          /\ \A e \in Doc : Created(d) # Queued(e)
          /\ Created(d) # NoReply
      BY DEF Created, Got, Queued, NoReply
    <3>2. ~ FinishGet
      <4> SUFFICES ASSUME FinishGet
                   PROVE  FALSE
        OBVIOUS
      <4>1. reply'.kind = "got"
        BY DEF FinishGet, GetDocument, GetFromCache, GetFromDatabase, GetNothing, Got
      <4> QED
        BY <4>1 DEF Created
    <3> QED
      BY <3>1, <3>2 DEF Next, Ended, Request, Progress, Edit, QueueEdit, BeginGet, BeginAdd,
            InitServer, BeginRemove, ForwardToNobody, Finish, MoveDocument, NextLabel, FinishAdd,
            DistributeDocument, FinishRemove, FreeServer, DivideByZero
  <2>2. /\ TypeOK /\ StoredOnce /\ CacheWellFormed /\ Filing
        /\ job.target \in Server /\ Draining /\ ExecuteTask(job.target) /\ ~ NoTasksLeft
    BY <2>1, TargetType DEF IInv, DrainTask, Draining, Crashed, TypeOK, ExecuteTask, NoTasksLeft
  <2>3. PICK name \in Doc, c \in Content :
            /\ Head(taskQueue[job.target]) = [doc |-> name, content |-> c]
            /\ EditDocument(job.target, name, c)
    BY <2>2, ExecutedTask
  <2>4. name = d /\ Stored(job.target, d) = {}
    BY <2>3 DEF EditDocument, OverrideDocument, CreateDocument, Created, Overridden
  <2>5. ASSUME NEW s \in Server, s # job.target, NEW doc \in localDatabase[s]
        PROVE  doc.name # d
    BY <2>2, <2>3, <2>4, <2>5, NotElsewhere
  <2> QED
    BY <2>4, <2>5 DEF Stored
<1> QED
  BY <1>1, Invariance, PTL DEF Spec, CreatedOnlyIfNew

-----------------------------------------------------------------------------
\* The servers whose hash tables can be searched: all the live ones, the one
\* that is joining and the one that is leaving.
CachesUsable ==
    /\ \A s \in live : capacity[s] > 0
    /\ job.op = "add" => capacity[job.newcomer] > 0
    /\ job.op = "remove" => capacity[job.target] > 0

\* A job works on a server that has a cache, and so does not divide by zero.
LEMMA NoDivisionByZero ==
    ASSUME IInv, CachesUsable
    PROVE  ~ DivideByZero
<1> SUFFICES ASSUME DivideByZero
             PROVE  FALSE
  OBVIOUS
<1>1. job.op \in {"get", "add", "remove"} /\ capacity[job.target] = 0
  BY DEF DivideByZero, SearchesCache, Draining
<1>2. Filing
  BY <1>1 DEF IInv, Crashed
<1>3. job.op \in {"get", "add"} => job.target \in live
  BY <1>2 DEF Filing, GetInv, AddInv
<1>4. capacity[job.target] > 0
  BY <1>1, <1>3 DEF CachesUsable
<1> QED
  BY <1>1, <1>4

LEMMA CachesUsableStep ==
    ASSUME 0 \notin CacheSize, IInv, CachesUsable, [Next]_vars
    PROVE  CachesUsable'
<1>1. ASSUME UNCHANGED <<capacity, live, job>>
      PROVE  CachesUsable'
  BY <1>1 DEF CachesUsable
<1>2. ASSUME UNCHANGED capacity, live' \subseteq live, job'.op \notin {"add", "remove"}
      PROVE  CachesUsable'
  BY <1>2 DEF CachesUsable
<1>3. ASSUME NEW d \in Doc, NEW c \in Content, Edit(d, c)
      PROVE  CachesUsable'
  BY <1>1, <1>3 DEF Edit, QueueEdit
<1>4. ASSUME NEW d \in Doc, BeginGet(d)
      PROVE  CachesUsable'
  <2>1. job'.op = "get"
    BY <1>4 DEF BeginGet, Getting
  <2> QED
    BY <1>2, <1>4, <2>1 DEF BeginGet
<1>5. ASSUME NEW x \in Server, NEW size \in CacheSize, BeginAdd(x, size)
      PROVE  CachesUsable'
  <2>1. size \in Nat /\ size > 0
    BY CacheSizes
  <2>2. capacity' = [capacity EXCEPT ![x] = size] /\ capacity \in [Server -> Nat]
        /\ x \notin live /\ live \subseteq Server
    BY <1>5 DEF BeginAdd, InitServer, IInv, TypeOK
  <2>3. capacity'[x] > 0 /\ \A s \in live : capacity'[s] > 0
    BY <2>1, <2>2 DEF CachesUsable
  <2>4. live' \subseteq live \union {x}
    BY <1>5 DEF BeginAdd
  <2>5. job'.op # "remove" /\ (job'.op = "add" => job'.newcomer = x)
    BY <1>5 DEF BeginAdd, Idle, Adding
  <2> QED
    BY <2>3, <2>4, <2>5 DEF CachesUsable
<1>6. ASSUME NEW x \in Server, BeginRemove(x)
      PROVE  CachesUsable'
  <2>1. job'.op = "remove" /\ job'.target = x
    BY <1>6 DEF BeginRemove, Removing
  <2> QED
    BY <1>6, <2>1 DEF BeginRemove, CachesUsable
<1>7. ASSUME \E d \in Doc : ForwardToNobody(d)
      PROVE  CachesUsable'
  <2>1. job'.op = "crashed"
    BY <1>7 DEF ForwardToNobody, Crashed
  <2> QED
    BY <1>2, <1>7, <2>1 DEF ForwardToNobody
<1>8. ASSUME Finish
      PROVE  CachesUsable'
  <2>1. job'.op = "finished" /\ live' = {}
    BY <1>8 DEF Finish, Finished
  <2> QED
    BY <2>1 DEF CachesUsable
<1>9. ASSUME DrainTask
      PROVE  CachesUsable'
  BY <1>1, <1>9 DEF DrainTask, ExecuteTask
<1>10. ASSUME FinishGet
       PROVE  CachesUsable'
  <2>1. job'.op = "idle"
    BY <1>10 DEF FinishGet, Idle
  <2> QED
    BY <1>2, <1>10, <2>1 DEF FinishGet, GetDocument
<1>11. ASSUME NEW doc \in Document, MoveDocument(doc) \/ DistributeDocument(doc)
       PROVE  CachesUsable'
  BY <1>1, <1>11 DEF MoveDocument, DistributeDocument
<1>12. ASSUME NextLabel
       PROVE  CachesUsable'
  <2>1. job.op = "add" /\ job'.op = "add" /\ job'.newcomer = job.newcomer
    BY <1>12 DEF NextLabel, MovesDone, Adding
  <2> QED
    BY <1>12, <2>1 DEF NextLabel, CachesUsable
<1>13. ASSUME FinishAdd
       PROVE  CachesUsable'
  <2>1. job.op = "add" /\ job'.op = "idle" /\ live' = live \union {job.newcomer}
        /\ UNCHANGED capacity
    BY <1>13 DEF FinishAdd, MovesDone, Idle
  <2> QED
    BY <2>1 DEF CachesUsable
<1>14. ASSUME FinishRemove
       PROVE  CachesUsable'
  <2>1. job.op = "remove" /\ job'.op = "idle" /\ UNCHANGED live
        /\ capacity' = [capacity EXCEPT ![job.target] = 0]
    BY <1>14 DEF FinishRemove, FreeServer, Idle
  <2>2. job.target \notin live
    BY <2>1 DEF IInv, Filing, RemoveInv, Crashed
  <2>3. live \subseteq Server /\ capacity \in [Server -> Nat]
    BY DEF IInv, TypeOK
  <2> QED
    BY <2>1, <2>2, <2>3 DEF CachesUsable
<1>15. ASSUME Ended \/ UNCHANGED vars
       PROVE  CachesUsable'
  BY <1>1, <1>15 DEF Ended, vars, serverVars
<1> QED
  BY <1>3, <1>4, <1>5, <1>6, <1>7, <1>8, <1>9, <1>10, <1>11, <1>12, <1>13, <1>14, <1>15,
     NoDivisionByZero DEF Next, Request, Progress

\* A set of natural numbers has a least one.
LEMMA LeastNumber ==
    ASSUME NEW T \in SUBSET Nat, T # {}
    PROVE  \E n \in T : \A m \in T : n <= m
<1> DEFINE R == {ss \in Nat \X Nat : ss[1] < ss[2]}
<1>1. IsWellFoundedOn(R, Nat)
  BY NatLessThanWellFounded DEF OpToRel
<1> HIDE DEF R
<1>2. PICK n \in T : \A m \in T : ~ (<<m, n>> \in R)
  BY <1>1, WFMin
<1>3. \A m \in T : ~ (m < n)
  BY <1>2 DEF R
<1> QED
  BY <1>3

\* The minimum of a scan exists, unless there is nothing to scan,
LEMMA FirstExists ==
    ASSUME NEW points \in SUBSET Point, points # {}
    PROVE  \E p \in points : IsFirst(points, p)
<1> DEFINE T == {PointHash(p) : p \in points}
<1>1. \A p \in points : p \in Point /\ PointHash(p) \in Nat
  BY PointHashType
<1>2. PICK n \in T : \A m \in T : n <= m
  <2>1. T \in SUBSET Nat /\ T # {}
    BY <1>1
  <2> HIDE DEF T
  <2> QED
    BY <2>1, LeastNumber
<1>3. PICK p \in points : n = PointHash(p)
  BY <1>2
<1>4. ASSUME NEW q \in points
      PROVE  ~ Before(q, p)
  <2>1. PointHash(p) <= PointHash(q) /\ PointHash(p) \in Nat /\ PointHash(q) \in Nat
    BY <1>1, <1>2, <1>3
  <2>2. CASE q = p
    <3>1. p.server \in Nat /\ p.replica \in Nat
      BY <1>1, LabelType DEF Point
    <3> QED
      BY <2>1, <2>2, <3>1 DEF Before
  <2>3. CASE q # p
    BY <1>1, <2>1, <2>3, HashesDistinct DEF Before, DistinctPoints
  <2> QED
    BY <2>2, <2>3
<1> QED
  BY <1>4 DEF IsFirst

\* so that get_next_replica does not return NULL while a server is listed,
LEMMA NextExists ==
    ASSUME NEW servers \in SUBSET Server, servers # {}, NEW h
    PROVE  \E p \in Points(servers) : IsNextReplica(Points(servers), h, p)
<1>1. Points(servers) \in SUBSET Point
  BY DEF Points, Point
<1>2. PICK s \in servers : TRUE
  OBVIOUS
<1>3. 0 \in Replica
  BY RingConstants DEF Replica
<1>4. [server |-> s, replica |-> 0] \in Points(servers)
  BY <1>3 DEF Points
<1>5. Above(Points(servers), h) \subseteq Points(servers)
  BY DEF Above
<1> QED
  BY <1>1, <1>4, <1>5, FirstExists DEF IsNextReplica

\* CrashesOnlyWithoutServers: if every ADD_SERVER asks for a cache of at least
\* one entry, the program ends early only when there is no server at all.  As
\* long as there is one, the search finds a label for every document.
THEOREM CrashesOnlyWithoutServers ==
    ASSUME 0 \notin CacheSize
    PROVE  Spec => []CrashOnlyWithoutServers
<1> DEFINE CInv == IInv /\ CachesUsable /\ CrashOnlyWithoutServers
<1>1. Init => CInv
  <2>1. Init => CachesUsable /\ CrashOnlyWithoutServers
    BY DEF Init, CachesUsable, CrashOnlyWithoutServers, Idle, Crashed
  <2> QED
    BY <2>1, InitInvariant
<1>2. CInv /\ [Next]_vars => CInv'
  <2> SUFFICES ASSUME IInv, CachesUsable, CrashOnlyWithoutServers, [Next]_vars
               PROVE  CInv'
    OBVIOUS
  <2>1. IInv' /\ CachesUsable'
    BY StepInvariant, CachesUsableStep
  <2>2. ASSUME job' = Crashed
        PROVE  live' = {}
    <3>1. CASE \E d \in Doc : ForwardToNobody(d)
      <4>1. PICK d \in Doc : ForwardToNobody(d)
        BY <3>1
      <4>2. live \in SUBSET Server
        BY DEF IInv, TypeOK
      <4> QED
        BY <4>1, <4>2, NextExists DEF ForwardToNobody
    <3>2. CASE UNCHANGED <<live, job>>
      BY <2>2, <3>2 DEF CrashOnlyWithoutServers
    <3>3. job'.op = "crashed"
      BY <2>2 DEF Crashed
    <3> QED
      BY <3>1, <3>2, <3>3, NoDivisionByZero
         DEF Next, Request, Progress, Ended, vars, serverVars, Edit, BeginGet, BeginAdd, BeginRemove,
             Finish, DrainTask, FinishGet, MoveDocument, NextLabel, FinishAdd,
             DistributeDocument, FinishRemove, Idle, Getting, Adding, Removing, Finished
  <2> QED
    BY <2>1, <2>2 DEF CrashOnlyWithoutServers
<1>3. CInv => CrashOnlyWithoutServers
  OBVIOUS
<1> QED
  BY <1>1, <1>2, <1>3, PTL DEF Spec

-----------------------------------------------------------------------------
(***************************************************************************)
(* Requests come to an end: each step of a request brings it nearer to its *)
(* end, and as long as it has not ended there is a next step.  Under       *)
(* fairness that is RequestsComplete, for a server stores finitely many    *)
(* documents.                                                              *)
(***************************************************************************)
\* RequestsGoOn: no step of a request leaves it with the same work as before.
THEOREM RequestsGoOn == Spec => RequestsAdvance
<1>1. IInv /\ [Next]_vars => [Draining /\ Draining' => Advances]_vars
  <2> SUFFICES ASSUME IInv, Next, vars' # vars, Draining, Draining'
               PROVE  Advances
    OBVIOUS
  <2>1. TypeOK /\ Filing /\ job.target \in Server
    BY TargetType DEF IInv, Draining, Crashed, TypeOK
  <2>2. CASE DrainTask
    <3>1. taskQueue' = [taskQueue EXCEPT ![job.target] = Tail(@)] /\ taskQueue[job.target] # <<>>
      BY <2>2 DEF DrainTask, ExecuteTask
    <3>2. taskQueue[job.target] \in Seq(Task)
      BY <2>1 DEF TypeOK
    <3>3. Len(Tail(taskQueue[job.target])) < Len(taskQueue[job.target])
      BY <3>1, <3>2, HeadTailProperties, LenProperties
    <3>4. taskQueue'[job.target] = Tail(taskQueue[job.target])
      BY <2>1, <3>1 DEF TypeOK
    <3> QED
      BY <2>2, <3>3, <3>4 DEF DrainTask, Advances
  <2>3. ASSUME NEW doc \in Document, MoveDocument(doc)
        PROVE  Advances
    <3>1. job.newcomer # job.target
      BY <2>1, <2>3 DEF Filing, AddInv, MoveDocument
    <3>2. localDatabase'[job.target] = localDatabase[job.target] \ {doc} /\ doc \in localDatabase[job.target]
      BY <2>1, <2>3, <3>1 DEF MoveDocument, TypeOK
    <3> QED
      BY <2>3, <3>2 DEF MoveDocument, Advances
  <2>4. CASE NextLabel
    <3>1. job.op = "add" /\ job.label \in Nat /\ job.label + 1 < NumReplicas
      BY <2>1, <2>4, JobShape, LabelType DEF NextLabel, MovesDone, TypeOK
    <3>2. /\ job'.op = "add" /\ job'.newcomer = job.newcomer
          /\ job'.label = job.label + 1
      BY <2>4 DEF NextLabel, Adding
    <3>3. job.label + 1 \in Replica
      BY <3>1, RingConstants DEF Replica
    <3> QED
      BY <3>1, <3>2, <3>3 DEF Advances
  <2>5. ASSUME NEW doc \in Document, DistributeDocument(doc)
        PROVE  Advances
    <3>1. PICK p \in Points(live) :
            localDatabase' = [localDatabase EXCEPT
                ![job.target] = @ \ {doc},
                ![p.server] = @ \union {[doc EXCEPT !.replica = p.replica]}]
      BY <2>5 DEF DistributeDocument
    <3>2. job.target \notin live /\ p.server \in live
      BY <2>1, <2>5 DEF Filing, RemoveInv, DistributeDocument, Points
    <3>3. localDatabase'[job.target] = localDatabase[job.target] \ {doc} /\ doc \in localDatabase[job.target]
      BY <2>1, <2>5, <3>1, <3>2 DEF DistributeDocument, TypeOK
    <3> QED
      BY <2>5, <3>3 DEF DistributeDocument, Advances
  <2>6. /\ ~ Request /\ ~ Ended
        /\ ~ FinishGet /\ ~ FinishAdd /\ ~ FinishRemove /\ ~ DivideByZero
    BY DEF Draining, Request, Ended, Edit, BeginGet, BeginAdd, BeginRemove, ForwardToNobody, Finish,
           FinishGet, FinishAdd, FinishRemove, DivideByZero, Idle, Crashed, Finished
  <2> QED
    BY <2>2, <2>3, <2>4, <2>5, <2>6 DEF Next, Progress
<1> QED
  BY <1>1, Invariance, PTL DEF Spec, RequestsAdvance

\* The number of documents that are left to move is a number.
DocumentsFinite == \A s \in Server : IsFiniteSet(localDatabase[s])

\* A drained EDIT adds at most one document.
LEMMA DocumentsFiniteEdit ==
    ASSUME TypeOK, StoredOnce, DocumentsFinite, NEW s \in Server, NEW d \in Doc, NEW c \in Content,
           EditDocument(s, d, c)
    PROVE  DocumentsFinite'
<1>1. PICK e \in Document :
        localDatabase' = [localDatabase EXCEPT
                ![s] = {b \in localDatabase[s] : b.name # d} \union {e}]
  BY EditedDatabase
<1>2. IsFiniteSet(localDatabase[s])
  BY DEF DocumentsFinite
<1>3. PICK rest : rest = {b \in localDatabase[s] : b.name # d}
  OBVIOUS
<1>4. IsFiniteSet(rest \union {e})
  <2>1. rest \in SUBSET localDatabase[s]
    BY <1>3
  <2> QED
    BY <1>2, <2>1, FS_Subset, FS_AddElement
<1> QED
  BY <1>1, <1>3, <1>4 DEF DocumentsFinite, TypeOK

\* A move takes one document away from a server and gives one to another.
LEMMA DocumentsFiniteMove ==
    ASSUME TypeOK, DocumentsFinite, NEW s \in Server, NEW t \in Server, s # t, NEW doc, NEW e,
           localDatabase' = [localDatabase EXCEPT ![s] = @ \ {doc}, ![t] = @ \union {e}]
    PROVE  DocumentsFinite'
<1>1. IsFiniteSet(localDatabase[s] \ {doc}) /\ IsFiniteSet(localDatabase[t] \union {e})
  BY FS_RemoveElement, FS_AddElement DEF DocumentsFinite
<1>2. /\ localDatabase'[s] = localDatabase[s] \ {doc}
      /\ localDatabase'[t] = localDatabase[t] \union {e}
      /\ \A x \in Server \ {s, t} : localDatabase'[x] = localDatabase[x]
  BY DEF TypeOK
<1> QED
  BY <1>1, <1>2 DEF DocumentsFinite

\* Filing the documents of a newcomer again gives no more than it had.
LEMMA DocumentsFiniteFile ==
    ASSUME TypeOK, DocumentsFinite, NEW s \in Server, NEW label,
           localDatabase' = [localDatabase EXCEPT
                ![s] = {[doc EXCEPT !.replica = label[doc]] : doc \in @}]
    PROVE  DocumentsFinite'
<1>1. PICK f : f = [doc \in localDatabase[s] |-> [doc EXCEPT !.replica = label[doc]]]
  OBVIOUS
<1>2. PICK T : T = {[doc EXCEPT !.replica = label[doc]] : doc \in localDatabase[s]}
  OBVIOUS
<1>3. f \in Surjection(localDatabase[s], T)
  BY <1>1, <1>2 DEF Surjection
<1>4. IsFiniteSet(T)
  BY <1>3, FS_Surjection DEF DocumentsFinite
<1> QED
  BY <1>2, <1>4 DEF DocumentsFinite, TypeOK

\* DocumentsStayFinite: a server never stores more than finitely many
\* documents, so that no loop over them takes one document after the other
\* without end.
THEOREM DocumentsStayFinite == Spec => []DocumentsFinite
<1>1. Init => DocumentsFinite
  BY FS_EmptySet DEF Init, DocumentsFinite
<1>2. IInv /\ DocumentsFinite /\ [Next]_vars => DocumentsFinite'
  <2> SUFFICES ASSUME IInv, DocumentsFinite, [Next]_vars
               PROVE  DocumentsFinite'
    OBVIOUS
  <2>1. TypeOK /\ StoredOnce /\ (job # Crashed => Filing)
    BY DEF IInv
  <2>2. CASE UNCHANGED localDatabase
    BY <2>2 DEF DocumentsFinite
  <2>3. CASE DrainTask
    <3>1. job.target \in Server /\ taskQueue[job.target] \in Seq(Task) /\ taskQueue[job.target] # <<>>
      BY <2>1, <2>3, TargetType DEF DrainTask, ExecuteTask, Draining, Crashed, TypeOK
    <3>2. Head(taskQueue[job.target]) \in Task
      BY <3>1, HeadTailProperties
    <3>3. PICK d \in Doc, c \in Content : EditDocument(job.target, d, c)
      BY <2>3, <3>2 DEF DrainTask, ExecuteTask, Task
    <3> QED
      BY <2>1, <3>1, <3>3, DocumentsFiniteEdit
  <2>4. ASSUME NEW doc \in Document, MoveDocument(doc)
        PROVE  DocumentsFinite'
    <3>1. job.target \in Server /\ job.newcomer \in Server /\ job.newcomer # job.target
      BY <2>1, <2>4, JobShape DEF Filing, AddInv, MoveDocument, Crashed, TypeOK
    <3> QED
      BY <2>1, <2>4, <3>1, DocumentsFiniteMove DEF MoveDocument
  <2>5. CASE FinishAdd
    <3>1. job.newcomer \in Server
      BY <2>1, <2>5, JobShape DEF FinishAdd, MovesDone, TypeOK
    <3>2. PICK label \in [localDatabase[job.newcomer] -> Replica] :
            localDatabase' = [localDatabase EXCEPT
                ![job.newcomer] = {[doc EXCEPT !.replica = label[doc]] : doc \in @}]
      BY <2>5 DEF FinishAdd
    <3> QED
      BY <2>1, <3>1, <3>2, DocumentsFiniteFile
  <2>6. ASSUME NEW doc \in Document, DistributeDocument(doc)
        PROVE  DocumentsFinite'
    <3>1. PICK p \in Points(live) :
            localDatabase' = [localDatabase EXCEPT
                ![job.target] = @ \ {doc},
                ![p.server] = @ \union {[doc EXCEPT !.replica = p.replica]}]
      BY <2>6 DEF DistributeDocument
    <3>2. job.target \in Server /\ p.server \in Server /\ job.target # p.server
      BY <2>1, <2>6, JobShape DEF Filing, RemoveInv, DistributeDocument, Crashed, TypeOK, Points
    <3> QED
      BY <2>1, <3>1, <3>2, DocumentsFiniteMove
  <2>7. CASE FinishRemove \/ Finish
    <3>1. \A s \in Server : localDatabase'[s] \in {{}, localDatabase[s]}
      BY <2>1, <2>7 DEF FinishRemove, FreeServer, Finish, TypeOK
    <3> QED
      BY <3>1, FS_EmptySet DEF DocumentsFinite
  <2> QED
    BY <2>2, <2>3, <2>4, <2>5, <2>6, <2>7
       DEF Next, Request, Progress, Ended, vars, serverVars, Edit, QueueEdit, BeginGet, BeginAdd,
           InitServer, BeginRemove, ForwardToNobody, FinishGet, GetDocument, NextLabel, DivideByZero
<1> QED
  BY <1>1, <1>2, Invariance, PTL DEF Spec

\* get_server_replica_executor finds a label of every server.
LEMMA ExecutorExists ==
    ASSUME NEW s \in Server, NEW h
    PROVE  \E i \in Replica : IsReplicaExecutor(s, h, i)
<1> DEFINE found == {p \in Above(Points({s}), h) : PointHash(p) < HashMax}
           scanned == IF found # {} THEN found ELSE Points({s})
<1>1. scanned \subseteq Points({s}) /\ scanned # {}
  <2>1. 0 \in Replica
    BY RingConstants DEF Replica
  <2>2. [server |-> s, replica |-> 0] \in Points({s})
    BY <2>1 DEF Points
  <2> QED
    BY <2>2 DEF Above
<1>2. Points({s}) \subseteq Point
  BY DEF Points, Point
<1> HIDE DEF scanned
<1>3. PICK p \in scanned : IsFirst(scanned, p)
  BY <1>1, <1>2, FirstExists
<1>4. p.replica \in Replica /\ p = [server |-> s, replica |-> p.replica]
  BY <1>1 DEF Points
<1> QED
  BY <1>3, <1>4 DEF IsReplicaExecutor, scanned

(***************************************************************************)
(* The conditions, one by one, under which the steps of a request can be   *)
(* taken: DrainTask, FinishGet, MoveDocument, NextLabel, FinishAdd,        *)
(* DistributeDocument, FinishRemove and DivideByZero.                      *)
(***************************************************************************)
CanGoOn ==
    \/ /\ ~ NoTasksLeft /\ capacity[job.target] > 0
       /\ LET d == Head(taskQueue[job.target]).doc
          IN  \/ Stored(job.target, d) # {}
              \/ \E i \in Replica : IsReplicaExecutor(job.target, DocHash[d], i)
    \/ /\ job.op = "get" /\ NoTasksLeft /\ capacity[job.target] > 0
    \/ /\ job.op = "add" /\ NoTasksLeft /\ capacity[job.target] > 0
       /\ \E doc \in localDatabase[job.target] : Leaves(doc)
    \/ /\ MovesDone /\ job.label + 1 < NumReplicas
       /\ \E p \in Points(live) :
            IsNextReplica(Points(live), ServerHash[job.newcomer][job.label + 1], p)
    \/ /\ MovesDone /\ job.label + 1 = NumReplicas
       /\ \E label \in [localDatabase[job.newcomer] -> Replica] :
            \A doc \in localDatabase[job.newcomer] :
                IsReplicaExecutor(job.newcomer, DocHash[doc.name], label[doc])
    \/ /\ job.op = "remove" /\ NoTasksLeft
       /\ \E doc \in localDatabase[job.target], p \in Points(live) :
            IsNextReplica(Points(live), ServerHash[job.target][doc.replica], p)
    \/ /\ job.op = "remove" /\ NoTasksLeft
       /\ live = {} \/ localDatabase[job.target] = {}
    \/ SearchesCache /\ capacity[job.target] = 0

\* RequestsFindNextStep: a request that has not ended always has a next step.
\* In particular no search of the ring or of a server in the middle of a
\* request comes back with NULL, and none meets a server without labels.
THEOREM RequestsFindNextStep == Spec => [](Draining => CanGoOn)
<1>1. ASSUME IInv, Draining
      PROVE  CanGoOn
  <2>1. TypeOK /\ Filing /\ job.target \in Server /\ capacity[job.target] \in Nat
    BY <1>1, TargetType DEF IInv, Draining, Crashed, TypeOK
  <2>2. CASE capacity[job.target] > 0 /\ ~ NoTasksLeft
    BY <2>1, <2>2, ExecutorExists DEF CanGoOn
  <2>3. CASE capacity[job.target] = 0 /\ ~ NoTasksLeft
    BY <1>1, <2>3 DEF CanGoOn, SearchesCache
  <2>4. CASE NoTasksLeft /\ job.op = "get"
    BY <2>1, <2>4 DEF CanGoOn, SearchesCache
  <2>5. CASE NoTasksLeft /\ job.op = "add"
    <3>1. CASE \E doc \in localDatabase[job.target] : Leaves(doc)
      BY <2>1, <2>5, <3>1 DEF CanGoOn, SearchesCache
    <3>2. CASE MovesDone
      <4>1. job.newcomer \in Server /\ job.label \in Replica /\ live # {} /\ live \in SUBSET Server
        BY <2>1, <2>5, JobShape DEF TypeOK, Filing, AddInv
      <4>2. job.label + 1 < NumReplicas \/ job.label + 1 = NumReplicas
        BY <4>1, RingConstants DEF Replica
      <4>3. \E p \in Points(live) :
                IsNextReplica(Points(live), ServerHash[job.newcomer][job.label + 1], p)
        BY <4>1, NextExists
      <4>4. \E label \in [localDatabase[job.newcomer] -> Replica] :
                \A doc \in localDatabase[job.newcomer] :
                    IsReplicaExecutor(job.newcomer, DocHash[doc.name], label[doc])
        <5>1. \A doc \in localDatabase[job.newcomer] :
                \E i \in Replica : IsReplicaExecutor(job.newcomer, DocHash[doc.name], i)
          BY <4>1, ExecutorExists
        <5>2. PICK label : label = [doc \in localDatabase[job.newcomer] |->
                CHOOSE i \in Replica : IsReplicaExecutor(job.newcomer, DocHash[doc.name], i)]
          OBVIOUS
        <5> QED
          BY <5>1, <5>2
      <4> QED
        BY <3>2, <4>2, <4>3, <4>4 DEF CanGoOn
    <3> QED
      BY <2>5, <3>1, <3>2 DEF MovesDone
  <2>6. CASE NoTasksLeft /\ job.op = "remove"
    <3>1. CASE live = {} \/ localDatabase[job.target] = {}
      BY <2>6, <3>1 DEF CanGoOn
    <3>2. CASE live # {} /\ localDatabase[job.target] # {}
      <4>1. PICK doc \in localDatabase[job.target] : TRUE
        BY <3>2
      <4>2. \E p \in Points(live) :
                IsNextReplica(Points(live), ServerHash[job.target][doc.replica], p)
        BY <2>1, <3>2, NextExists DEF TypeOK
      <4> QED
        BY <2>6, <4>1, <4>2 DEF CanGoOn
    <3> QED
      BY <3>1, <3>2
  <2> QED
    BY <1>1, <2>1, <2>2, <2>3, <2>4, <2>5, <2>6 DEF Draining
<1> QED
  BY <1>1, Invariance, PTL

-----------------------------------------------------------------------------
(***************************************************************************)
(* The database implements the store of KVStore: each step either is the   *)
(* operation of the store that it claims to be, or leaves what every       *)
(* document contains as it was, however the document, or the EDIT queued   *)
(* for it, moves.                                                          *)
(***************************************************************************)
\* What ContentOf makes of given queues and local databases.
ContentIn(tq, db, d) ==
    LET tasks(s) == {n \in DOMAIN tq[s] : tq[s][n].doc = d}
        pending == {s \in Server : tasks(s) # {}}
        copies == UNION {{doc \in db[s] : doc.name = d} : s \in Server}
        s == CHOOSE s \in pending : TRUE
        last == CHOOSE n \in tasks(s) : \A m \in tasks(s) : m <= n
    IN  IF pending # {} THEN tq[s][last].content
        ELSE IF copies # {} THEN (CHOOSE doc \in copies : TRUE).content
        ELSE NoContent

IsLastTask(tq, s, n, d) ==
    /\ n \in DOMAIN tq[s]
    /\ tq[s][n].doc = d
    /\ \A m \in DOMAIN tq[s] : tq[s][m].doc = d => m <= n

NoneQueued(tq, d) == \A s \in Server : \A n \in DOMAIN tq[s] : tq[s][n].doc # d

HasCopy(db, s, doc, d) == doc \in db[s] /\ doc.name = d

\* The same as a relation: c is the content of d.
IsContent(tq, db, d, c) ==
    \/ \E s \in Server, n \in Nat : IsLastTask(tq, s, n, d) /\ c = tq[s][n].content
    \/ NoneQueued(tq, d) /\ \E s \in Server, doc \in Document : HasCopy(db, s, doc, d) /\ doc.content = c
    \/ /\ NoneQueued(tq, d)
       /\ \A s \in Server, doc \in Document : ~ HasCopy(db, s, doc, d)
       /\ c = NoContent

QueuedOnce(tq) ==
    \A s, t \in Server : \A m \in DOMAIN tq[s], n \in DOMAIN tq[t] :
        tq[s][m].doc = tq[t][n].doc => s = t

NamedOnce(db) ==
    \A s, t \in Server : \A a \in db[s], b \in db[t] : a.name = b.name => s = t /\ a = b

LEMMA ContentDefinition ==
    \A d : /\ ContentOf(d) = ContentIn(taskQueue, localDatabase, d)
           /\ ContentOf(d)' = ContentIn(taskQueue', localDatabase', d)
BY DEF ContentOf, ContentIn, Pending, Copies, LastTask, TasksOf, Stored

\* If queues and copies are unique, so is the content.
LEMMA ContentDetermined ==
    ASSUME NEW tq \in [Server -> Seq(Task)], NEW db \in [Server -> SUBSET Document],
           QueuedOnce(tq), NamedOnce(db), NEW d, NEW c, IsContent(tq, db, d, c)
    PROVE  ContentIn(tq, db, d) = c
<1> DEFINE tasks(s) == {n \in DOMAIN tq[s] : tq[s][n].doc = d}
           pending == {s \in Server : tasks(s) # {}}
           copies == UNION {{doc \in db[s] : doc.name = d} : s \in Server}
           s0 == CHOOSE s \in pending : TRUE
           last == CHOOSE n \in tasks(s0) : \A m \in tasks(s0) : m <= n
           copy == CHOOSE doc \in copies : TRUE
<1>0. ContentIn(tq, db, d) = IF pending # {} THEN tq[s0][last].content
                             ELSE IF copies # {} THEN copy.content ELSE NoContent
  BY DEF ContentIn
<1>1. CASE \E s \in Server, n \in Nat : IsLastTask(tq, s, n, d) /\ c = tq[s][n].content
  <2>1. PICK s \in Server, n \in Nat : IsLastTask(tq, s, n, d) /\ c = tq[s][n].content
    BY <1>1
  <2>2. n \in tasks(s) /\ s \in pending
    BY <2>1 DEF IsLastTask
  <2>3. s0 \in pending
    BY <2>2
  <2>4. s0 = s
    <3>1. s0 \in Server /\ \E m \in DOMAIN tq[s0] : tq[s0][m].doc = d
      BY <2>3
    <3> HIDE DEF s0
    <3> QED
      BY <2>1, <3>1 DEF QueuedOnce, IsLastTask
  <2>5. n \in tasks(s0) /\ \A m \in tasks(s0) : m <= n
    BY <2>1, <2>2, <2>4 DEF IsLastTask
  <2>6. last \in tasks(s0) /\ \A m \in tasks(s0) : m <= last
    BY <2>5
  <2>7. tasks(s0) \subseteq Nat
    <3>1. DOMAIN tq[s] = 1 .. Len(tq[s])
      BY LenProperties
    <3>2. DOMAIN tq[s] \subseteq Nat
      BY <3>1
    <3> HIDE DEF s0
    <3> QED
      BY <2>4, <3>2
  <2>8. last = n
    <3> HIDE DEF last, tasks, s0
    <3> QED
      BY <2>5, <2>6, <2>7
  <2> HIDE DEF last, s0, tasks, copies
  <2> QED
    BY <1>0, <2>1, <2>2, <2>4, <2>8
<1>2. CASE NoneQueued(tq, d) /\ \E s \in Server, doc \in Document : HasCopy(db, s, doc, d) /\ doc.content = c
  <2>1. PICK s \in Server, doc \in Document : HasCopy(db, s, doc, d) /\ doc.content = c
    BY <1>2
  <2>2. pending = {}
    BY <1>2 DEF NoneQueued
  <2>3. doc \in copies
    BY <2>1 DEF HasCopy
  <2>4. copy \in copies
    BY <2>3
  <2>5. copy = doc
    <3>1. PICK t \in Server : copy \in db[t] /\ copy.name = d
      BY <2>4
    <3> HIDE DEF copy
    <3> QED
      BY <2>1, <3>1 DEF NamedOnce, HasCopy
  <2> HIDE DEF pending, copies, copy
  <2> QED
    BY <1>0, <2>1, <2>2, <2>3, <2>5
<1>3. CASE /\ NoneQueued(tq, d)
           /\ \A s \in Server, doc \in Document : ~ HasCopy(db, s, doc, d)
           /\ c = NoContent
  <2>1. pending = {} /\ copies = {}
    BY <1>3 DEF NoneQueued, HasCopy
  <2> HIDE DEF pending, copies
  <2> QED
    BY <1>0, <1>3, <2>1
<1> QED
  BY <1>1, <1>2, <1>3 DEF IsContent

\* A set of positions of a sequence that is not empty has a last one.
LEMMA LastPosition ==
    ASSUME NEW len \in Nat, NEW T \in SUBSET (1 .. len), T # {}
    PROVE  \E n \in T : \A m \in T : m <= n
<1> DEFINE U == {len - n : n \in T}
           R == {ss \in Nat \X Nat : ss[1] < ss[2]}
<1>1. U \subseteq Nat /\ U # {}
  OBVIOUS
<1>2. IsWellFoundedOn(R, Nat)
  BY NatLessThanWellFounded DEF OpToRel
<1> HIDE DEF R
<1>3. PICK x \in U : \A y \in U : ~ (<<y, x>> \in R)
  BY <1>1, <1>2, WFMin
<1>4. \A y \in U : ~ (y < x)
  BY <1>1, <1>3 DEF R
<1>5. PICK n \in T : x = len - n
  OBVIOUS
<1>6. ASSUME NEW m \in T
      PROVE  m <= n
  <2>1. len - m \in U /\ m \in Nat /\ n \in Nat
    OBVIOUS
  <2>2. ~ (len - m < len - n)
    BY <1>4, <1>5, <2>1
  <2> QED
    BY <2>1, <2>2
<1> QED
  BY <1>6

LEMMA ContentExists ==
    ASSUME NEW tq \in [Server -> Seq(Task)], NEW db, NEW d
    PROVE  \E c : IsContent(tq, db, d, c)
<1>1. CASE NoneQueued(tq, d)
  BY <1>1 DEF IsContent
<1>2. CASE ~ NoneQueued(tq, d)
  <2>1. PICK s \in Server : \E n \in DOMAIN tq[s] : tq[s][n].doc = d
    BY <1>2 DEF NoneQueued
  <2> DEFINE T == {n \in DOMAIN tq[s] : tq[s][n].doc = d}
  <2>2. Len(tq[s]) \in Nat /\ DOMAIN tq[s] = 1 .. Len(tq[s])
    BY LenProperties
  <2>3. T # {} /\ T \in SUBSET (1 .. Len(tq[s]))
    BY <2>1, <2>2
  <2>4. PICK n \in T : \A m \in T : m <= n
    <3> HIDE DEF T
    <3> QED
      BY <2>2, <2>3, LastPosition
  <2>5. n \in Nat /\ IsLastTask(tq, s, n, d)
    BY <2>2, <2>4 DEF IsLastTask
  <2> QED
    BY <2>5 DEF IsContent
<1> QED
  BY <1>1, <1>2

-----------------------------------------------------------------------------
\* At every step all the EDITs queued for a document wait on one server: also a
\* server that leaves is still next to what it has queued.
LEMMA TasksTogether ==
    ASSUME TypeOK, Filing
    PROVE  QueuedOnce(taskQueue)
<1>1. ServedRing \in SUBSET Point
  BY ServedRingType DEF Filing, RemoveInv
<1>2. ASSUME NEW s \in Server, NEW n \in DOMAIN taskQueue[s]
      PROVE  \E i \in Replica :
                IsNextReplica(ServedRing, DocHash[taskQueue[s][n].doc], [server |-> s, replica |-> i])
  <2>1. taskQueue[s] # <<>>
    BY <1>2, EmptySeq
  <2>2. CASE s \in live
    BY <2>2 DEF Filing, LiveFiled, TasksFiled
  <2>3. CASE s \notin live
    <3>1. s \in InTransit
      BY <2>1, <2>3 DEF Filing, RestEmpty
    <3>2. job.op = "remove" /\ job.target = s
      BY <2>1, <3>1 DEF InTransit, Filing, AddInv
    <3>3. Draining /\ ~ NoTasksLeft
      BY <2>1, <3>2 DEF Draining, NoTasksLeft
    <3> QED
      BY <3>2, <3>3, TargetFiled DEF TasksFiled
  <2> QED
    BY <2>2, <2>3
<1>3. ASSUME NEW s \in Server, NEW t \in Server, NEW m \in DOMAIN taskQueue[s],
             NEW n \in DOMAIN taskQueue[t], taskQueue[s][m].doc = taskQueue[t][n].doc
      PROVE  s = t
  <2> DEFINE h == DocHash[taskQueue[s][m].doc]
  <2>1. PICK i \in Replica : IsNextReplica(ServedRing, h, [server |-> s, replica |-> i])
    BY <1>2
  <2>2. PICK j \in Replica : IsNextReplica(ServedRing, h, [server |-> t, replica |-> j])
    BY <1>2, <1>3
  <2>3. h \in 0 .. HashMax
    BY TaskFacts
  <2> HIDE DEF h
  <2>4. [server |-> s, replica |-> i] = [server |-> t, replica |-> j]
    BY <1>1, <2>1, <2>2, <2>3, HashesDistinct, NextUnique
  <2> QED
    BY <2>4
<1> QED
  BY <1>3 DEF QueuedOnce

\* What is unique in a state of the database, so that ContentOf is determined.
Unique == QueuedOnce(taskQueue) /\ NamedOnce(localDatabase)

LEMMA UniqueInvariant == IInv /\ job # Crashed => TypeOK /\ Unique
BY TasksTogether DEF IInv, Unique, StoredOnce, NamedOnce

\* Every document contains what it did.
SameContents == \A d \in Doc : ContentOf(d)' = ContentOf(d)

LEMMA SameIfContentKept ==
    ASSUME TypeOK, TypeOK', Unique, Unique',
           \A d \in Doc : \A c :
                IsContent(taskQueue, localDatabase, d, c) => IsContent(taskQueue', localDatabase', d, c)
    PROVE  SameContents
<1> SUFFICES ASSUME NEW d \in Doc
             PROVE  ContentOf(d)' = ContentOf(d)
  BY DEF SameContents
<1>1. PICK c : IsContent(taskQueue, localDatabase, d, c)
  BY ContentExists DEF TypeOK
<1>2. ContentIn(taskQueue, localDatabase, d) = c
  BY <1>1, ContentDetermined DEF TypeOK, Unique
<1>3. ContentIn(taskQueue', localDatabase', d) = c
  BY <1>1, ContentDetermined DEF TypeOK, Unique
<1>4. ContentOf(d) = ContentIn(taskQueue, localDatabase, d)
  BY ContentDefinition
<1>5. ContentOf(d)' = ContentIn(taskQueue', localDatabase', d)
  BY ContentDefinition
<1> QED
  BY <1>2, <1>3, <1>4, <1>5

LEMMA SameIfUnchanged ==
    ASSUME UNCHANGED <<taskQueue, localDatabase>>
    PROVE  SameContents
<1> SUFFICES ASSUME NEW d \in Doc
             PROVE  ContentOf(d)' = ContentOf(d)
  BY DEF SameContents
<1>1. ContentOf(d) = ContentIn(taskQueue, localDatabase, d)
  BY ContentDefinition
<1>2. ContentOf(d)' = ContentIn(taskQueue', localDatabase', d)
  BY ContentDefinition
<1> QED
  BY <1>1, <1>2

\* Documents of one set of databases are all in another, on whatever server and
\* under whatever label.
Carried(from, to) ==
    \A s \in Server : \A a \in from[s] :
        \E t \in Server : \E b \in to[t] : b.name = a.name /\ b.content = a.content

LEMMA SameIfCarried ==
    ASSUME TypeOK, TypeOK', Unique, Unique', UNCHANGED taskQueue,
           Carried(localDatabase, localDatabase'), Carried(localDatabase', localDatabase)
    PROVE  SameContents
<1>1. \A s \in Server : localDatabase[s] \subseteq Document /\ localDatabase'[s] \subseteq Document
  BY DEF TypeOK
<1>2. ASSUME NEW d \in Doc, NEW c, IsContent(taskQueue, localDatabase, d, c)
      PROVE  IsContent(taskQueue, localDatabase', d, c)
  <2>1. CASE \E s \in Server, n \in Nat : IsLastTask(taskQueue, s, n, d) /\ c = taskQueue[s][n].content
    BY <2>1 DEF IsContent
  <2>2. CASE /\ NoneQueued(taskQueue, d)
             /\ \E s \in Server, doc \in Document : HasCopy(localDatabase, s, doc, d) /\ doc.content = c
    <3>1. PICK s \in Server, doc \in Document : HasCopy(localDatabase, s, doc, d) /\ doc.content = c
      BY <2>2
    <3>2. PICK t \in Server : \E b \in localDatabase'[t] : b.name = d /\ b.content = c
      BY <3>1 DEF Carried, HasCopy
    <3>3. PICK b \in Document : HasCopy(localDatabase', t, b, d) /\ b.content = c
      BY <1>1, <3>2 DEF HasCopy
    <3> QED
      BY <2>2, <3>3 DEF IsContent
  <2>3. CASE /\ NoneQueued(taskQueue, d)
             /\ \A s \in Server, doc \in Document : ~ HasCopy(localDatabase, s, doc, d)
             /\ c = NoContent
    <3>1. ASSUME NEW s \in Server, NEW doc \in Document, HasCopy(localDatabase', s, doc, d)
          PROVE  FALSE
      <4>1. PICK t \in Server : \E b \in localDatabase[t] : b.name = d
        BY <3>1 DEF Carried, HasCopy
      <4>2. PICK b \in Document : HasCopy(localDatabase, t, b, d)
        BY <1>1, <4>1 DEF HasCopy
      <4> QED
        BY <2>3, <4>2
    <3> QED
      BY <2>3, <3>1 DEF IsContent
  <2> QED
    BY <1>2, <2>1, <2>2, <2>3 DEF IsContent
<1> QED
  BY <1>2, SameIfContentKept

-----------------------------------------------------------------------------
\* A queued EDIT is the last one of its document; a dropped one changes nothing.
LEMMA EditContents ==
    ASSUME TypeOK, TypeOK', Unique, Unique', NEW d \in Doc, NEW c \in Content, NEW s \in Server,
           QueueEdit(s, d, c)
    PROVE  \/ SameContents /\ ~ (Len(taskQueue[s]) < TaskQueueSize)
           \/ /\ ContentOf(d)' = c
              /\ \A e \in Doc \ {d} : ContentOf(e)' = ContentOf(e)
<1>1. taskQueue[s] \in Seq(Task) /\ Len(taskQueue[s]) \in Nat /\ TaskQueueSize \in Nat
      /\ DOMAIN taskQueue[s] = 1 .. Len(taskQueue[s])
  BY ServerConstants, LenProperties DEF TypeOK
<1>2. localDatabase' = localDatabase
  BY DEF QueueEdit
<1>3. CASE ~ (Len(taskQueue[s]) < TaskQueueSize)
  <2>1. taskQueue' = taskQueue
    BY <1>3 DEF QueueEdit, PushTask
  <2> QED
    BY <1>2, <1>3, <2>1, SameIfUnchanged
<1>4. CASE Len(taskQueue[s]) < TaskQueueSize
  <2> DEFINE task == [doc |-> d, content |-> c]
             len == Len(taskQueue[s])
             after == Append(taskQueue[s], task)
  <2>1. taskQueue' = [taskQueue EXCEPT ![s] = after]
    BY <1>4 DEF QueueEdit, PushTask
  <2>2. task \in Task /\ task.doc = d /\ task.content = c
    BY DEF Task
  <2> HIDE DEF task
  <2>3. /\ after \in Seq(Task) /\ Len(after) = len + 1
        /\ \A n \in 1 .. len : after[n] = taskQueue[s][n]
        /\ after[len + 1] = task
    BY <1>1, <2>2, AppendProperties
  <2>4. DOMAIN after = 1 .. len + 1
    BY <2>3, LenProperties
  <2> HIDE DEF after, len
  <2>5. /\ taskQueue'[s] = after
        /\ \A t \in Server : t # s => taskQueue'[t] = taskQueue[t]
    BY <2>1 DEF TypeOK
  <2>6. len \in Nat /\ DOMAIN taskQueue[s] = 1 .. len
    BY <1>1 DEF len
  <2>7. ContentOf(d)' = c
    <3>1. IsLastTask(taskQueue', s, len + 1, d) /\ taskQueue'[s][len + 1].content = c
      BY <2>2, <2>3, <2>4, <2>5, <2>6 DEF IsLastTask
    <3>2. IsContent(taskQueue', localDatabase', d, c)
      BY <2>6, <3>1 DEF IsContent
    <3>3. ContentIn(taskQueue', localDatabase', d) = c
      BY <3>2, ContentDetermined DEF TypeOK, Unique
    <3> QED
      BY <3>3, ContentDefinition
  <2>8. ASSUME NEW e \in Doc \ {d}
        PROVE  ContentOf(e)' = ContentOf(e)
    <3>1. PICK x : IsContent(taskQueue, localDatabase, e, x)
      BY ContentExists DEF TypeOK
    <3>2. IsContent(taskQueue', localDatabase', e, x)
      <4>1. ASSUME NEW t \in Server, NEW n \in Nat, IsLastTask(taskQueue, t, n, e)
            PROVE  IsLastTask(taskQueue', t, n, e) /\ taskQueue'[t][n] = taskQueue[t][n]
        <5>1. CASE t = s
          BY <2>2, <2>3, <2>4, <2>5, <2>6, <4>1, <5>1 DEF IsLastTask
        <5>2. CASE t # s
          BY <2>5, <4>1, <5>2 DEF IsLastTask
        <5> QED
          BY <5>1, <5>2
      <4>2. ASSUME NoneQueued(taskQueue, e)
            PROVE  NoneQueued(taskQueue', e)
        <5>1. ASSUME NEW n \in DOMAIN taskQueue'[s]
              PROVE  taskQueue'[s][n].doc # e
          <6>1. n \in 1 .. len \/ n = len + 1
            BY <2>4, <2>5, <2>6
          <6> QED
            BY <2>2, <2>3, <2>5, <2>6, <4>2, <6>1 DEF NoneQueued
        <5> QED
          BY <2>5, <4>2, <5>1 DEF NoneQueued
      <4> QED
        BY <1>2, <3>1, <4>1, <4>2 DEF IsContent
    <3>3. ContentIn(taskQueue', localDatabase', e) = x /\ ContentIn(taskQueue, localDatabase, e) = x
      BY <3>1, <3>2, ContentDetermined DEF TypeOK, Unique
    <3>4. ContentOf(e) = ContentIn(taskQueue, localDatabase, e)
      BY ContentDefinition
    <3>5. ContentOf(e)' = ContentIn(taskQueue', localDatabase', e)
      BY ContentDefinition
    <3> QED
      BY <3>3, <3>4, <3>5
  <2> QED
    BY <2>7, <2>8
<1> QED
  BY <1>3, <1>4

\* Executing an EDIT moves a content from the queue to the local database, where
\* it counts only if it was the last one queued for its document.
LEMMA DrainContents ==
    ASSUME IInv, IInv', Unique, Unique', DrainTask
    PROVE  SameContents
<1> DEFINE t == job.target
           q == taskQueue[t]
<1>1. /\ TypeOK /\ StoredOnce /\ CacheWellFormed /\ Filing /\ TypeOK'
      /\ Draining /\ ~ NoTasksLeft /\ t \in Server /\ ExecuteTask(t)
  BY TargetType DEF IInv, DrainTask, Draining, Crashed, TypeOK, ExecuteTask, NoTasksLeft
<1>2. PICK d \in Doc, c \in Content :
        Head(q) = [doc |-> d, content |-> c] /\ EditDocument(t, d, c)
  BY <1>1, ExecutedTask
<1>3. PICK e \in Document :
        /\ e.name = d /\ e.content = c
        /\ localDatabase' = [localDatabase EXCEPT ![t] = {b \in localDatabase[t] : b.name # d} \union {e}]
  BY <1>1, <1>2, EditedDatabase
<1>4. \A s \in Server, b \in Document :
        b \in localDatabase'[s] <=> \/ b \in localDatabase[s] /\ (s = t => b.name # d)
                                    \/ s = t /\ b = e
  BY <1>1, <1>3 DEF TypeOK
<1>5. taskQueue' = [taskQueue EXCEPT ![t] = Tail(q)]
  BY <1>1 DEF ExecuteTask
<1> DEFINE rest == Tail(q)
<1>6. /\ q \in Seq(Task) /\ Len(q) \in Nat /\ DOMAIN q = 1 .. Len(q) /\ Len(q) > 0
      /\ q[1].doc = d /\ q[1].content = c
  <2>1. q \in Seq(Task) /\ q # <<>>
    BY <1>1 DEF TypeOK, NoTasksLeft
  <2> HIDE DEF q
  <2>2. Head(q) = q[1]
    BY <2>1, HeadTailProperties
  <2> QED
    BY <1>2, <2>1, <2>2, LenProperties, EmptySeq
<1>7. /\ rest \in Seq(Task) /\ Len(rest) = Len(q) - 1
      /\ \A n \in 1 .. Len(rest) : rest[n] = q[n + 1]
  <2>1. q # <<>>
    BY <1>1 DEF NoTasksLeft
  <2> HIDE DEF q
  <2> QED
    BY <1>6, <2>1, HeadTailProperties
<1> HIDE DEF rest
<1>8. DOMAIN rest = 1 .. Len(q) - 1
  BY <1>7, LenProperties
<1>9. taskQueue'[t] = rest /\ \A s \in Server : s # t => taskQueue'[s] = taskQueue[s]
  BY <1>1, <1>5 DEF TypeOK, rest
<1>10. taskQueue[t] = q
  OBVIOUS
<1> HIDE DEF q, t
<1>11. ASSUME NEW x \in Doc, NEW y, IsContent(taskQueue, localDatabase, x, y)
       PROVE  IsContent(taskQueue', localDatabase', x, y)
  <2>1. ASSUME NEW s \in Server, NEW n \in Nat, IsLastTask(taskQueue, s, n, x), y = taskQueue[s][n].content
        PROVE  IsContent(taskQueue', localDatabase', x, y)
    <3>1. CASE s # t
      <4>1. IsLastTask(taskQueue', s, n, x) /\ y = taskQueue'[s][n].content
        BY <1>9, <2>1, <3>1 DEF IsLastTask
      <4> QED
        BY <4>1 DEF IsContent
    <3>2. CASE s = t /\ n = 1
      <4>1. x = d /\ y = c
        BY <1>6, <1>10, <2>1, <3>2 DEF IsLastTask
      <4>2. ASSUME NEW r \in Server, NEW m \in DOMAIN taskQueue'[r], taskQueue'[r][m].doc = x
            PROVE  FALSE
        <5>1. CASE r = t
          <6>1. m \in 1 .. Len(q) - 1 /\ q[m + 1].doc = x
            BY <1>6, <1>7, <1>8, <1>9, <4>2, <5>1
          <6>2. m + 1 \in DOMAIN q /\ ~ (m + 1 <= 1)
            BY <1>6, <6>1
          <6> QED
            BY <1>10, <2>1, <3>2, <6>1, <6>2 DEF IsLastTask
        <5>2. CASE r # t
          <6>1. m \in DOMAIN taskQueue[r] /\ taskQueue[r][m].doc = x
            BY <1>9, <4>2, <5>2
          <6>2. n \in DOMAIN taskQueue[t] /\ taskQueue[t][n].doc = x
            BY <2>1, <3>2 DEF IsLastTask
          <6> QED
            BY <1>1, <5>2, <6>1, <6>2 DEF Unique, QueuedOnce
        <5> QED
          BY <5>1, <5>2
      <4>3. HasCopy(localDatabase', t, e, x) /\ e.content = y
        BY <1>1, <1>3, <1>4, <4>1 DEF HasCopy
      <4> QED
        BY <1>1, <4>2, <4>3 DEF IsContent, NoneQueued
    <3>3. CASE s = t /\ n # 1
      <4>1. n \in 2 .. Len(q) /\ q[n].doc = x /\ q[n].content = y
            /\ \A m \in DOMAIN q : q[m].doc = x => m <= n
        BY <1>6, <1>10, <2>1, <3>3 DEF IsLastTask
      <4>2. n - 1 \in 1 .. Len(q) - 1 /\ rest[n - 1] = q[n]
        BY <1>6, <1>7, <4>1
      <4>3. ASSUME NEW m \in DOMAIN rest, rest[m].doc = x
            PROVE  m <= n - 1
        <5>1. m + 1 \in DOMAIN q /\ q[m + 1].doc = x
          BY <1>6, <1>7, <1>8, <4>3
        <5>2. m + 1 <= n
          BY <4>1, <5>1
        <5>3. m \in Nat
          BY <1>6, <1>8
        <5> QED
          BY <5>2, <5>3
      <4>4. IsLastTask(taskQueue', t, n - 1, x) /\ taskQueue'[t][n - 1].content = y
        BY <1>8, <1>9, <4>1, <4>2, <4>3 DEF IsLastTask
      <4>5. n - 1 \in Nat
        BY <4>1
      <4> QED
        BY <1>1, <4>4, <4>5 DEF IsContent
    <3> QED
      BY <3>1, <3>2, <3>3
  <2>2. ASSUME NoneQueued(taskQueue, x)
        PROVE  x # d /\ NoneQueued(taskQueue', x)
    <3>1. 1 \in DOMAIN taskQueue[t] /\ taskQueue[t][1].doc = d
      BY <1>6, <1>10
    <3>2. x # d
      BY <1>1, <2>2, <3>1 DEF NoneQueued
    <3>3. ASSUME NEW m \in DOMAIN taskQueue'[t]
          PROVE  taskQueue'[t][m].doc # x
      <4>1. m + 1 \in DOMAIN taskQueue[t] /\ taskQueue'[t][m] = taskQueue[t][m + 1]
        BY <1>6, <1>7, <1>8, <1>9, <1>10
      <4> QED
        BY <1>1, <2>2, <4>1 DEF NoneQueued
    <3> QED
      BY <1>9, <2>2, <3>2, <3>3 DEF NoneQueued
  <2>3. ASSUME x # d, NEW s \in Server, NEW b \in Document
        PROVE  HasCopy(localDatabase, s, b, x) <=> HasCopy(localDatabase', s, b, x)
    BY <1>3, <1>4, <2>3 DEF HasCopy
  <2> QED
    BY <1>11, <2>1, <2>2, <2>3 DEF IsContent
<1> QED
  BY <1>1, <1>11, SameIfContentKept

\* Moving a document to a newcomer, handing on those of a leaving server, and
\* filing them again change neither name nor content.
LEMMA MoveContents ==
    ASSUME IInv, IInv', Unique, Unique',
           \/ \E doc \in Document : MoveDocument(doc) \/ DistributeDocument(doc)
           \/ FinishAdd
    PROVE  SameContents
<1>0. TypeOK /\ TypeOK' /\ job \in Job
  BY DEF IInv, TypeOK
<1>1. ASSUME NEW s \in Server, NEW t \in Server, NEW doc \in localDatabase[s], NEW i,
             localDatabase' = [localDatabase EXCEPT
                ![s] = @ \ {doc}, ![t] = @ \union {[doc EXCEPT !.replica = i]}],
             s # t, UNCHANGED taskQueue
      PROVE  SameContents
  <2>1. PICK e : e = [doc EXCEPT !.replica = i]
    OBVIOUS
  <2>2. e.name = doc.name /\ e.content = doc.content
    BY <1>0, <2>1, DocumentFacts DEF Document
  <2>3. /\ localDatabase'[s] = localDatabase[s] \ {doc}
        /\ localDatabase'[t] = localDatabase[t] \union {e}
        /\ \A r \in Server : r # s /\ r # t => localDatabase'[r] = localDatabase[r]
    BY <1>0, <1>1, <2>1 DEF TypeOK
  <2>4. ASSUME NEW r \in Server, NEW a \in localDatabase[r]
        PROVE  \E u \in Server : \E b \in localDatabase'[u] : b.name = a.name /\ b.content = a.content
    <3>1. CASE r = s /\ a = doc
      BY <2>2, <2>3, <3>1
    <3>2. CASE ~ (r = s /\ a = doc)
      <4>1. a \in localDatabase'[r]
        BY <1>1, <2>3, <3>2
      <4> QED
        BY <4>1
    <3> QED
      BY <3>1, <3>2
  <2>5. ASSUME NEW r \in Server, NEW a \in localDatabase'[r]
        PROVE  \E u \in Server : \E b \in localDatabase[u] : b.name = a.name /\ b.content = a.content
    <3>1. CASE r = t /\ a = e
      BY <2>2, <3>1
    <3>2. CASE ~ (r = t /\ a = e)
      <4>1. a \in localDatabase[r]
        BY <2>3, <3>2
      <4> QED
        BY <4>1
    <3> QED
      BY <3>1, <3>2
  <2> QED
    BY <1>0, <1>1, <2>4, <2>5, SameIfCarried DEF Carried
<1>2. ASSUME NEW doc \in Document, MoveDocument(doc)
      PROVE  SameContents
  <2>1. /\ job.target \in Server /\ job.newcomer \in Server /\ job.target # job.newcomer
        /\ doc \in localDatabase[job.target]
    BY <1>0, <1>2, JobShape DEF MoveDocument, IInv, Filing, AddInv, Crashed
  <2> QED
    BY <1>1, <1>2, <2>1 DEF MoveDocument
<1>3. ASSUME NEW doc \in Document, DistributeDocument(doc)
      PROVE  SameContents
  <2>1. PICK p \in Points(live) :
            localDatabase' = [localDatabase EXCEPT
                ![job.target] = @ \ {doc},
                ![p.server] = @ \union {[doc EXCEPT !.replica = p.replica]}]
    BY <1>3 DEF DistributeDocument
  <2>2. /\ job.target \in Server /\ p.server \in Server /\ job.target # p.server
        /\ doc \in localDatabase[job.target] /\ UNCHANGED taskQueue
    BY <1>0, <1>3, JobShape
       DEF DistributeDocument, IInv, TypeOK, Filing, RemoveInv, Crashed, Points
  <2> QED
    BY <1>1, <2>1, <2>2
<1>4. ASSUME FinishAdd
      PROVE  SameContents
  <2>1. job.newcomer \in Server /\ UNCHANGED taskQueue
    BY <1>0, <1>4, JobShape DEF FinishAdd, MovesDone
  <2>2. PICK label \in [localDatabase[job.newcomer] -> Replica] :
            localDatabase' = [localDatabase EXCEPT
                ![job.newcomer] = {[doc EXCEPT !.replica = label[doc]] : doc \in @}]
    BY <1>4 DEF FinishAdd
  <2>3. /\ localDatabase'[job.newcomer] =
            {[doc EXCEPT !.replica = label[doc]] : doc \in localDatabase[job.newcomer]}
        /\ \A s \in Server : s # job.newcomer => localDatabase'[s] = localDatabase[s]
    BY <1>0, <2>1, <2>2 DEF TypeOK
  <2>4. ASSUME NEW doc \in localDatabase[job.newcomer]
        PROVE  /\ [doc EXCEPT !.replica = label[doc]].name = doc.name
               /\ [doc EXCEPT !.replica = label[doc]].content = doc.content
    BY <1>0, <2>1, DocumentFacts DEF Document
  <2>5. ASSUME NEW r \in Server, NEW a \in localDatabase[r]
        PROVE  \E u \in Server : \E b \in localDatabase'[u] : b.name = a.name /\ b.content = a.content
    <3>1. CASE r = job.newcomer
      <4>1. PICK b : b = [a EXCEPT !.replica = label[a]]
        OBVIOUS
      <4>2. b \in localDatabase'[r] /\ b.name = a.name /\ b.content = a.content
        BY <2>3, <2>4, <3>1, <4>1
      <4> QED
        BY <4>2
    <3>2. CASE r # job.newcomer
      BY <2>3, <3>2
    <3> QED
      BY <3>1, <3>2
  <2>6. ASSUME NEW r \in Server, NEW a \in localDatabase'[r]
        PROVE  \E u \in Server : \E b \in localDatabase[u] : b.name = a.name /\ b.content = a.content
    <3>1. CASE r = job.newcomer
      <4>1. PICK doc \in localDatabase[job.newcomer] : a = [doc EXCEPT !.replica = label[doc]]
        BY <2>3, <3>1
      <4>2. a.name = doc.name /\ a.content = doc.content
        BY <2>4, <4>1
      <4> QED
        BY <2>1, <4>2
    <3>2. CASE r # job.newcomer
      BY <2>3, <3>2
    <3> QED
      BY <3>1, <3>2
  <2> QED
    BY <1>0, <2>1, <2>5, <2>6, SameIfCarried DEF Carried
<1> QED
  BY <1>2, <1>3, <1>4

\* The answer of a GET, from the cache or from the list, is what the document
\* contains: when its server has drained its queue no other server has an EDIT,
\* or a copy, of it.
LEMMA GetAnswers ==
    ASSUME IInv, Unique, FinishGet
    PROVE  reply' = Got(job.doc, ContentOf(job.doc)) /\ job.doc \in Doc /\ job.target \in live
<1> DEFINE d == job.doc
           t == job.target
           h == DocHash[d]
<1>1. /\ TypeOK /\ Filing /\ CacheCoherent /\ job.op = "get"
      /\ taskQueue[t] = <<>>
      /\ GetFromCache(t, d) \/ GetFromDatabase(t, d) \/ GetNothing(t, d)
  BY DEF FinishGet, GetDocument, IInv, Crashed
<1>2. d \in Doc /\ t \in Server /\ t \in live
  BY <1>1, JobShape DEF TypeOK, Filing, GetInv
<1>3. PICK i \in Replica : IsNextReplica(Points(live), h, [server |-> t, replica |-> i])
  BY <1>1 DEF Filing, GetInv
<1>4. Points(live) \in SUBSET Point /\ h \in 0 .. HashMax
  BY <1>1, <1>2, RingConstants DEF TypeOK, Points, Point
<1> HIDE DEF d, t, h
<1>5. LiveOnlyFiled
  BY <1>1, FiledBefore
<1>6. NoneQueued(taskQueue, d)
  <2>1. ASSUME NEW s \in Server, NEW n \in DOMAIN taskQueue[s], taskQueue[s][n].doc = d
        PROVE  FALSE
    <3>1. taskQueue[s] # <<>>
      BY <2>1, EmptySeq
    <3>2. s \in live
      BY <1>5, <3>1 DEF LiveOnlyFiled
    <3>3. PICK j \in Replica : IsNextReplica(Points(live), h, [server |-> s, replica |-> j])
      BY <1>5, <2>1, <3>2 DEF LiveOnlyFiled, TasksFiled, h
    <3>4. [server |-> t, replica |-> i] = [server |-> s, replica |-> j]
      BY <1>3, <1>4, <3>3, HashesDistinct, NextUnique
    <3> QED
      BY <1>1, <3>1, <3>4
  <2> QED
    BY <2>1 DEF NoneQueued
<1>7. ASSUME NEW s \in Server, NEW doc \in Document, HasCopy(localDatabase, s, doc, d)
      PROVE  doc \in Stored(t, d)
  <2>1. s \in live
    BY <1>5, <1>7 DEF LiveOnlyFiled, HasCopy
  <2>2. IsNextReplica(Points(live), h, Home(s, doc))
    BY <1>5, <1>7, <2>1 DEF LiveOnlyFiled, DocumentsFiled, HasCopy, h
  <2>3. [server |-> t, replica |-> i] = Home(s, doc)
    BY <1>3, <1>4, <2>2, HashesDistinct, NextUnique
  <2>4. s = t
    BY <2>3 DEF Home
  <2> QED
    BY <1>7, <2>4 DEF HasCopy, Stored
<1>8. ASSUME NEW doc \in Stored(t, d)
      PROVE  IsContent(taskQueue, localDatabase, d, doc.content)
  <2>1. doc \in Document /\ HasCopy(localDatabase, t, doc, d)
    BY <1>1, <1>2 DEF Stored, HasCopy, TypeOK
  <2> QED
    BY <1>2, <1>6, <2>1 DEF IsContent
<1>9. \E c : reply' = Got(d, c) /\ IsContent(taskQueue, localDatabase, d, c)
  <2>1. CASE GetFromCache(t, d)
    <3>1. IsCached(cache[t], d) /\ reply' = Got(d, CachedValue(cache[t], d))
      BY <2>1 DEF GetFromCache
    <3>2. PICK n \in DOMAIN cache[t] : cache[t][n].key = d /\ CachedValue(cache[t], d) = cache[t][n].val
      BY <3>1, KeyIndexFacts DEF CachedValue
    <3>3. PICK doc \in Stored(t, d) : doc.content = cache[t][n].val
      BY <1>1, <1>2, <3>2 DEF CacheCoherent
    <3> QED
      BY <1>8, <3>1, <3>2, <3>3
  <2>2. CASE GetFromDatabase(t, d)
    BY <1>8, <2>2 DEF GetFromDatabase
  <2>3. CASE GetNothing(t, d)
    <3>1. Stored(t, d) = {} /\ reply' = Got(d, NoContent)
      BY <2>3 DEF GetNothing
    <3> QED
      BY <1>6, <1>7, <3>1 DEF IsContent
  <2> QED
    BY <1>1, <2>1, <2>2, <2>3
<1>10. reply' = Got(d, ContentOf(d))
  <2>1. PICK c : reply' = Got(d, c) /\ IsContent(taskQueue, localDatabase, d, c)
    BY <1>9
  <2>2. ContentIn(taskQueue, localDatabase, d) = c
    BY <1>1, <2>1, ContentDetermined DEF TypeOK, Unique
  <2> QED
    BY <2>1, <2>2, ContentDefinition
<1> QED
  BY <1>2, <1>10 DEF d, t

\* Without queues and local databases nothing has a content.
LEMMA NothingLeft ==
    ASSUME \A s \in Server : taskQueue'[s] = <<>> /\ localDatabase'[s] = {}, TypeOK', Unique'
    PROVE  \A d \in Doc : ContentOf(d)' = NoContent
<1> SUFFICES ASSUME NEW d \in Doc
             PROVE  ContentOf(d)' = NoContent
  OBVIOUS
<1>1. IsContent(taskQueue', localDatabase', d, NoContent)
  <2>1. NoneQueued(taskQueue', d)
    BY EmptySeq DEF NoneQueued
  <2> QED
    BY <2>1 DEF IsContent, HasCopy
<1>2. ContentIn(taskQueue', localDatabase', d) = NoContent
  BY <1>1, ContentDetermined DEF TypeOK, Unique
<1> QED
  BY <1>2, ContentDefinition

\* A server is freed when its documents have gone to others, or with all there is.
LEMMA RemoveContents ==
    ASSUME IInv, IInv', Unique, Unique', FinishRemove
    PROVE  SameContents \/ (live' = {} /\ \A d \in Doc : ContentOf(d)' = NoContent)
<1>1. /\ TypeOK /\ Filing /\ TypeOK' /\ job.op = "remove" /\ NoTasksLeft /\ job.target \in Server
      /\ live' = live
      /\ taskQueue' = [taskQueue EXCEPT ![job.target] = <<>>]
      /\ localDatabase' = [localDatabase EXCEPT ![job.target] = {}]
      /\ live = {} \/ localDatabase[job.target] = {}
  BY JobShape DEF FinishRemove, FreeServer, IInv, TypeOK, Crashed
<1>2. CASE live = {}
  <2>1. \A s \in Server : s # job.target => taskQueue[s] = <<>> /\ localDatabase[s] = {}
    BY <1>1, <1>2 DEF Filing, RestEmpty, InTransit
  <2>2. \A s \in Server : taskQueue'[s] = <<>> /\ localDatabase'[s] = {}
    BY <1>1, <2>1 DEF TypeOK
  <2> QED
    BY <1>1, <1>2, <2>2, NothingLeft
<1>3. CASE localDatabase[job.target] = {}
  <2>1. taskQueue' = taskQueue /\ localDatabase' = localDatabase
    BY <1>1, <1>3 DEF NoTasksLeft, TypeOK
  <2>2. SameContents
    BY <2>1, SameIfUnchanged
  <2> QED
    BY <2>2
<1> QED
  BY <1>1, <1>2, <1>3

-----------------------------------------------------------------------------
\* Each step is one of the store.
LEMMA StepImplements ==
    ASSUME IInv, IInv', job # Crashed => Unique, (job # Crashed => Unique)', [Next]_vars
    PROVE  [KV!KVNext]_(KV!kvVars)
<1> DEFINE mapped == [d \in Doc |-> ContentOf(d)]
           answered == IF reply.kind = "got"
                       THEN [doc |-> reply.doc, content |-> reply.content] ELSE NoAnswer
           isServing == live # {} \/ job.op = "remove"
<1>0. TypeOK /\ TypeOK' /\ (job # Crashed => Unique)
  BY DEF IInv
<1>1. ASSUME UNCHANGED vars
      PROVE  UNCHANGED KV!kvVars
  <2>1. SameContents
    BY <1>1, SameIfUnchanged DEF vars, serverVars
  <2>2. mapped' = mapped
    BY <2>1 DEF SameContents
  <2>3. UNCHANGED <<reply, live, job>>
    BY <1>1 DEF vars, serverVars
  <2> QED
    BY <2>2, <2>3 DEF KV!kvVars
<1>2. ASSUME SameContents, reply'.kind # "got"
      PROVE  KV!Internal
  <2>1. mapped' = mapped
    BY <1>2 DEF SameContents
  <2>2. isServing' \in BOOLEAN
    OBVIOUS
  <2>3. answered' = NoAnswer
    BY <1>2
  <2> QED
    BY <2>1, <2>2, <2>3 DEF KV!Internal
<1>3. ASSUME live' = {}, job'.op # "remove", \A d \in Doc : ContentOf(d)' = NoContent, reply'.kind # "got"
      PROVE  KV!Forget
  <2>1. mapped' = [d \in Doc |-> NoContent]
    BY <1>3
  <2> QED
    BY <1>3, <2>1 DEF KV!Forget, KV!Empty
<1>4. NoReply.kind # "got"
  BY DEF NoReply
<1>5. ASSUME NEW d \in Doc, NEW c \in Content, Edit(d, c)
      PROVE  KV!KVNext
  <2>1. PICK p \in Points(live) : QueueEdit(p.server, d, c)
    BY <1>5 DEF Edit
  <2>2. live' = live /\ job = Idle /\ job' = Idle /\ Unique /\ Unique'
    BY <1>0, <1>5 DEF Edit, Idle, Crashed
  <2>3. p.server \in live /\ p.server \in Server
    BY <1>0 DEF TypeOK, Points
  <2>4. reply'.kind # "got"
    BY <2>1 DEF QueueEdit, Queued
  <2>5. CASE SameContents
    BY <1>2, <2>4, <2>5 DEF KV!KVNext
  <2>6. CASE ContentOf(d)' = c /\ \A e \in Doc \ {d} : ContentOf(e)' = ContentOf(e)
    <3>1. mapped' = [mapped EXCEPT ![d] = c]
      BY <2>6
    <3>2. isServing /\ isServing' /\ answered' = NoAnswer
      BY <2>2, <2>3, <2>4
    <3>3. KV!Put(d, c)
      BY <3>1, <3>2 DEF KV!Put
    <3> QED
      BY <3>3 DEF KV!KVNext
  <2> QED
    BY <1>0, <2>1, <2>2, <2>3, <2>5, <2>6, EditContents
<1>6. ASSUME DrainTask
      PROVE  KV!KVNext
  <2>1. Unique /\ Unique'
    BY <1>0, <1>6 DEF DrainTask, Draining, Crashed
  <2>2. reply'.kind # "got"
    BY <1>6 DEF DrainTask, ExecuteTask, EditDocument, OverrideDocument, CreateDocument,
                Overridden, Created
  <2> QED
    BY <1>2, <1>6, <2>1, <2>2, DrainContents DEF KV!KVNext
<1>7. ASSUME FinishGet
      PROVE  KV!KVNext
  <2>1. Unique
    BY <1>0, <1>7 DEF FinishGet, Crashed
  <2>2. reply' = Got(job.doc, ContentOf(job.doc)) /\ job.doc \in Doc /\ job.target \in live
    BY <1>7, <2>1, GetAnswers
  <2>3. SameContents
    BY <1>7, SameIfUnchanged DEF FinishGet, GetDocument
  <2>4. mapped' = mapped /\ answered' = [doc |-> job.doc, content |-> mapped[job.doc]]
    BY <2>2, <2>3 DEF SameContents, Got
  <2>5. isServing /\ isServing'
    BY <1>7, <2>2 DEF FinishGet
  <2>6. KV!Get(job.doc)
    BY <2>4, <2>5 DEF KV!Get, KV!Answer
  <2> QED
    BY <2>2, <2>6 DEF KV!KVNext
<1>8. ASSUME \/ \E doc \in Document : MoveDocument(doc) \/ DistributeDocument(doc)
             \/ FinishAdd
      PROVE  KV!KVNext
  <2>1. Unique /\ Unique'
    BY <1>0, <1>8 DEF MoveDocument, DistributeDocument, FinishAdd, MovesDone, Idle, Crashed
  <2>2. reply' = NoReply
    BY <1>8 DEF MoveDocument, DistributeDocument, FinishAdd
  <2> QED
    BY <1>2, <1>4, <1>8, <2>1, <2>2, MoveContents DEF KV!KVNext
<1>9. ASSUME FinishRemove
      PROVE  KV!KVNext
  <2>1. Unique /\ Unique' /\ reply' = NoReply /\ job'.op # "remove"
    BY <1>0, <1>9 DEF FinishRemove, FreeServer, Idle, Crashed
  <2>2. SameContents \/ (live' = {} /\ \A d \in Doc : ContentOf(d)' = NoContent)
    BY <1>9, <2>1, RemoveContents
  <2> QED
    BY <1>2, <1>3, <1>4, <2>1, <2>2 DEF KV!KVNext
<1>10. ASSUME Finish
       PROVE  KV!KVNext
  <2>1. Unique' /\ reply' = NoReply /\ job'.op # "remove" /\ live' = {}
    BY <1>0, <1>10 DEF Finish, Finished, Crashed
  <2>2. \A s \in Server : taskQueue'[s] = <<>> /\ localDatabase'[s] = {}
    BY <1>10 DEF Finish
  <2> QED
    BY <1>0, <1>3, <1>4, <2>1, <2>2, NothingLeft DEF KV!KVNext
<1>11. ASSUME \/ \E d \in Doc : BeginGet(d)
              \/ \E x \in Server, size \in CacheSize : BeginAdd(x, size)
              \/ \E x \in Server : BeginRemove(x)
              \/ \E d \in Doc : ForwardToNobody(d)
              \/ NextLabel \/ DivideByZero
       PROVE  KV!KVNext
  <2>1. UNCHANGED <<taskQueue, localDatabase>> /\ reply' = NoReply
    BY <1>11 DEF BeginGet, BeginAdd, InitServer, BeginRemove, ForwardToNobody, NextLabel, DivideByZero
  <2> QED
    BY <1>2, <1>4, <2>1, SameIfUnchanged DEF KV!KVNext
<1> QED
  BY <1>1, <1>5, <1>6, <1>7, <1>8, <1>9, <1>10, <1>11 DEF Next, Request, Progress, Ended

\* ImplementsStore: a GET answers with the content of the last EDIT that was
\* queued for the document, wherever the document has been since, and no step
\* but an EDIT changes what a GET would answer, until the last server leaves.
THEOREM ImplementsStore == Spec => ImplementsKVStore
<1>1. Init => KV!KVInit
  <2> SUFFICES ASSUME Init
               PROVE  KV!KVInit
    OBVIOUS
  <2>1. IInv
    BY InitInvariant
  <2>2. job = Idle /\ live = {} /\ reply = NoReply
        /\ \A s \in Server : taskQueue[s] = <<>> /\ localDatabase[s] = {}
    BY DEF Init
  <2>3. TypeOK /\ Unique
    BY <2>1, <2>2, UniqueInvariant DEF Idle, Crashed
  <2>4. ASSUME NEW d \in Doc
        PROVE  ContentOf(d) = NoContent
    <3>1. NoneQueued(taskQueue, d)
      BY <2>2, EmptySeq DEF NoneQueued
    <3>2. IsContent(taskQueue, localDatabase, d, NoContent)
      BY <2>2, <3>1 DEF IsContent, HasCopy
    <3>3. ContentIn(taskQueue, localDatabase, d) = NoContent
      BY <2>3, <3>2, ContentDetermined DEF TypeOK, Unique
    <3> QED
      BY <3>3, ContentDefinition
  <2> QED
    BY <2>2, <2>4 DEF KV!KVInit, KV!Empty, NoReply, Idle
<1>2. IInv => (job # Crashed => Unique)
  BY UniqueInvariant
<1>3. /\ IInv /\ IInv'
      /\ (job # Crashed => Unique) /\ (job # Crashed => Unique)'
      /\ [Next]_vars
      => [KV!KVNext]_(KV!kvVars)
  BY StepImplements
<1> QED
  BY <1>1, <1>2, <1>3, Invariance, PTL DEF Spec, ImplementsKVStore, KV!KVSpec

-----------------------------------------------------------------------------
QueuesBounded == \A s \in Server : Len(taskQueue[s]) <= TaskQueueSize

\* push_task_queue never lets a queue grow beyond its size.
LEMMA QueuesBoundedStep ==
    ASSUME TypeOK, QueuesBounded, [Next]_vars
    PROVE  QueuesBounded'
<1>1. ASSUME UNCHANGED taskQueue
      PROVE  QueuesBounded'
  BY <1>1 DEF QueuesBounded
<1>2. TaskQueueSize \in Nat /\ \A s \in Server : taskQueue[s] \in Seq(Task) /\ Len(taskQueue[s]) \in Nat
  BY ServerConstants, LenProperties DEF TypeOK
<1>3. ASSUME NEW s \in Server, NEW q, taskQueue' = [taskQueue EXCEPT ![s] = q], Len(q) <= TaskQueueSize
      PROVE  QueuesBounded'
  <2>1. taskQueue'[s] = q /\ \A t \in Server : t # s => taskQueue'[t] = taskQueue[t]
    BY <1>3 DEF TypeOK
  <2> QED
    BY <1>3, <2>1 DEF QueuesBounded
<1>4. Len(<<>>) <= TaskQueueSize
  BY <1>2
<1>5. ASSUME NEW d \in Doc, NEW c \in Content, Edit(d, c)
      PROVE  QueuesBounded'
  <2>1. PICK p \in Points(live) : QueueEdit(p.server, d, c)
    BY <1>5 DEF Edit
  <2> DEFINE s == p.server
             task == [doc |-> d, content |-> c]
  <2>2. s \in Server /\ task \in Task
    BY DEF TypeOK, Points, Task
  <2>3. CASE Len(taskQueue[s]) < TaskQueueSize
    <3>1. taskQueue' = [taskQueue EXCEPT ![s] = Append(taskQueue[s], task)]
      BY <2>1, <2>3 DEF QueueEdit, PushTask
    <3> HIDE DEF s, task
    <3>2. Len(Append(taskQueue[s], task)) = Len(taskQueue[s]) + 1
      BY <1>2, <2>2, AppendProperties
    <3>3. Len(Append(taskQueue[s], task)) <= TaskQueueSize
      BY <1>2, <2>2, <2>3, <3>2
    <3> QED
      BY <1>3, <2>2, <3>1, <3>3
  <2>4. CASE ~ (Len(taskQueue[s]) < TaskQueueSize)
    BY <1>1, <2>1, <2>4 DEF QueueEdit, PushTask
  <2> QED
    BY <2>3, <2>4
<1>6. ASSUME DrainTask
      PROVE  QueuesBounded'
  <2> DEFINE s == job.target
  <2>1. s \in Server /\ taskQueue[s] # <<>> /\ taskQueue' = [taskQueue EXCEPT ![s] = Tail(taskQueue[s])]
    BY <1>6, TargetType DEF DrainTask, ExecuteTask, TypeOK
  <2> HIDE DEF s
  <2>2. Len(Tail(taskQueue[s])) = Len(taskQueue[s]) - 1
    BY <1>2, <2>1, HeadTailProperties
  <2>3. Len(Tail(taskQueue[s])) <= TaskQueueSize
    BY <1>2, <2>1, <2>2 DEF QueuesBounded
  <2> QED
    BY <1>3, <2>1, <2>3
<1>7. ASSUME FinishRemove
      PROVE  QueuesBounded'
  <2>1. job.target \in Server /\ taskQueue' = [taskQueue EXCEPT ![job.target] = <<>>]
    BY <1>7, JobShape DEF FinishRemove, FreeServer, TypeOK
  <2> QED
    BY <1>3, <1>4, <2>1
<1>8. ASSUME Finish
      PROVE  QueuesBounded'
  BY <1>4, <1>8 DEF Finish, QueuesBounded
<1> QED
  BY <1>1, <1>5, <1>6, <1>7, <1>8
     DEF Next, Request, Progress, Ended, BeginGet, BeginAdd, InitServer, BeginRemove,
         ForwardToNobody, FinishGet, GetDocument, MoveDocument, NextLabel, FinishAdd,
         DistributeDocument, DivideByZero, vars, serverVars

\* AcknowledgedEditsCount: an EDIT is in effect as soon as it is acknowledged,
\* unless the queue of the server next to its document is full.
THEOREM AcknowledgedEditsCount == Spec => EditsTakeEffect
<1>1. Init => QueuesBounded
  <2> SUFFICES ASSUME Init, NEW s \in Server
               PROVE  Len(taskQueue[s]) <= TaskQueueSize
    BY DEF QueuesBounded
  <2>1. taskQueue[s] = <<>>
    BY DEF Init
  <2>2. Len(<<>>) = 0 /\ TaskQueueSize \in Nat
    BY ServerConstants
  <2>3. 0 <= TaskQueueSize
    BY <2>2
  <2> QED
    BY <2>1, <2>2, <2>3
<1>2. Spec => []QueuesBounded
  BY <1>1, QueuesBoundedStep, TypesCorrect, PTL DEF Spec
<1>3. IInv /\ IInv' /\ QueuesBounded /\ [Next]_vars /\ (job # Crashed => Unique)'
      => [\A d \in Doc : reply' = Queued(d) =>
            \A c \in Content : Edit(d, c) =>
                \/ ContentOf(d)' = c
                \/ \E p \in Points(live) :
                    /\ IsNextReplica(Points(live), DocHash[d], p)
                    /\ Len(taskQueue[p.server]) = TaskQueueSize]_vars
  <2> SUFFICES ASSUME IInv, IInv', QueuesBounded, (job # Crashed => Unique)',
                      NEW d \in Doc, NEW c \in Content, Edit(d, c), ContentOf(d)' # c
               PROVE  \E p \in Points(live) :
                        /\ IsNextReplica(Points(live), DocHash[d], p)
                        /\ Len(taskQueue[p.server]) = TaskQueueSize
    OBVIOUS
  <2>1. PICK p \in Points(live) : IsNextReplica(Points(live), DocHash[d], p) /\ QueueEdit(p.server, d, c)
    BY DEF Edit
  <2>2. TypeOK /\ TypeOK' /\ Unique /\ Unique' /\ p.server \in Server
    BY UniqueInvariant DEF IInv, Edit, Idle, Crashed, TypeOK, Points
  <2>3. ~ (Len(taskQueue[p.server]) < TaskQueueSize)
    BY <2>1, <2>2, EditContents
  <2>4. Len(taskQueue[p.server]) \in Nat /\ TaskQueueSize \in Nat
    BY <2>2, ServerConstants, LenProperties DEF TypeOK
  <2>5. Len(taskQueue[p.server]) = TaskQueueSize
    BY <2>2, <2>3, <2>4 DEF QueuesBounded
  <2> QED
    BY <2>1, <2>5
<1>4. IInv => (job # Crashed => Unique)
  BY UniqueInvariant
<1> QED
  BY <1>2, <1>3, <1>4, Invariance, PTL DEF Spec, EditsTakeEffect

-----------------------------------------------------------------------------
(***************************************************************************)
(* The label of a response is read from handler_replica, long after it was *)
(* set and after other requests may have set it again: the theorems that   *)
(* it is the right one all the same.                                       *)
(***************************************************************************)
\* The handler of the server on which a job works is a label; while a GET
\* waits for the queue, it is the label that is next to the document.
HandlerInv ==
    /\ handlerReplica \in [Server -> Replica \union {Unset}]
    /\ Draining => handlerReplica[job.target] \in Replica
    /\ job.op = "get" =>
           IsNextReplica(Points(live), DocHash[job.doc], Label(job.target, handlerReplica[job.target]))

LEMMA HandlerType ==
    ASSUME handlerReplica \in [Server -> Replica \union {Unset}],
           NEW s \in Server, NEW i \in Replica, Handle(s, i)
    PROVE  /\ handlerReplica' \in [Server -> Replica \union {Unset}]
           /\ handlerReplica'[s] = i
BY DEF Handle

\* What the ring search returns is a point of a live server.
LEMMA NextIsPoint ==
    ASSUME TypeOK, NEW h, NEW p, IsNextReplica(Points(live), h, p)
    PROVE  p \in Point /\ p.server \in Server /\ p.replica \in Replica
<1>1. p \in Points(live)
  BY DEF IsNextReplica, IsFirst, Above
<1>2. live \subseteq Server
  BY DEF TypeOK
<1> QED
  BY <1>1, <1>2 DEF Points, Point

LEMMA InitHandler == RInit => HandlerInv
BY DEF RInit, Init, HandlerInv, Idle, Draining

\* Every step of Responses is one of the database.
LEMMA StepOfDatabase == [RNext]_responseVars => [Next]_vars
BY DEF RNext, responseVars, REdit, RBeginGet, RBeginAdd, RBeginRemove, RDrainTask, RFinishGet,
       RNextLabel, Silent, REnded, Next, Request, Progress

LEMMA HandlerStep ==
    ASSUME IInv, HandlerInv, [RNext]_responseVars
    PROVE  HandlerInv'
<1>0. TypeOK /\ job \in Job
  BY DEF IInv, TypeOK
<1>1. ASSUME UNCHANGED <<live, job, handlerReplica>>
      PROVE  HandlerInv'
  BY <1>1 DEF HandlerInv, Draining
<1>2. ASSUME job'.op \notin {"get", "add", "remove"},
             handlerReplica' \in [Server -> Replica \union {Unset}]
      PROVE  HandlerInv'
  BY <1>2 DEF HandlerInv, Draining
<1>3. ASSUME job'.op \in {"add", "remove"},
             handlerReplica' \in [Server -> Replica \union {Unset}],
             handlerReplica'[job'.target] \in Replica
      PROVE  HandlerInv'
  BY <1>3 DEF HandlerInv, Draining
<1>4. ASSUME NEW d \in Doc, NEW c \in Content, REdit(d, c)
      PROVE  HandlerInv'
  <2>1. PICK p : IsNextReplica(Points(live), DocHash[d], p) /\ Handle(p.server, p.replica)
    BY <1>4 DEF REdit
  <2>2. handlerReplica' \in [Server -> Replica \union {Unset}]
    BY <1>0, <2>1, NextIsPoint, HandlerType DEF HandlerInv
  <2>3. job'.op = "idle"
    BY <1>4 DEF REdit, Edit, Idle
  <2> QED
    BY <1>2, <2>2, <2>3
<1>5. ASSUME NEW d \in Doc, RBeginGet(d)
      PROVE  HandlerInv'
  <2>1. PICK p : IsNextReplica(Points(live), DocHash[d], p) /\ Handle(p.server, p.replica)
    BY <1>5 DEF RBeginGet
  <2>2. PICK q \in Points(live) : IsNextReplica(Points(live), DocHash[d], q) /\ job' = Getting(d, q.server)
    BY <1>5 DEF RBeginGet, BeginGet
  <2>3. p = q
    <3>1. Points(live) \in SUBSET Point
      BY <1>0 DEF TypeOK, Points, Point
    <3>2. DocHash[d] \in 0 .. HashMax
      BY RingConstants
    <3> QED
      BY <2>1, <2>2, <3>1, <3>2, NextUnique, HashesDistinct
  <2>4. p \in Point /\ p.server \in Server /\ p.replica \in Replica
    BY <1>0, <2>1, NextIsPoint
  <2>5. /\ handlerReplica' \in [Server -> Replica \union {Unset}]
        /\ handlerReplica'[p.server] = p.replica
    BY <2>1, <2>4, HandlerType DEF HandlerInv
  <2>6. job'.op = "get" /\ job'.doc = d /\ job'.target = p.server /\ UNCHANGED live
    BY <1>5, <2>2, <2>3 DEF RBeginGet, BeginGet, Getting
  <2>7. Label(p.server, p.replica) = p
    BY <2>4 DEF Label, Point
  <2>8. IsNextReplica(Points(live'), DocHash[job'.doc], Label(job'.target, handlerReplica'[job'.target]))
    BY <2>1, <2>5, <2>6, <2>7
  <2> QED
    BY <2>4, <2>5, <2>6, <2>8 DEF HandlerInv, Draining
<1>6. ASSUME NEW x \in Server, NEW size \in CacheSize, RBeginAdd(x, size)
      PROVE  HandlerInv'
  <2>1. CASE job' = Idle
    <3>1. job'.op = "idle"
      BY <2>1 DEF Idle
    <3>2. handlerReplica' \in [Server -> Replica \union {Unset}]
      BY <1>6, <3>1 DEF RBeginAdd, HandlerInv
    <3> QED
      BY <1>2, <3>1, <3>2
  <2>2. CASE job' # Idle
    <3>1. PICK p \in Points(live) : IsNextReplica(Points(live), ServerHash[x][0], p) /\ job' = Adding(x, 0, p)
      BY <1>6, <2>2 DEF RBeginAdd, BeginAdd
    <3>2. p.server \in live /\ p.server \in Server /\ p.replica \in Replica /\ x \notin live
      BY <1>0, <1>6, <3>1, NextIsPoint DEF Points, RBeginAdd, BeginAdd
    <3>3. job'.op = "add" /\ job'.target = p.server /\ job'.index = p.replica
      BY <3>1 DEF Adding
    <3>4. handlerReplica' \in [Server -> Replica \union {Unset}]
          /\ handlerReplica'[p.server] = p.replica
      BY <1>6, <3>2, <3>3 DEF RBeginAdd, HandlerInv
    <3> QED
      BY <1>3, <3>2, <3>3, <3>4
  <2> QED
    BY <2>1, <2>2
<1>7. ASSUME NEW x \in Server, RBeginRemove(x)
      PROVE  HandlerInv'
  <2>1. job'.op = "remove" /\ job'.target = x
    BY <1>7 DEF RBeginRemove, BeginRemove, Removing
  <2>2. 0 \in Replica
    BY RingConstants DEF Replica
  <2>3. handlerReplica' \in [Server -> Replica \union {Unset}] /\ handlerReplica'[x] = 0
    BY <1>7, <2>2, HandlerType DEF RBeginRemove, HandlerInv
  <2> QED
    BY <1>3, <2>1, <2>2, <2>3
<1>8. ASSUME RNextLabel
      PROVE  HandlerInv'
  <2>1. PICK p \in Points(live) :
            /\ IsNextReplica(Points(live), ServerHash[job.newcomer][job.label + 1], p)
            /\ job' = Adding(job.newcomer, job.label + 1, p)
    BY <1>8 DEF RNextLabel, NextLabel
  <2>2. job'.op = "add" /\ job'.target = p.server /\ job'.index = p.replica
    BY <2>1 DEF Adding
  <2>3. p.server \in Server /\ p.replica \in Replica
    BY <1>0, <2>1, NextIsPoint
  <2>4. handlerReplica' \in [Server -> Replica \union {Unset}] /\ handlerReplica'[p.server] = p.replica
    BY <1>8, <2>2, <2>3, HandlerType DEF RNextLabel, HandlerInv
  <2> QED
    BY <1>3, <2>2, <2>3, <2>4
<1>9. ASSUME RDrainTask
      PROVE  HandlerInv'
  BY <1>1, <1>9 DEF RDrainTask, DrainTask
<1>10. ASSUME RFinishGet
       PROVE  HandlerInv'
  BY <1>2, <1>10 DEF RFinishGet, FinishGet, Idle, HandlerInv
<1>11. ASSUME Silent
       PROVE  HandlerInv'
  <2>1. ASSUME NEW doc \in Document, MoveDocument(doc) \/ DistributeDocument(doc)
        PROVE  HandlerInv'
    BY <1>1, <1>11, <2>1 DEF MoveDocument, DistributeDocument, Silent
  <2>2. ASSUME \/ FinishAdd \/ FinishRemove \/ DivideByZero \/ Finish
               \/ \E d \in Doc : ForwardToNobody(d)
        PROVE  HandlerInv'
    <3>1. job' \in {Idle, Crashed, Finished}
      BY <2>2 DEF FinishAdd, FinishRemove, ForwardToNobody, DivideByZero, Finish
    <3>2. job'.op \notin {"get", "add", "remove"}
      BY <3>1 DEF Idle, Crashed, Finished
    <3> QED
      BY <1>2, <1>11, <3>2 DEF Silent, HandlerInv
  <2> QED
    BY <1>11, <2>1, <2>2 DEF Silent
<1>12. ASSUME REnded \/ UNCHANGED responseVars
       PROVE  HandlerInv'
  BY <1>1, <1>12 DEF REnded, Ended, responseVars, vars
<1> QED
  BY <1>4, <1>5, <1>6, <1>7, <1>8, <1>9, <1>10, <1>11, <1>12 DEF RNext

\* The steps of the responses keep the invariant of the database.
LEMMA ResponseInvariant == RSpec => [](IInv /\ HandlerInv)
<1>1. RInit => IInv /\ HandlerInv
  BY InitInvariant, InitHandler DEF RInit
<1>2. IInv /\ HandlerInv /\ [RNext]_responseVars => IInv' /\ HandlerInv'
  BY StepOfDatabase, StepInvariant, HandlerStep
<1> QED
  BY <1>1, <1>2, PTL DEF RSpec

\* NoUnsetLabel: a server answers with a label of its own, though its
\* handler_replica is uninitialised until it is first named a handler.
THEOREM NoUnsetLabel == RSpec => []LabelsAreSet
<1>1. RInit => LabelsAreSet
  BY DEF RInit, LabelsAreSet
<1>2. IInv /\ HandlerInv /\ LabelsAreSet /\ [RNext]_responseVars => LabelsAreSet'
  <2> SUFFICES ASSUME IInv, HandlerInv, LabelsAreSet, [RNext]_responseVars
               PROVE  LabelsAreSet'
    OBVIOUS
  <2>1. ASSUME NEW d \in Doc, NEW c \in Content, REdit(d, c)
        PROVE  LabelsAreSet'
    <3>1. PICK p : IsNextReplica(Points(live), DocHash[d], p) /\ line' = QueueSize(p, Len(taskQueue'[p.server]))
      BY <2>1 DEF REdit
    <3>2. p.replica \in Replica
      BY <3>1, NextIsPoint DEF IInv
    <3> QED
      BY <3>1, <3>2 DEF LabelsAreSet, QueueSize
  <2>2. ASSUME RDrainTask
        PROVE  LabelsAreSet'
    <3>1. handlerReplica[job.target] \in Replica
      BY <2>2 DEF RDrainTask, DrainTask, HandlerInv
    <3>2. line'.label = Handler(job.target)
      BY <2>2 DEF RDrainTask, LogEdit, LogPut, Hit, Miss, Evict
    <3> QED
      BY <3>1, <3>2 DEF LabelsAreSet, Handler, Label
  <2>3. ASSUME RFinishGet
        PROVE  LabelsAreSet'
    <3>1. handlerReplica[job.target] \in Replica
      BY <2>3 DEF RFinishGet, FinishGet, HandlerInv, Draining
    <3>2. line'.label = Handler(job.target)
      BY <2>3 DEF RFinishGet, LogGet, LogPut, Hit, Miss, Evict, Fault
    <3> QED
      BY <3>1, <3>2 DEF LabelsAreSet, Handler, Label
  <2>4. ASSUME line' = NoLine \/ UNCHANGED line
        PROVE  LabelsAreSet'
    BY <2>4 DEF LabelsAreSet
  <2> QED
    BY <2>1, <2>2, <2>3, <2>4
       DEF RNext, RBeginGet, RBeginAdd, RBeginRemove, RNextLabel, Silent, REnded, responseVars
<1> QED
  BY <1>1, <1>2, ResponseInvariant, PTL DEF RSpec

\* AnsweredByOwner: the label of an acknowledgement, and that of the answer of a
\* GET, which is read only after the queue was drained, is next to the document.
THEOREM AnsweredByOwner == RSpec => []LabelOwnsDocument
<1>1. RInit => LabelOwnsDocument
  BY DEF RInit, Init, LabelOwnsDocument, NoReply
<1>2. IInv /\ HandlerInv /\ LabelOwnsDocument /\ [RNext]_responseVars => LabelOwnsDocument'
  <2> SUFFICES ASSUME IInv, HandlerInv, LabelOwnsDocument, [RNext]_responseVars
               PROVE  LabelOwnsDocument'
    OBVIOUS
  <2>1. ASSUME reply'.kind \notin {"queued", "got"}
        PROVE  LabelOwnsDocument'
    BY <2>1 DEF LabelOwnsDocument
  <2>2. ASSUME reply' = NoReply
        PROVE  LabelOwnsDocument'
    BY <2>1, <2>2 DEF NoReply
  <2>3. ASSUME NEW d \in Doc, NEW c \in Content, REdit(d, c)
        PROVE  LabelOwnsDocument'
    <3>1. PICK p :
              /\ IsNextReplica(Points(live), DocHash[d], p)
              /\ line' = QueueSize(p, Len(taskQueue'[p.server]))
      BY <2>3 DEF REdit
    <3>2. line'.label = p
      BY <3>1 DEF QueueSize
    <3>3. PICK s : QueueEdit(s, d, c)
      BY <2>3 DEF REdit, Edit
    <3>4. reply'.doc = d
      BY <3>3 DEF QueueEdit, Queued
    <3>5. live' = live
      BY <2>3 DEF REdit, Edit
    <3> QED
      BY <3>1, <3>2, <3>4, <3>5 DEF LabelOwnsDocument
  <2>4. ASSUME RFinishGet
        PROVE  LabelOwnsDocument'
    <3>1. line'.label = Handler(job.target)
      BY <2>4 DEF RFinishGet, LogGet, LogPut, Hit, Miss, Evict, Fault
    <3>2. reply'.doc = job.doc /\ live' = live /\ job.op = "get"
      BY <2>4 DEF RFinishGet, FinishGet, GetDocument, GetFromCache, GetFromDatabase, GetNothing, Got
    <3> QED
      BY <3>1, <3>2 DEF LabelOwnsDocument, HandlerInv, Handler
  <2>5. ASSUME RDrainTask
        PROVE  LabelOwnsDocument'
    <3>1. reply'.kind \in {"overridden", "created"}
      BY <2>5 DEF RDrainTask, DrainTask, ExecuteTask, EditDocument, OverrideDocument,
                  CreateDocument, Overridden, Created
    <3> QED
      BY <2>1, <3>1
  <2>6. ASSUME UNCHANGED <<reply, live, line>>
        PROVE  LabelOwnsDocument'
    BY <2>6 DEF LabelOwnsDocument
  <2>7. ASSUME REnded \/ UNCHANGED responseVars
        PROVE  LabelOwnsDocument'
    BY <2>6, <2>7 DEF REnded, Ended, responseVars, vars, serverVars
  <2>8. ASSUME \/ \E d \in Doc : RBeginGet(d)
               \/ \E x \in Server, size \in CacheSize : RBeginAdd(x, size)
               \/ \E x \in Server : RBeginRemove(x)
               \/ RNextLabel \/ Silent
        PROVE  LabelOwnsDocument'
    <3>1. reply' = NoReply
      BY <2>8 DEF RBeginGet, BeginGet, RBeginAdd, BeginAdd, InitServer, RBeginRemove, BeginRemove,
             RNextLabel, NextLabel, Silent, MoveDocument, DistributeDocument, FinishAdd,
             FinishRemove, FreeServer, ForwardToNobody, DivideByZero, Finish
    <3> QED
      BY <2>2, <3>1
  <2> QED
    BY <2>3, <2>4, <2>5, <2>7, <2>8 DEF RNext
<1> QED
  BY <1>1, <1>2, ResponseInvariant, PTL DEF RSpec

-----------------------------------------------------------------------------
\* What a line says of the keys that a cache lost.
Reports(l, lost) == lost = IF l.log = "evict" THEN {l.evicted} ELSE {}

LEMMA PutReported ==
    ASSUME TypeOK, CacheWellFormed, NEW s \in Server, capacity[s] > 0,
           NEW d \in Doc, NEW c \in Content, NEW p, p.server = s
    PROVE  /\ LogPut(p, d).label = p
           /\ ~ IsCached(cache[s], d) =>
                  Reports(LogPut(p, d), KeysOf(cache[s]) \ KeysOf(LruPut(cache[s], capacity[s], d, c)))
<1> DEFINE before == cache[s]
           size == capacity[s]
<1>1. before \in Seq(Entry(Doc, Content)) /\ KeysUnique(before) /\ size \in Nat \ {0}
  BY DEF TypeOK, CacheWellFormed
<1>2. [key |-> d, val |-> c] \in Entry(Doc, Content)
  BY DEF Entry
<1>3. LogPut(p, d) = IF LruEvicts(before, size, d) THEN Evict(p, d, Head(before).key) ELSE Miss(p, d)
  BY DEF LogPut
<1> HIDE DEF before, size
<1>4. KeysOf(before) \ KeysOf(LruPut(before, size, d, c)) =
          IF LruEvicts(before, size, d) THEN {Head(before).key} ELSE {}
  BY <1>1, <1>2, KeysAfterPut
<1>5. /\ LogPut(p, d).label = p
      /\ Reports(LogPut(p, d), KeysOf(before) \ KeysOf(LruPut(before, size, d, c)))
  <2>1. CASE LruEvicts(before, size, d)
    BY <1>3, <1>4, <2>1 DEF Evict, Reports
  <2>2. CASE ~ LruEvicts(before, size, d)
    BY <1>3, <1>4, <2>2 DEF Miss, Reports
  <2> QED
    BY <2>1, <2>2
<1> QED
  BY <1>5 DEF before, size

\* A key that is present is put without an eviction.
LEMMA NothingLost ==
    ASSUME TypeOK, CacheWellFormed, NEW s \in Server, capacity[s] > 0,
           NEW d \in Doc, NEW c \in Content, IsCached(cache[s], d)
    PROVE  /\ KeysOf(cache[s]) \ KeysOf(LruPut(LruGet(cache[s], d), capacity[s], d, c)) = {}
           /\ KeysOf(cache[s]) \ KeysOf(LruPutNoEvict(LruGet(cache[s], d), d, c)) = {}
<1> DEFINE before == cache[s]
           size == capacity[s]
           got == LruGet(before, d)
<1>1. before \in Seq(Entry(Doc, Content)) /\ KeysUnique(before) /\ size \in Nat \ {0}
      /\ IsCached(before, d)
  BY DEF TypeOK, CacheWellFormed
<1>2. [key |-> d, val |-> c] \in Entry(Doc, Content)
  BY DEF Entry
<1> HIDE DEF before, size
<1>3. got \in Seq(Entry(Doc, Content)) /\ KeysUnique(got) /\ IsCached(got, d)
  BY <1>1, GetFacts
<1>4. KeysOf(got) = KeysOf(before)
  BY <1>1, KeysAfterGet
<1> HIDE DEF got
<1>5. ~ LruEvicts(got, size, d)
  BY <1>3 DEF LruEvicts
<1>6. KeysOf(got) \ KeysOf(LruPut(got, size, d, c)) = {}
  BY <1>1, <1>2, <1>3, <1>5, KeysAfterPut
<1>7. KeysOf(LruPutNoEvict(got, d, c)) = KeysOf(got) \union {d}
  BY <1>2, <1>3, KeysAfterPutNoEvict
<1> QED
  BY <1>4, <1>6, <1>7 DEF before, size, got

\* A line about the one cache that changed covers all of them.
LEMMA OneCacheReported ==
    ASSUME TypeOK, NEW t \in Server, NEW after, cache' = [cache EXCEPT ![t] = after],
           line'.label.server = t, Reports(line', KeysOf(cache[t]) \ KeysOf(after)),
           NEW s \in Server
    PROVE  CachedKeys(s) \ CachedKeys(s)' =
               IF line'.log = "evict" /\ line'.label.server = s THEN {line'.evicted} ELSE {}
<1>1. cache'[t] = after /\ (s # t => cache'[s] = cache[s])
  BY DEF TypeOK
<1>2. CASE s = t
  BY <1>1, <1>2 DEF CachedKeys, KeysOf, Reports
<1>3. CASE s # t
  BY <1>1, <1>3 DEF CachedKeys
<1> QED
  BY <1>2, <1>3

\* EvictionsReported: the log of a response names the key that left a cache, and
\* no key leaves a cache unnamed while a response is printed: the key handed
\* out by lru_cache_put is the one that it dropped, and the cached value that
\* was read before did not push another one out.
THEOREM EvictionsReported == RSpec => EvictionReported
<1>1. IInv /\ [RNext]_responseVars =>
        [line' # NoLine =>
            \A s \in Server :
                CachedKeys(s) \ CachedKeys(s)' =
                    IF line'.log = "evict" /\ line'.label.server = s
                    THEN {line'.evicted} ELSE {}]_responseVars
  <2> SUFFICES ASSUME IInv, RNext, ~ UNCHANGED responseVars, line' # NoLine, NEW s \in Server
               PROVE  CachedKeys(s) \ CachedKeys(s)' =
                        IF line'.log = "evict" /\ line'.label.server = s
                        THEN {line'.evicted} ELSE {}
    OBVIOUS
  <2> DEFINE t == job.target
             p == Handler(t)
  <2>1. TypeOK /\ CacheWellFormed /\ job \in Job
    BY DEF IInv, TypeOK
  <2>2. p.server = t
    BY DEF Handler, Label
  <2> HIDE DEF p
  <2>3. ASSUME NEW d \in Doc, NEW c \in Content, REdit(d, c)
        PROVE  CachedKeys(s) \ CachedKeys(s)' =
                 IF line'.log = "evict" /\ line'.label.server = s THEN {line'.evicted} ELSE {}
    <3>1. cache' = cache
      BY <2>3 DEF REdit, Edit, QueueEdit
    <3>2. PICK q, n : line' = QueueSize(q, n)
      BY <2>3 DEF REdit
    <3>3. line'.log = "queue size"
      BY <3>2 DEF QueueSize
    <3> QED
      BY <3>1, <3>3 DEF CachedKeys
  <2>4. CASE RDrainTask
    <3>1. t \in Server /\ capacity[t] > 0 /\ ExecuteTask(t)
      BY <2>1, <2>4, TargetType DEF RDrainTask, DrainTask, ExecuteTask
    <3>2. PICK d \in Doc, c \in Content :
              Head(taskQueue[t]) = [doc |-> d, content |-> c] /\ EditDocument(t, d, c)
      BY <2>1, <3>1, ExecutedTask
    <3> DEFINE after == LruPut(LruGet(cache[t], d), capacity[t], d, c)
    <3>3. cache' = [cache EXCEPT ![t] = after]
      BY <3>2 DEF EditDocument
    <3>4. line' = LogEdit(p, d)
      BY <2>4, <3>2 DEF RDrainTask, p
    <3>5. line'.label = p /\ Reports(line', KeysOf(cache[t]) \ KeysOf(after))
      <4>1. CASE IsCached(cache[t], d)
        <5>1. line' = Hit(p, d)
          BY <2>2, <3>4, <4>1 DEF LogEdit
        <5>2. KeysOf(cache[t]) \ KeysOf(after) = {}
          BY <2>1, <3>1, <4>1, NothingLost
        <5> QED
          BY <5>1, <5>2 DEF Hit, Reports
      <4>2. CASE ~ IsCached(cache[t], d)
        <5>1. line' = LogPut(p, d)
          BY <2>2, <3>4, <4>2 DEF LogEdit
        <5>2. after = LruPut(cache[t], capacity[t], d, c)
          BY <4>2 DEF LruGet
        <5> QED
          BY <2>1, <2>2, <3>1, <4>2, <5>1, <5>2, PutReported
      <4> QED
        BY <4>1, <4>2
    <3> HIDE DEF after
    <3> QED
      BY <2>1, <2>2, <3>1, <3>3, <3>5, OneCacheReported
  <2>5. CASE RFinishGet
    <3> DEFINE d == job.doc
    <3>1. t \in Server /\ d \in Doc
      BY <2>1, <2>5, JobShape DEF RFinishGet, FinishGet
    <3>2. capacity[t] > 0 /\ (GetFromCache(t, d) \/ GetFromDatabase(t, d) \/ GetNothing(t, d))
      BY <2>5 DEF RFinishGet, FinishGet, GetDocument
    <3>3. line' = LogGet(p, d)
      BY <2>5 DEF RFinishGet, p
    <3> HIDE DEF d, t
    <3>4. CASE GetFromCache(t, d)
      <4> DEFINE v == CachedValue(cache[t], d)
                 after == LruPutNoEvict(LruGet(cache[t], d), d, v)
      <4>1. IsCached(cache[t], d) /\ cache' = [cache EXCEPT ![t] = after]
        BY <3>4 DEF GetFromCache
      <4>2. v \in Content
        <5>1. PICK m \in DOMAIN cache[t] : v = cache[t][m].val
          BY <4>1, KeyIndexFacts DEF CachedValue
        <5>2. cache[t] \in Seq(Entry(Doc, Content))
          BY <2>1, <3>1 DEF TypeOK
        <5>3. cache[t][m] \in Entry(Doc, Content)
          BY <5>2, LenProperties, ElementOfSeq
        <5> QED
          BY <5>1, <5>3 DEF Entry
      <4>3. line' = Hit(p, d)
        BY <2>2, <3>3, <4>1 DEF LogGet
      <4> HIDE DEF v
      <4>4. KeysOf(cache[t]) \ KeysOf(after) = {}
        BY <2>1, <3>1, <3>2, <4>1, <4>2, NothingLost
      <4>5. line'.label.server = t /\ Reports(line', KeysOf(cache[t]) \ KeysOf(after))
        BY <2>2, <4>3, <4>4 DEF Hit, Reports
      <4> HIDE DEF after
      <4> QED
        BY <2>1, <3>1, <4>1, <4>5, OneCacheReported
    <3>5. CASE GetFromDatabase(t, d)
      <4>1. PICK doc \in Stored(t, d) :
                cache' = [cache EXCEPT ![t] = LruPut(cache[t], capacity[t], d, doc.content)]
        BY <3>5 DEF GetFromDatabase
      <4>2. doc.content \in Content
        BY <2>1, <3>1 DEF Stored, TypeOK, Document
      <4> DEFINE after == LruPut(cache[t], capacity[t], d, doc.content)
      <4>3. line' = LogPut(p, d) /\ ~ IsCached(cache[t], d)
        BY <2>2, <3>3, <3>5, <4>1 DEF LogGet, GetFromDatabase
      <4>4. line'.label = p /\ Reports(line', KeysOf(cache[t]) \ KeysOf(after))
        BY <2>1, <2>2, <3>1, <3>2, <4>2, <4>3, PutReported
      <4>5. cache' = [cache EXCEPT ![t] = after]
        BY <4>1
      <4> HIDE DEF after
      <4> QED
        BY <2>1, <2>2, <3>1, <4>4, <4>5, OneCacheReported
    <3>6. CASE GetNothing(t, d)
      <4>1. line' = Fault(p, d)
        BY <2>2, <3>3, <3>6 DEF LogGet, GetNothing
      <4> QED
        BY <3>6, <4>1 DEF GetNothing, Fault, CachedKeys
    <3> QED
      BY <3>2, <3>4, <3>5, <3>6
  <2> QED
    BY <2>3, <2>4, <2>5
       DEF RNext, RBeginGet, RBeginAdd, RBeginRemove, RNextLabel, Silent, REnded, Ended, responseVars
<1> QED
  BY <1>1, ResponseInvariant, PTL DEF RSpec, EvictionReported
=============================================================================
