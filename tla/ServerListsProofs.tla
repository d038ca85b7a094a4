------------------------- MODULE ServerListsProofs -------------------------
(***************************************************************************)
(* The loops over the task queue and the local database: whatever they     *)
(* take off a list while they go over it, for any set of documents, any    *)
(* memory and any TASK_QUEUE_SIZE, the lists stay whole, the index of      *)
(* loader_add_server names its current node, and the lists implement the   *)
(* sequence and the sets by which the other modules model them.            *)
(***************************************************************************)
EXTENDS ServerLists, LinkedListProofs, FiniteSetTheorems

QueueOf(list) ==
    WholeChain(list, Node) /\ Elements(list) \in [1 .. list.size -> Doc]

DatabaseOf(list) ==
    /\ WholeCircle(list, Node) /\ Elements(list) \in [1 .. list.size -> Doc]
    /\ IsInjective(Elements(list))

Walking == loop \in {"adding", "removing"}

Phases ==
    /\ loop \in {"none", "draining", "adding", "removing", "freeing"}
    /\ loop # "draining" => executed = Nobody
    /\ Walking => queue.size = 0
    /\ ~ Walking => current = Null /\ index = 0 /\ leaving = {}

\* What a walk leaves behind it is to stay, and its index names its node.
OnTheWay ==
    Walking =>
        /\ leaving \subseteq Doc /\ index \in Nat
        /\ loop = "removing" => index = 0 /\ leaving = Doc
        /\ current # Null => index + 1 \in 1 .. from.size /\ current = Walk(from)[index + 1]
        /\ \A i \in 1 .. from.size :
            current = Null \/ i <= index => Elements(from)[i] \notin leaving

\* The inductive invariant.  A document is in one place: what moved away has
\* no EDIT in the queue of the server that it left.
ListsInv ==
    /\ QueueOf(queue) /\ DatabaseOf(from) /\ DatabaseOf(to)
    /\ StoredIn(to) \intersect (StoredIn(queue) \union StoredIn(from)) = {}
    /\ Phases /\ OnTheWay
-----------------------------------------------------------------------------
(***************************************************************************)
(* What the calls do to the documents of a list.                           *)
(***************************************************************************)
LEMMA LastStored ==
    ASSUME NEW n \in Nat, NEW e \in [1 .. n -> Doc], NEW d \in Doc,
           NEW f, f = WithLast(e, n, d)
    PROVE  /\ f \in [1 .. n + 1 -> Doc] /\ Range(f) = Range(e) \union {d}
           /\ IsInjective(e) /\ d \notin Range(e) => IsInjective(f)
<1>1. \A i \in 1 .. n + 1 : f[i] = IF i = n + 1 THEN d ELSE e[i]
  BY DEF WithLast
<1>2. \A i \in 1 .. n + 1 : i = n + 1 \/ i \in 1 .. n
  OBVIOUS
<1>3. f \in [1 .. n + 1 -> Doc]
  <2>1. f = [i \in 1 .. n + 1 |-> IF i = n + 1 THEN d ELSE e[i]]
    BY DEF WithLast
  <2> QED
    BY <1>2, <2>1
<1>4. n + 1 \in 1 .. n + 1 /\ \A i \in 1 .. n : i \in 1 .. n + 1 /\ i # n + 1
  OBVIOUS
<1>5. Range(f) = Range(e) \union {d}
  BY <1>1, <1>2, <1>3, <1>4 DEF Range
<1>6. ASSUME IsInjective(e), d \notin Range(e)
      PROVE  IsInjective(f)
  BY <1>1, <1>2, <1>3, <1>6 DEF IsInjective, Range
<1> QED
  BY <1>3, <1>5, <1>6

LEMMA FirstStored ==
    ASSUME NEW n \in Nat, NEW e \in [1 .. n -> Doc], NEW d \in Doc,
           NEW f, f = WithFirst(e, n, d)
    PROVE  /\ f \in [1 .. n + 1 -> Doc] /\ Range(f) = Range(e) \union {d}
           /\ IsInjective(e) /\ d \notin Range(e) => IsInjective(f)
<1>1. \A i \in 1 .. n + 1 : f[i] = IF i = 1 THEN d ELSE e[i - 1]
  BY DEF WithFirst
<1>2. \A i \in 1 .. n + 1 : i = 1 \/ i - 1 \in 1 .. n
  OBVIOUS
<1>3. f \in [1 .. n + 1 -> Doc]
  <2>1. f = [i \in 1 .. n + 1 |-> IF i = 1 THEN d ELSE e[i - 1]]
    BY DEF WithFirst
  <2> QED
    BY <1>2, <2>1
<1>4. 1 \in 1 .. n + 1 /\ \A i \in 1 .. n : i + 1 \in 1 .. n + 1 /\ i + 1 # 1 /\ (i + 1) - 1 = i
  OBVIOUS
<1>5. Range(f) = Range(e) \union {d}
  <2>1. ASSUME NEW y \in Range(f)
        PROVE  y \in Range(e) \union {d}
    BY <1>1, <1>2, <1>3, <2>1 DEF Range
  <2>2. d \in Range(f)
    BY <1>1, <1>3, <1>4 DEF Range
  <2>3. ASSUME NEW i \in 1 .. n
        PROVE  e[i] \in Range(f)
    <3>1. i + 1 \in DOMAIN f /\ f[i + 1] = e[i]
      BY <1>1, <1>3, <1>4
    <3> QED
      BY <3>1 DEF Range
  <2> QED
    BY <2>1, <2>2, <2>3 DEF Range
<1>6. ASSUME IsInjective(e), d \notin Range(e), NEW i \in 1 .. n + 1, NEW j \in 1 .. n + 1, f[i] = f[j]
      PROVE  i = j
  <2>1. \A m \in 1 .. n : e[m] # d
    BY <1>6 DEF Range
  <2>2. CASE i = 1 \/ j = 1
    BY <1>1, <1>2, <1>6, <2>1, <2>2
  <2>3. CASE i # 1 /\ j # 1
    <3>1. i - 1 \in 1 .. n /\ j - 1 \in 1 .. n /\ e[i - 1] = e[j - 1]
      BY <1>1, <1>2, <1>6, <2>3
    <3>2. i - 1 = j - 1
      BY <1>6, <3>1 DEF IsInjective
    <3> QED
      BY <3>2
  <2> QED
    BY <2>2, <2>3
<1>7. IsInjective(e) /\ d \notin Range(e) => IsInjective(f)
  BY <1>3, <1>6 DEF IsInjective
<1> QED
  BY <1>3, <1>5, <1>7

LEMMA OthersStored ==
    ASSUME NEW n \in Nat, NEW e \in [1 .. n -> Doc], NEW k \in 1 .. n,
           NEW f, f = Without(e, n, k)
    PROVE  /\ f \in [1 .. n - 1 -> Doc] /\ Range(f) \subseteq Range(e)
           /\ IsInjective(e) => IsInjective(f) /\ Range(f) = Range(e) \ {e[k]}
<1>1. \A i \in 1 .. n - 1 : f[i] = IF i < k THEN e[i] ELSE e[i + 1]
  BY DEF Without
<1>2. \A i \in 1 .. n - 1 : i \in 1 .. n /\ i + 1 \in 1 .. n
  OBVIOUS
<1>3. f \in [1 .. n - 1 -> Doc]
  <2>1. f = [i \in 1 .. n - 1 |-> IF i < k THEN e[i] ELSE e[i + 1]]
    BY DEF Without
  <2> QED
    BY <1>2, <2>1
<1>4. Range(f) \subseteq Range(e)
  BY <1>1, <1>2, <1>3 DEF Range
<1>5. ASSUME IsInjective(e)
      PROVE  IsInjective(f)
  <2> SUFFICES ASSUME NEW i \in 1 .. n - 1, NEW j \in 1 .. n - 1, f[i] = f[j]
               PROVE  i = j
    BY <1>3 DEF IsInjective
  <2>1. PICK a, b : a = (IF i < k THEN i ELSE i + 1) /\ b = (IF j < k THEN j ELSE j + 1)
    OBVIOUS
  <2>2. a \in 1 .. n /\ b \in 1 .. n /\ e[a] = e[b]
    BY <1>1, <1>2, <2>1
  <2>3. a = b
    BY <1>5, <2>2 DEF IsInjective
  <2> QED
    BY <2>1, <2>3
<1>6. ASSUME IsInjective(e)
      PROVE  Range(f) = Range(e) \ {e[k]}
  <2>1. ASSUME NEW i \in 1 .. n - 1
        PROVE  f[i] # e[k]
    <3>1. PICK a : a = IF i < k THEN i ELSE i + 1
      OBVIOUS
    <3>2. a \in 1 .. n /\ a # k /\ f[i] = e[a]
      BY <1>1, <1>2, <3>1
    <3> QED
      BY <1>6, <3>2 DEF IsInjective
  <2>2. ASSUME NEW i \in 1 .. n, i # k
        PROVE  e[i] \in Range(f)
    <3>1. PICK a : a = IF i < k THEN i ELSE i - 1
      OBVIOUS
    <3>2. a \in 1 .. n - 1 /\ f[a] = e[i]
      <4>1. a \in 1 .. n - 1 /\ i = IF a < k THEN a ELSE a + 1
        BY <2>2, <3>1
      <4> QED
        BY <1>1, <4>1
    <3> QED
      BY <1>3, <3>2 DEF Range
  <2>3. ASSUME NEW y \in Range(e), y # e[k]
        PROVE  y \in Range(f)
    BY <2>2, <2>3 DEF Range
  <2> QED
    BY <1>3, <1>4, <2>1, <2>3 DEF Range
<1> QED
  BY <1>3, <1>4, <1>5, <1>6

LEMMA StoredDocuments ==
    ASSUME NEW list, DatabaseOf(list) \/ QueueOf(list)
    PROVE  /\ list.size \in Nat /\ StoredIn(list) \subseteq Doc
           /\ StoredIn(list) = Range(Elements(list))
           /\ \A i \in 1 .. list.size : Elements(list)[i] \in StoredIn(list)
           /\ list.size = 0 => StoredIn(list) = {}
<1>1. list.size \in Nat
  BY WholeList DEF DatabaseOf, QueueOf
<1>2. Elements(list) \in [1 .. list.size -> Doc]
  BY DEF DatabaseOf, QueueOf
<1>3. StoredIn(list) = {Elements(list)[i] : i \in 1 .. list.size}
  BY <1>2 DEF StoredIn, Range
<1> QED
  BY <1>1, <1>2, <1>3 DEF StoredIn

LEMMA EmptyStored ==
    ASSUME NEW list, list = EmptyList
    PROVE  /\ DatabaseOf(list) /\ QueueOf(list) /\ StoredIn(list) = {} /\ list.size = 0
           /\ Elements(list) = << >>
<1>1. WholeCircle(list, Node) /\ WholeChain(list, Node) /\ list.size = 0
  BY WholeEmpty
<1>2. Elements(list) = << >>
  BY <1>1 DEF Elements
<1>3. << >> \in [1 .. 0 -> Doc] /\ IsInjective(<< >>) /\ Range(<< >>) = {}
  BY DEF IsInjective, Range
<1> QED
  BY <1>1, <1>2, <1>3 DEF DatabaseOf, QueueOf, StoredIn

\* An unsigned counts the nodes of a circle.
LEMMA NodesCounted ==
    ASSUME NEW list, DatabaseOf(list)
    PROVE  list.size <= IndexSize
<1>1. PICK n, s : n = list.size /\ s = Walk(list)
  OBVIOUS
<1>2. Circle(list, s) /\ DOMAIN list.heap \subseteq Node
  BY <1>1 DEF DatabaseOf, WholeCircle
<1>3. n \in Nat /\ s \in [1 .. n -> Node]
  BY <1>1, <1>2 DEF Circle, IsList, Names
<1>4. \A i, j \in 1 .. n : s[i] = s[j] => i = j
  BY <1>1, <1>2 DEF Circle, Names
<1>5. s \in Injection(1 .. n, Node)
  BY <1>3, <1>4 DEF Injection, IsInjective
<1>6. IsFiniteSet(Node) /\ Cardinality(Node) <= IndexSize /\ Cardinality(Node) \in Nat /\ IndexSize \in Nat
  BY ListConstants, FS_CardinalityType
<1>7. Cardinality(1 .. n) <= Cardinality(Node)
  BY <1>5, <1>6, FS_Injection
<1>8. Cardinality(1 .. n) = n
  BY <1>3, FS_Interval
<1> QED
  BY <1>1, <1>3, <1>6, <1>7, <1>8

LEMMA TailStored ==
    ASSUME NEW list, DatabaseOf(list), NEW d \in Doc, d \notin StoredIn(list),
           NEW x \in Node \ DOMAIN list.heap, NEW m, m = AddTail(list, x, d)
    PROVE  DatabaseOf(m) /\ StoredIn(m) = StoredIn(list) \union {d}
<1>1. PICK n, e, f : n = list.size /\ e = Elements(list) /\ f = Elements(m)
  OBVIOUS
<1>2. WholeCircle(m, Node) /\ m.size = n + 1 /\ f = WithLast(e, n, d)
  BY <1>1, TailElements DEF DatabaseOf
<1>3. n \in Nat /\ e \in [1 .. n -> Doc] /\ IsInjective(e) /\ d \notin Range(e)
  BY <1>1, StoredDocuments DEF DatabaseOf
<1>4. f \in [1 .. n + 1 -> Doc] /\ IsInjective(f) /\ Range(f) = Range(e) \union {d}
  BY <1>2, <1>3, LastStored
<1> QED
  BY <1>1, <1>2, <1>4 DEF DatabaseOf, StoredIn

LEMMA HeadStored ==
    ASSUME NEW list, DatabaseOf(list), NEW d \in Doc, d \notin StoredIn(list),
           NEW x \in Node \ DOMAIN list.heap, NEW m, m = AddNth(list, 0, x, d)
    PROVE  DatabaseOf(m) /\ StoredIn(m) = StoredIn(list) \union {d}
<1>1. PICK n, e, f : n = list.size /\ e = Elements(list) /\ f = Elements(m)
  OBVIOUS
<1>2. WholeCircle(m, Node) /\ m.size = n + 1 /\ f = WithFirst(e, n, d)
  BY <1>1, HeadElements DEF DatabaseOf
<1>3. n \in Nat /\ e \in [1 .. n -> Doc] /\ IsInjective(e) /\ d \notin Range(e)
  BY <1>1, StoredDocuments DEF DatabaseOf
<1>4. f \in [1 .. n + 1 -> Doc] /\ IsInjective(f) /\ Range(f) = Range(e) \union {d}
  BY <1>2, <1>3, FirstStored
<1> QED
  BY <1>1, <1>2, <1>4 DEF DatabaseOf, StoredIn

\* What is left when node k was found, taken off and freed.
TookOff(m, list, k) ==
    /\ DatabaseOf(m) /\ m.size = list.size - 1
    /\ StoredIn(m) = StoredIn(list) \ {Elements(list)[k]}
    /\ Walk(m) = Without(Walk(list), list.size, k)
    /\ Elements(m) = Without(Elements(list), list.size, k)

LEMMA TakenOff ==
    ASSUME NEW list, DatabaseOf(list), NEW k \in 1 .. list.size,
           NEW m, m = Free(Unlink(list, Walk(list)[k]), Walk(list)[k])
    PROVE  TookOff(m, list, k)
<1>1. PICK n, e, f : n = list.size /\ e = Elements(list) /\ f = Elements(m)
  OBVIOUS
<1>2. /\ WholeCircle(m, Node) /\ m.size = n - 1 /\ f = Without(e, n, k)
      /\ Walk(m) = Without(Walk(list), n, k)
  BY <1>1, TakeOffElements DEF DatabaseOf
<1>3. n \in Nat /\ e \in [1 .. n -> Doc] /\ IsInjective(e)
  BY <1>1, StoredDocuments DEF DatabaseOf
<1>4. f \in [1 .. n - 1 -> Doc] /\ IsInjective(f) /\ Range(f) = Range(e) \ {e[k]}
  BY <1>1, <1>2, <1>3, OthersStored
<1> QED
  BY <1>1, <1>2, <1>4 DEF DatabaseOf, StoredIn, TookOff

\* push_queue is Append ...
LEMMA Pushed ==
    ASSUME NEW list, QueueOf(list), NEW d \in Doc,
           NEW x \in Node \ DOMAIN list.heap, NEW m, m = PushQueue(list, x, d)
    PROVE  /\ QueueOf(m) /\ StoredIn(m) = StoredIn(list) \union {d}
           /\ Elements(m) = Append(Elements(list), d)
<1>1. PICK n, e, f : n = list.size /\ e = Elements(list) /\ f = Elements(m)
  OBVIOUS
<1>2. WholeChain(m, Node) /\ m.size = n + 1 /\ f = WithLast(e, n, d)
  BY <1>1, LastElements, ListConstants DEF QueueOf, PushQueue
<1>3. n \in Nat /\ e \in [1 .. n -> Doc]
  BY <1>1, StoredDocuments DEF QueueOf
<1>4. f \in [1 .. n + 1 -> Doc] /\ Range(f) = Range(e) \union {d}
  BY <1>2, <1>3, LastStored
<1>5. f = Append(e, d)
  <2>1. e \in Seq(Doc) /\ Len(e) = n
    BY <1>3
  <2>2. PICK g : g = Append(e, d)
    OBVIOUS
  <2>3. g \in Seq(Doc) /\ Len(g) = n + 1 /\ g[n + 1] = d /\ \A i \in 1 .. n : g[i] = e[i]
    BY <2>1, <2>2, AppendProperties
  <2>4. \A i \in 1 .. n + 1 : i = n + 1 \/ i \in 1 .. n
    BY <1>3
  <2>5. g = [i \in 1 .. n + 1 |-> g[i]]
    BY <2>3
  <2>6. f = [i \in 1 .. n + 1 |-> IF i = n + 1 THEN d ELSE e[i]]
    BY <1>2 DEF WithLast
  <2> QED
    BY <2>2, <2>3, <2>4, <2>5, <2>6
<1> QED
  BY <1>1, <1>2, <1>4, <1>5 DEF QueueOf, StoredIn

\* ... pop_queue is Tail, and peek_queue is Head.
LEMMA Popped ==
    ASSUME NEW list, QueueOf(list), list.size # 0, NEW m, m = PopQueue(list)
    PROVE  /\ QueueOf(m) /\ StoredIn(m) \subseteq StoredIn(list)
           /\ Elements(list) # << >> /\ Elements(m) = Tail(Elements(list))
           /\ PeekQueue(list) = Head(Elements(list))
           /\ PeekQueue(list) \in StoredIn(list)
<1>1. PICK n, e, f : n = list.size /\ e = Elements(list) /\ f = Elements(m)
  OBVIOUS
<1>2. /\ WholeChain(m, Node) /\ m.size = n - 1 /\ f = Without(e, n, 1)
      /\ list.heap[list.head].data = e[1]
  BY <1>1, FirstElements DEF QueueOf, PopQueue
<1>3. n \in Nat /\ e \in [1 .. n -> Doc] /\ n # 0
  BY <1>1, StoredDocuments DEF QueueOf
<1>4. 1 \in 1 .. n
  BY <1>3
<1>5. f \in [1 .. n - 1 -> Doc] /\ Range(f) \subseteq Range(e)
  BY <1>2, <1>3, <1>4, OthersStored
<1>6. e \in Seq(Doc) /\ Len(e) = n /\ e # << >> /\ Head(e) = e[1]
  BY <1>3, <1>4
<1>7. f = Tail(e)
  <2>1. \A i \in 1 .. n - 1 : ~ (i < 1)
    OBVIOUS
  <2>2. f = [i \in 1 .. n - 1 |-> e[i + 1]]
    BY <1>2, <2>1 DEF Without
  <2>3. PICK g : g = Tail(e)
    OBVIOUS
  <2>4. g \in Seq(Doc) /\ Len(g) = n - 1 /\ \A i \in 1 .. n - 1 : g[i] = e[i + 1]
    BY <1>6, <2>3, HeadTailProperties
  <2>5. g = [i \in 1 .. n - 1 |-> g[i]]
    BY <2>4
  <2> QED
    BY <2>2, <2>3, <2>4, <2>5
<1>8. e[1] \in Range(e)
  BY <1>3, <1>4 DEF Range
<1> QED
  BY <1>1, <1>2, <1>5, <1>6, <1>7, <1>8 DEF QueueOf, StoredIn, PeekQueue
-----------------------------------------------------------------------------
(***************************************************************************)
(* The walks.                                                              *)
(***************************************************************************)

\* An index that counts no node of the list but the one that left is kept.
LEMMA IndexKept ==
    ASSUME NEW n \in Nat, n < IndexSize
    PROVE  IndexAfterMove(n) = n /\ (n + 1 < IndexSize => (n + 1) % IndexSize = n + 1)
<1>1. IndexSize \in Nat /\ IndexSize > 0
  BY ListConstants
<1>2. ((n - 1) % IndexSize) + 1 = IF n = 0 THEN IndexSize ELSE n
  BY <1>1
<1>3. IndexSize % IndexSize = 0 /\ n % IndexSize = n
  BY <1>1
<1>4. n + 1 < IndexSize => (n + 1) % IndexSize = n + 1
  BY <1>1
<1> QED
  BY <1>2, <1>3, <1>4 DEF IndexAfterMove

\* The node where a walk is, what the calls find there, and what is behind it.
LEMMA OnNode ==
    ASSUME ListsInv, Walking, current # Null, NEW k, k = index + 1
    PROVE  /\ k \in 1 .. from.size /\ index \in Nat /\ index < IndexSize
           /\ from.size \in Nat /\ from.size <= IndexSize
           /\ current = Walk(from)[k] /\ current \in DOMAIN from.heap
           /\ NthNode(from, index) = current /\ NthOrLast(from, index) = current
           /\ from.heap[current].data = Elements(from)[k]
           /\ Elements(from)[k] \in StoredIn(from) /\ Elements(from)[k] \in Doc
           /\ Elements(from)[k] \notin StoredIn(to)
           /\ NextNode(from, current) = IF k = from.size THEN Null ELSE Walk(from)[k + 1]
           /\ k # from.size => Walk(from)[k + 1] # Null
<1>1. k \in 1 .. from.size /\ index \in Nat /\ current = Walk(from)[k]
  BY DEF ListsInv, OnTheWay
<1>2. DatabaseOf(from) /\ WholeCircle(from, Node)
  BY DEF ListsInv, DatabaseOf
<1>3. from.size \in Nat /\ from.size <= IndexSize
  BY <1>2, NodesCounted, StoredDocuments
<1>4. IndexSize \in Nat
  BY ListConstants
<1>5. k - 1 = index /\ index < from.size /\ ~ (index >= from.size) /\ index < IndexSize
  BY <1>1, <1>3, <1>4
<1>6. /\ Walk(from) \in [1 .. from.size -> DOMAIN from.heap]
      /\ Elements(from)[k] = from.heap[Walk(from)[k]].data
      /\ NthNode(from, k - 1) = Walk(from)[k]
  BY <1>1, <1>2, WholeList
<1>7. NthNode(from, index) = current /\ NthOrLast(from, index) = current
  BY <1>1, <1>5, <1>6 DEF NthOrLast
<1>8. Elements(from)[k] \in StoredIn(from)
  BY <1>1, <1>2, StoredDocuments
<1>9. Elements(from)[k] \in Doc /\ Elements(from)[k] \notin StoredIn(to)
  BY <1>2, <1>8, StoredDocuments DEF ListsInv
<1>10. DOMAIN from.heap \subseteq Node /\ Null \notin DOMAIN from.heap /\ Circle(from, Walk(from))
  BY <1>2, ListConstants DEF WholeCircle
<1>11. NextNode(from, current) = IF k = from.size THEN Null ELSE Walk(from)[k + 1]
  BY <1>1, <1>10, NextNodeOf
<1>12. k # from.size => Walk(from)[k + 1] # Null
  <2>1. k # from.size => k + 1 \in 1 .. from.size
    BY <1>1, <1>3
  <2> QED
    BY <1>6, <1>10, <2>1
<1> QED
  BY <1>1, <1>3, <1>5, <1>6, <1>7, <1>8, <1>9, <1>11, <1>12

\* Either walk moves the document of the current node.
MovesCurrent ==
    /\ Walking /\ current # Null /\ from.heap[current].data \in leaving
    /\ AddToTarget(from.heap[current].data)
    /\ from' = Free(Unlink(from, current), current)
    /\ index' = index /\ current' = NextNode(from, current)
    /\ UNCHANGED <<queueVars, leaving, loop>>

LEMMA BothMove ==
    ASSUME ListsInv, MoveDocument \/ DistributeDocument
    PROVE  MovesCurrent
<1>1. Walking /\ current # Null
  BY DEF MoveDocument, DistributeDocument, Walking
<1>2. PICK k : k = index + 1
  OBVIOUS
<1>3. /\ NthOrLast(from, index) = current /\ index \in Nat /\ index < IndexSize
      /\ from.heap[current].data \in Doc
  BY <1>1, <1>2, OnNode
<1>4. CASE MoveDocument
  BY <1>1, <1>3, <1>4, IndexKept DEF MoveDocument, MovesCurrent
<1>5. CASE DistributeDocument
  <2>1. index = 0 /\ leaving = Doc
    BY <1>1, <1>5 DEF DistributeDocument, ListsInv, OnTheWay
  <2> QED
    BY <1>1, <1>3, <1>5, <2>1 DEF DistributeDocument, MovesCurrent
<1> QED
  BY <1>4, <1>5

LEMMA MoveKeepsInv ==
    ASSUME ListsInv, MovesCurrent
    PROVE  /\ ListsInv'
           /\ \E d \in StoredIn(from) \intersect leaving :
                /\ StoredIn(from)' = StoredIn(from) \ {d}
                /\ StoredIn(to)' = StoredIn(to) \union {d}
<1>1. PICK k, n, w, e, d :
        k = index + 1 /\ n = from.size /\ w = Walk(from) /\ e = Elements(from) /\ d = e[k]
  OBVIOUS
<1>2. Walking /\ current # Null
  BY DEF MovesCurrent
<1>3. /\ k \in 1 .. n /\ n \in Nat /\ current = w[k] /\ from.heap[current].data = d
      /\ index \in Nat /\ d \in StoredIn(from) /\ d \in Doc /\ d \notin StoredIn(to)
      /\ NextNode(from, current) = IF k = n THEN Null ELSE w[k + 1]
      /\ k # n => w[k + 1] # Null
  BY <1>1, <1>2, OnNode
<1>4. DatabaseOf(from) /\ DatabaseOf(to)
  BY DEF ListsInv
<1>5. PICK m : m = from'
  OBVIOUS
<1>6. m = Free(Unlink(from, Walk(from)[k]), Walk(from)[k])
  BY <1>1, <1>3, <1>5 DEF MovesCurrent
<1>7. TookOff(m, from, k)
  BY <1>1, <1>3, <1>4, <1>6, TakenOff
<1>8. /\ DatabaseOf(m) /\ m.size = n - 1 /\ StoredIn(m) = StoredIn(from) \ {d}
      /\ Walk(m) = Without(w, n, k) /\ Elements(m) = Without(e, n, k)
  BY <1>1, <1>7 DEF TookOff
<1>9. PICK x \in Node \ DOMAIN to.heap : to' = AddNth(to, 0, x, d)
  BY <1>3 DEF MovesCurrent, AddToTarget
<1>10. DatabaseOf(to') /\ StoredIn(to') = StoredIn(to) \union {d}
  BY <1>3, <1>4, <1>9, HeadStored
<1>11. queue.size = 0 /\ StoredIn(queue) = {} /\ QueueOf(queue)
  BY <1>2, StoredDocuments DEF ListsInv, Phases
<1>12. queue' = queue /\ executed' = executed /\ leaving' = leaving /\ loop' = loop /\ index' = index
  BY DEF MovesCurrent, queueVars
<1>13. StoredIn(to') \intersect (StoredIn(queue') \union StoredIn(from')) = {}
  BY <1>5, <1>8, <1>10, <1>11, <1>12 DEF ListsInv
<1>14. Phases'
  BY <1>2, <1>12 DEF ListsInv, Phases, Walking
<1>15. current' = IF k = n THEN Null ELSE w[k + 1]
  BY <1>3 DEF MovesCurrent
<1>16. OnTheWay'
  <2>1. leaving' \subseteq Doc /\ index' \in Nat /\ (loop' = "removing" => index' = 0 /\ leaving' = Doc)
    BY <1>2, <1>12 DEF ListsInv, OnTheWay
  <2>2. current' # Null => index' + 1 \in 1 .. m.size /\ current' = Walk(m)[index' + 1]
    <3> SUFFICES ASSUME k # n
                 PROVE  k \in 1 .. n - 1 /\ w[k + 1] = Walk(m)[k]
      BY <1>1, <1>8, <1>12, <1>15
    <3>1. k \in 1 .. n - 1 /\ ~ (k < k)
      BY <1>3
    <3> QED
      BY <1>8, <3>1 DEF Without
  <2>3. ASSUME NEW i \in 1 .. m.size, current' = Null \/ i <= index'
        PROVE  Elements(m)[i] \notin leaving'
    <3>1. i \in 1 .. n - 1
      BY <1>8
    <3>2. i \in 1 .. n /\ i <= index /\ i < k
      <4>1. k = n \/ i <= index
        BY <1>3, <1>12, <1>15, <2>3
      <4> QED
        BY <1>1, <1>3, <3>1, <4>1
    <3>3. Elements(m)[i] = e[i]
      BY <1>8, <3>1, <3>2 DEF Without
    <3>4. e[i] \notin leaving
      BY <1>1, <1>2, <3>2 DEF ListsInv, OnTheWay
    <3> QED
      BY <1>12, <3>3, <3>4
  <2> QED
    BY <1>5, <2>1, <2>2, <2>3 DEF OnTheWay
<1>17. ListsInv'
  BY <1>5, <1>8, <1>10, <1>11, <1>12, <1>13, <1>14, <1>16 DEF ListsInv
<1>18. d \in StoredIn(from) \intersect leaving
  BY <1>3 DEF MovesCurrent
<1> QED
  BY <1>5, <1>8, <1>10, <1>17, <1>18

LEMMA KeepKeepsInv ==
    ASSUME ListsInv, KeepDocument
    PROVE  ListsInv'
<1>1. PICK k, n, w, e : k = index + 1 /\ n = from.size /\ w = Walk(from) /\ e = Elements(from)
  OBVIOUS
<1>2. Walking /\ current # Null /\ loop = "adding"
  BY DEF KeepDocument, Walking
<1>3. /\ k \in 1 .. n /\ n \in Nat /\ n <= IndexSize /\ current = w[k] /\ from.heap[current].data = e[k]
      /\ index \in Nat /\ index < IndexSize
      /\ NextNode(from, current) = IF k = n THEN Null ELSE w[k + 1]
      /\ k # n => w[k + 1] # Null
  BY <1>1, <1>2, OnNode
<1>4. /\ queue' = queue /\ executed' = executed /\ from' = from /\ to' = to /\ leaving' = leaving
      /\ loop' = loop /\ index' = (index + 1) % IndexSize
      /\ current' = IF k = n THEN Null ELSE w[k + 1]
  BY <1>3 DEF KeepDocument, queueVars
<1>5. index' \in Nat /\ (k # n => index' = k)
  <2>1. IndexSize \in Nat /\ IndexSize # 0
    BY ListConstants
  <2>2. k # n => k < IndexSize
    BY <1>3, <2>1
  <2>3. k # n => index' = k
    BY <1>1, <1>3, <1>4, <2>2, IndexKept
  <2>4. (index + 1) % IndexSize \in Nat
    BY <1>3, <2>1
  <2> QED
    BY <1>4, <2>3, <2>4
<1>6. e[k] \notin leaving
  BY <1>3 DEF KeepDocument
<1>7. Phases'
  BY <1>2, <1>4 DEF ListsInv, Phases, Walking
<1>8. OnTheWay'
  <2>1. leaving \subseteq Doc
    BY <1>2 DEF ListsInv, OnTheWay
  <2>2. current' # Null => index' + 1 \in 1 .. n /\ current' = w[index' + 1]
    <3> SUFFICES ASSUME k # n
                 PROVE  k + 1 \in 1 .. n
      BY <1>4, <1>5
    <3> QED
      BY <1>3
  <2>3. ASSUME NEW i \in 1 .. n, current' = Null \/ i <= index'
        PROVE  e[i] \notin leaving
    <3>1. i <= k
      BY <1>3, <1>4, <1>5, <2>3
    <3>2. i = k \/ i <= index
      BY <1>1, <1>3, <3>1
    <3> QED
      BY <1>1, <1>2, <1>6, <3>2 DEF ListsInv, OnTheWay
  <2> QED
    BY <1>1, <1>2, <1>4, <1>5, <2>1, <2>2, <2>3 DEF OnTheWay
<1> QED
  BY <1>4, <1>7, <1>8 DEF ListsInv

\* loader_add_server and loader_remove_server start at the head.
LEMMA BeginKeepsInv ==
    ASSUME ListsInv, BeginAdd \/ BeginRemove
    PROVE  ListsInv'
<1>1. /\ queue' = queue /\ executed' = Nobody /\ from' = from /\ to' = to
      /\ loop' \in {"adding", "removing"} /\ loop = "draining" /\ queue.size = 0
      /\ leaving' \subseteq Doc /\ (loop' = "removing" => leaving' = Doc)
      /\ current' = from.head /\ index' = index
  BY DEF BeginAdd, BeginRemove, Drained
<1>2. index = 0
  BY <1>1 DEF ListsInv, Phases, Walking
<1>3. Phases'
  BY <1>1 DEF Phases, Walking
<1>4. PICK n, w, e : n = from.size /\ w = Walk(from) /\ e = Elements(from)
  OBVIOUS
<1>5. n \in Nat /\ from.head = IF n = 0 THEN Null ELSE w[1]
  BY <1>4, WholeList DEF ListsInv, DatabaseOf
<1>6. n # 0 => 1 \in 1 .. n
  BY <1>5
<1>7. n # 0 => w[1] # Null
  <2>1. w \in [1 .. n -> DOMAIN from.heap] /\ DOMAIN from.heap \subseteq Node
    BY <1>4, WholeList DEF ListsInv, DatabaseOf, WholeCircle
  <2> QED
    BY <1>6, <2>1, ListConstants
<1>8. \A i \in 1 .. n : ~ (i <= 0) /\ n # 0
  BY <1>5
<1>9. OnTheWay'
  BY <1>1, <1>2, <1>4, <1>5, <1>6, <1>7, <1>8 DEF OnTheWay
<1> QED
  BY <1>1, <1>3, <1>9 DEF ListsInv

\* A drained EDIT creates the document, unless it is there.
LEMMA ExecuteKeepsInv ==
    ASSUME ListsInv, ExecuteTask
    PROVE  /\ ListsInv'
           /\ executed' \in Doc \ StoredIn(to) /\ StoredIn(from)' = StoredIn(from) \union {executed'}
<1>1. PICK q, f, d : q = queue' /\ f = from' /\ d = executed'
  OBVIOUS
<1>2. /\ loop = "draining" /\ queue.size # 0 /\ d = PeekQueue(queue) /\ q = PopQueue(queue)
      /\ to' = to /\ loop' = loop /\ leaving' = leaving /\ current' = current /\ index' = index
  BY <1>1 DEF ExecuteTask, walkVars
<1>3. QueueOf(queue) /\ DatabaseOf(from) /\ DatabaseOf(to)
  BY DEF ListsInv
<1>4. QueueOf(q) /\ StoredIn(q) \subseteq StoredIn(queue) /\ d \in StoredIn(queue)
  BY <1>2, <1>3, Popped
<1>5. d \in Doc /\ d \notin StoredIn(to)
  BY <1>3, <1>4, StoredDocuments DEF ListsInv
<1>6. DatabaseOf(f) /\ StoredIn(f) = StoredIn(from) \union {d}
  <2>1. CASE d \in StoredIn(from)
    BY <1>1, <1>3, <2>1 DEF ExecuteTask
  <2>2. CASE d \notin StoredIn(from)
    <3>1. PICK x \in Node \ DOMAIN from.heap : f = AddTail(from, x, d)
      BY <1>1, <2>2 DEF ExecuteTask
    <3> QED
      BY <1>3, <1>5, <2>2, <3>1, TailStored
  <2> QED
    BY <2>1, <2>2
<1>7. StoredIn(to) \intersect (StoredIn(q) \union StoredIn(f)) = {}
  BY <1>4, <1>5, <1>6 DEF ListsInv
<1>8. Phases' /\ OnTheWay'
  BY <1>2 DEF ListsInv, Phases, OnTheWay, Walking
<1>9. ListsInv'
  BY <1>1, <1>2, <1>3, <1>4, <1>6, <1>7, <1>8 DEF ListsInv
<1> QED
  BY <1>1, <1>5, <1>6, <1>9

\* free_server takes the tasks, and then the documents, from the front.
LEMMA FreeKeepsInv ==
    ASSUME ListsInv, FreeTask \/ FreeDocument
    PROVE  /\ ListsInv'
           /\ FreeDocument => \E d \in StoredIn(from) : StoredIn(from)' = StoredIn(from) \ {d}
<1>1. PICK q, f : q = queue' /\ f = from'
  OBVIOUS
<1>2. /\ loop = "freeing" /\ executed' = executed /\ to' = to /\ loop' = loop
      /\ leaving' = leaving /\ current' = current /\ index' = index
  BY DEF FreeTask, FreeDocument, walkVars, queueVars
<1>3. QueueOf(queue) /\ DatabaseOf(from) /\ DatabaseOf(to)
  BY DEF ListsInv
<1>4. QueueOf(q) /\ StoredIn(q) \subseteq StoredIn(queue)
  <2>1. CASE FreeTask
    BY <1>1, <1>3, <2>1, Popped DEF FreeTask
  <2>2. CASE FreeDocument
    BY <1>1, <1>3, <2>2 DEF FreeDocument, queueVars
  <2> QED
    BY <2>1, <2>2
<1>5. ASSUME FreeDocument
      PROVE  DatabaseOf(f) /\ \E d \in StoredIn(from) : StoredIn(f) = StoredIn(from) \ {d}
  <2>1. from.size # 0 /\ f = Free(Unlink(from, NthOrLast(from, 0)), NthOrLast(from, 0))
    BY <1>1, <1>5 DEF FreeDocument
  <2>2. from.size \in Nat /\ 1 \in 1 .. from.size
    BY <1>3, <2>1, StoredDocuments
  <2>3. NthNode(from, 1 - 1) = Walk(from)[1]
    BY <1>3, <2>2, WholeList DEF DatabaseOf
  <2>4. NthOrLast(from, 0) = Walk(from)[1]
    BY <2>1, <2>2, <2>3 DEF NthOrLast
  <2>5. TookOff(f, from, 1)
    BY <1>3, <2>1, <2>2, <2>4, TakenOff
  <2>6. Elements(from)[1] \in StoredIn(from)
    BY <1>3, <2>2, StoredDocuments
  <2> QED
    BY <2>5, <2>6 DEF TookOff
<1>6. DatabaseOf(f) /\ StoredIn(f) \subseteq StoredIn(from)
  BY <1>1, <1>3, <1>5 DEF FreeTask
<1>7. StoredIn(to) \intersect (StoredIn(q) \union StoredIn(f)) = {}
  BY <1>4, <1>6 DEF ListsInv
<1>8. Phases' /\ OnTheWay'
  BY <1>2 DEF ListsInv, Phases, OnTheWay, Walking
<1>9. ListsInv'
  BY <1>1, <1>2, <1>3, <1>4, <1>6, <1>7, <1>8 DEF ListsInv
<1> QED
  BY <1>1, <1>5, <1>9

\* Nothing is left of a server when its lists are freed.
LEMMA FreedIsEmpty ==
    ASSUME ListsInv, FreeServer
    PROVE  queue' = EmptyList /\ from' = EmptyList
<1>1. queue.size = 0 /\ from.size = 0
  BY DEF FreeServer
<1>2. DOMAIN queue.heap = {} /\ DOMAIN from.heap = {} /\ IsList(queue) /\ IsList(from)
  BY <1>1, WholeList DEF ListsInv, QueueOf, DatabaseOf
<1>3. queue.heap = << >> /\ from.heap = << >>
  BY <1>2 DEF IsList
<1> QED
  BY <1>3 DEF FreeServer, EmptyList

LEMMA PushKeepsInv ==
    ASSUME ListsInv, NEW d \in Doc, PushTask(d)
    PROVE  ListsInv'
<1>1. PICK q : q = queue'
  OBVIOUS
<1>2. /\ loop = "none" /\ executed' = executed /\ from' = from /\ to' = to /\ loop' = loop
      /\ leaving' = leaving /\ current' = current /\ index' = index
      /\ d \notin StoredIn(to)
  BY DEF PushTask, walkVars
<1>3. QueueOf(queue)
  BY DEF ListsInv
<1>4. QueueOf(q) /\ StoredIn(q) \subseteq StoredIn(queue) \union {d}
  <2>1. CASE queue.size < TaskQueueSize
    <3>1. PICK x \in Node \ DOMAIN queue.heap : q = PushQueue(queue, x, d)
      BY <1>1, <2>1 DEF PushTask
    <3> QED
      BY <1>3, <3>1, Pushed
  <2>2. CASE ~ (queue.size < TaskQueueSize)
    BY <1>1, <1>3, <2>2 DEF PushTask
  <2> QED
    BY <2>1, <2>2
<1>5. StoredIn(to) \intersect (StoredIn(q) \union StoredIn(from)) = {}
  BY <1>2, <1>4 DEF ListsInv
<1>6. Phases' /\ OnTheWay'
  BY <1>2 DEF ListsInv, Phases, OnTheWay, Walking
<1> QED
  BY <1>1, <1>2, <1>4, <1>5, <1>6 DEF ListsInv

LEMMA RestKeepsInv ==
    ASSUME ListsInv,
           \/ BeginDrain \/ BeginFree \/ NextTarget \/ Answer \/ BeginFreeLast
           \/ EndWalk \/ FreeServer \/ UNCHANGED listVars
    PROVE  ListsInv'
<1>1. CASE BeginDrain \/ BeginFree \/ Answer \/ BeginFreeLast \/ EndWalk \/ UNCHANGED listVars
  <2>1. queue' = queue /\ from' = from /\ to' = to
    BY <1>1 DEF BeginDrain, BeginFree, Answer, BeginFreeLast, Drained, EndWalk, listVars, queueVars, walkVars
  <2>2. Phases' /\ OnTheWay'
    <3>1. CASE BeginDrain \/ BeginFree \/ Answer \/ BeginFreeLast
      BY <3>1 DEF BeginDrain, BeginFree, Answer, BeginFreeLast, Drained, queueVars, walkVars,
                  ListsInv, Phases, OnTheWay, Walking
    <3>2. CASE EndWalk
      BY <3>2 DEF EndWalk, queueVars, ListsInv, Phases, OnTheWay, Walking
    <3>3. CASE UNCHANGED listVars
      BY <3>3 DEF listVars, queueVars, walkVars, ListsInv, Phases, OnTheWay, Walking
    <3> QED
      BY <1>1, <3>1, <3>2, <3>3
  <2> QED
    BY <2>1, <2>2 DEF ListsInv
<1>2. CASE NextTarget
  <2>1. DatabaseOf(to') /\ StoredIn(to') = {}
    BY <1>2, EmptyStored DEF NextTarget
  <2>2. /\ queue' = queue /\ executed' = executed /\ from' = from /\ loop' = loop
        /\ leaving' = leaving /\ current' = current /\ index' = index
    BY <1>2 DEF NextTarget, queueVars, walkVars
  <2>3. Phases' /\ OnTheWay'
    BY <2>2 DEF ListsInv, Phases, OnTheWay, Walking
  <2> QED
    BY <2>1, <2>2, <2>3 DEF ListsInv
<1>3. CASE FreeServer
  <2>1. QueueOf(queue') /\ DatabaseOf(from') /\ StoredIn(queue') = {} /\ StoredIn(from') = {}
    BY <1>3, FreedIsEmpty, EmptyStored
  <2>2. /\ executed' = executed /\ to' = to /\ loop = "freeing" /\ loop' = "none"
        /\ leaving' = leaving /\ current' = current /\ index' = index
    BY <1>3 DEF FreeServer, walkVars
  <2>3. Phases' /\ OnTheWay'
    BY <2>2 DEF ListsInv, Phases, OnTheWay, Walking
  <2> QED
    BY <2>1, <2>2, <2>3 DEF ListsInv
<1> QED
  BY <1>1, <1>2, <1>3

LEMMA InitKeepsInv ==
    ASSUME Init
    PROVE  ListsInv
<1>1. /\ QueueOf(queue) /\ DatabaseOf(from) /\ DatabaseOf(to)
      /\ StoredIn(queue) = {} /\ StoredIn(from) = {} /\ StoredIn(to) = {}
  BY EmptyStored DEF Init
<1>2. Phases /\ OnTheWay
  BY DEF Init, Phases, OnTheWay, Walking
<1> QED
  BY <1>1, <1>2 DEF ListsInv

\* The inductive invariant holds, whatever the loops take off the lists.
THEOREM ListsInvariant == Spec => []ListsInv
<1>1. Init => ListsInv
  BY InitKeepsInv
<1>2. ListsInv /\ [Next]_listVars => ListsInv'
  <2> SUFFICES ASSUME ListsInv, [Next]_listVars
               PROVE  ListsInv'
    OBVIOUS
  <2>1. CASE \E d \in Doc : PushTask(d)
    BY <2>1, PushKeepsInv
  <2>2. CASE ExecuteTask
    BY <2>2, ExecuteKeepsInv
  <2>3. CASE BeginAdd \/ BeginRemove
    BY <2>3, BeginKeepsInv
  <2>4. CASE MoveDocument \/ DistributeDocument
    <3>1. MovesCurrent
      BY <2>4, BothMove
    <3> QED
      BY <3>1, MoveKeepsInv
  <2>5. CASE KeepDocument
    BY <2>5, KeepKeepsInv
  <2>6. CASE FreeTask \/ FreeDocument
    BY <2>6, FreeKeepsInv
  <2>7. CASE \/ BeginDrain \/ BeginFree \/ NextTarget \/ Answer \/ BeginFreeLast
             \/ EndWalk \/ FreeServer \/ UNCHANGED listVars
    BY <2>7, RestKeepsInv
  <2> QED
    BY <2>1, <2>2, <2>3, <2>4, <2>5, <2>6, <2>7 DEF Next, Progress
<1> QED
  BY <1>1, <1>2, PTL DEF Spec
-----------------------------------------------------------------------------
(***************************************************************************)
(* The properties that the run checks on three documents.                  *)
(***************************************************************************)

\* ListsIntact for every number of documents: the loops neither free a linked
\* node, nor leave one behind, nor break the queue or a database.
THEOREM ListsStayIntact == Spec => []ListsIntact
<1>1. ListsInv => ListsIntact
  <2> SUFFICES ASSUME ListsInv
               PROVE  ListsIntact
    OBVIOUS
  <2>1. Chain(queue, Walk(queue)) /\ Owns(queue, Walk(queue))
    BY DEF ListsInv, QueueOf, WholeChain
  <2>2. \A list : DatabaseOf(list) => Circle(list, Walk(list)) /\ Owns(list, Walk(list))
    BY DEF DatabaseOf, WholeCircle
  <2>3. IsChain(queue)
    BY <2>1, ChainIsChain
  <2>4. IsRing(from) /\ IsRing(to)
    BY <2>2, CircleIsRing DEF ListsInv
  <2> QED
    BY <2>3, <2>4 DEF ListsIntact
<1> QED
  BY <1>1, ListsInvariant, PTL

\* IndexNamesCurrent for every number of documents, and every set of them that
\* leaves: loader_add_server removes the node whose document it copied, though
\* it looks the node up by an index that ran below 0 at the head.
THEOREM IndexStaysRight == Spec => []IndexNamesCurrent
<1>1. ListsInv => IndexNamesCurrent
  <2> SUFFICES ASSUME ListsInv, loop = "adding", current # Null
               PROVE  current \in DOMAIN from.heap /\ index < from.size /\ NthNode(from, index) = current
    BY DEF IndexNamesCurrent
  <2>1. PICK k : k = index + 1
    OBVIOUS
  <2>2. /\ k \in 1 .. from.size /\ index \in Nat /\ from.size \in Nat
        /\ current \in DOMAIN from.heap /\ NthNode(from, index) = current
    BY <2>1, OnNode DEF Walking
  <2> QED
    BY <2>1, <2>2
<1> QED
  BY <1>1, ListsInvariant, PTL

\* NobodyTwice for every number of documents: a document moves, and an EDIT
\* creates it, without it being stored a second time, here or at the target.
THEOREM NobodyStoredTwice == Spec => []NobodyTwice
<1>1. ListsInv => NobodyTwice
  <2> SUFFICES ASSUME ListsInv
               PROVE  NobodyTwice
    OBVIOUS
  <2>1. PICK n, m, e, f : n = from.size /\ m = to.size /\ e = Elements(from) /\ f = Elements(to)
    OBVIOUS
  <2>2. /\ n \in Nat /\ e \in [1 .. n -> Doc] /\ IsInjective(e)
        /\ m \in Nat /\ f \in [1 .. m -> Doc] /\ IsInjective(f)
        /\ StoredIn(from) = Range(e) /\ StoredIn(to) = Range(f)
    BY <2>1, StoredDocuments DEF ListsInv, DatabaseOf
  <2>3. Range(e) \intersect Range(f) = {}
    BY <2>2 DEF ListsInv
  <2>4. \A i \in 1 .. n, j \in 1 .. m : e[i] # f[j]
    BY <2>2, <2>3 DEF Range
  <2>5. e \in Seq(Doc) /\ f \in Seq(Doc) /\ Len(e) = n /\ Len(f) = m
    BY <2>2
  <2>6. PICK g : g = e \o f
    OBVIOUS
  <2>7. /\ DOMAIN g = 1 .. n + m
        /\ \A i \in 1 .. n + m : g[i] = IF i <= n THEN e[i] ELSE f[i - n]
    BY <2>5, <2>6, ConcatProperties
  <2>8. ASSUME NEW i \in 1 .. n + m, NEW j \in 1 .. n + m, g[i] = g[j]
        PROVE  i = j
    <3>1. \A l \in 1 .. n + m : (l <= n => l \in 1 .. n) /\ (~ (l <= n) => l - n \in 1 .. m)
      BY <2>2
    <3>2. CASE i <= n /\ j <= n
      BY <2>2, <2>7, <2>8, <3>1, <3>2 DEF IsInjective
    <3>3. CASE ~ (i <= n) /\ ~ (j <= n)
      <4>1. i - n \in 1 .. m /\ j - n \in 1 .. m /\ f[i - n] = f[j - n]
        BY <2>7, <2>8, <3>1, <3>3
      <4>2. i - n = j - n
        BY <2>2, <4>1 DEF IsInjective
      <4> QED
        BY <2>2, <4>2
    <3>4. CASE (i <= n) # (j <= n)
      BY <2>4, <2>7, <2>8, <3>1, <3>4
    <3> QED
      BY <3>2, <3>3, <3>4
  <2> QED
    BY <2>1, <2>6, <2>7, <2>8 DEF NobodyTwice, IsInjective
<1> QED
  BY <1>1, ListsInvariant, PTL

\* LoopsAdvance: no iteration leaves as much to do as there was before it.
THEOREM EachLoopAdvances == Spec => LoopsAdvance
<1>1. ListsInv /\ [Next]_listVars =>
        [loop # "none" /\ loop' = loop =>
            \/ queue'.size < queue.size
            \/ queue' = queue /\ current # Null /\ current' = Null
            \/ queue' = queue /\ from'.size - index' < from.size - index]_listVars
  <2> SUFFICES ASSUME ListsInv, Next, loop # "none", loop' = loop,
                      ~ (queue'.size < queue.size),
                      ~ (queue' = queue /\ current # Null /\ current' = Null)
               PROVE  queue' = queue /\ from'.size - index' < from.size - index
    OBVIOUS
  <2>1. QueueOf(queue) /\ DatabaseOf(from) /\ from.size \in Nat /\ queue.size \in Nat /\ index \in Nat
    BY StoredDocuments DEF ListsInv, QueueOf, DatabaseOf, Phases, OnTheWay
  <2>2. ASSUME queue.size # 0, queue' = PopQueue(queue)
        PROVE  FALSE
    <3>1. queue'.size = queue.size - 1
      BY <2>1, <2>2, FirstElements DEF QueueOf, PopQueue
    <3> QED
      BY <2>1, <3>1
  <2>3. CASE ExecuteTask \/ FreeTask
    BY <2>2, <2>3 DEF ExecuteTask, FreeTask
  <2>4. CASE MoveDocument \/ DistributeDocument
    <3>1. MovesCurrent
      BY <2>4, BothMove
    <3>2. PICK k : k = index + 1
      OBVIOUS
    <3>3. k \in 1 .. from.size /\ current = Walk(from)[k]
      BY <3>1, <3>2, OnNode DEF MovesCurrent
    <3>4. TookOff(from', from, k)
      BY <2>1, <3>1, <3>3, TakenOff DEF MovesCurrent
    <3>5. from'.size = from.size - 1 /\ queue' = queue /\ index' = index
      BY <3>1, <3>4 DEF TookOff, MovesCurrent, queueVars
    <3> QED
      BY <2>1, <3>5
  <2>5. CASE KeepDocument
    <3>1. PICK k : k = index + 1
      OBVIOUS
    <3>2. Walking /\ current # Null /\ queue' = queue /\ from' = from
      BY <2>5 DEF KeepDocument, Walking, queueVars
    <3>3. /\ k \in 1 .. from.size /\ from.size <= IndexSize /\ index < IndexSize
          /\ NextNode(from, current) = IF k = from.size THEN Null ELSE Walk(from)[k + 1]
      BY <3>1, <3>2, OnNode
    <3>4. k # from.size /\ index' = (index + 1) % IndexSize
      BY <2>5, <3>2, <3>3 DEF KeepDocument
    <3>5. IndexSize \in Nat
      BY ListConstants
    <3>6. index + 1 < IndexSize
      BY <2>1, <3>1, <3>3, <3>4, <3>5
    <3>7. (index + 1) % IndexSize = index + 1
      BY <2>1, <3>3, <3>6, IndexKept
    <3> QED
      BY <2>1, <3>2, <3>4, <3>7
  <2>6. CASE FreeDocument
    <3>1. from.size # 0 /\ from' = Free(Unlink(from, NthOrLast(from, 0)), NthOrLast(from, 0))
      BY <2>6 DEF FreeDocument
    <3>2. 1 \in 1 .. from.size
      BY <2>1, <3>1
    <3>3. NthNode(from, 1 - 1) = Walk(from)[1]
      BY <2>1, <3>2, WholeList DEF DatabaseOf
    <3>4. NthOrLast(from, 0) = Walk(from)[1]
      BY <2>1, <3>1, <3>3 DEF NthOrLast
    <3>5. TookOff(from', from, 1)
      BY <2>1, <3>1, <3>2, <3>4, TakenOff
    <3>6. from'.size = from.size - 1 /\ queue' = queue /\ index' = index
      BY <2>6, <3>5 DEF TookOff, FreeDocument, queueVars, walkVars
    <3> QED
      BY <2>1, <3>6
  <2>7. ~ (\/ \E d \in Doc : PushTask(d)
           \/ BeginDrain \/ BeginFree \/ NextTarget \/ Answer \/ BeginAdd \/ BeginRemove
           \/ BeginFreeLast \/ EndWalk \/ FreeServer)
    BY DEF PushTask, BeginDrain, BeginFree, NextTarget, Answer, BeginAdd, BeginRemove, BeginFreeLast,
           Drained, EndWalk, FreeServer
  <2> QED
    BY <2>3, <2>4, <2>5, <2>6, <2>7 DEF Next, Progress
<1> QED
  BY <1>1, ListsInvariant, PTL DEF Spec, LoopsAdvance
-----------------------------------------------------------------------------
(***************************************************************************)
(* The lists implement the sequence and the sets that stand for them.      *)
(***************************************************************************)
QueueLoop == IF loop \in {"draining", "freeing"} THEN loop ELSE "none"

LEMMA TasksAreQueued ==
    ASSUME ListsInv
    PROVE  /\ Elements(queue) \in Seq(Doc) /\ Len(Elements(queue)) = queue.size
           /\ queue.size = 0 <=> Elements(queue) = << >>
<1>1. PICK n, e : n = queue.size /\ e = Elements(queue)
  OBVIOUS
<1>2. n \in Nat /\ e \in [1 .. n -> Doc]
  BY <1>1, StoredDocuments DEF ListsInv, QueueOf
<1>3. e \in Seq(Doc) /\ Len(e) = n
  BY <1>2
<1>4. n = 0 <=> e = << >>
  BY <1>3, EmptySeq
<1> QED
  BY <1>1, <1>3, <1>4

\* Each step of the linked list is one of the sequence, or leaves it alone.
LEMMA QueueStep ==
    ASSUME ListsInv, ListsInv', [Next]_listVars
    PROVE  [Queue!QueueNext]_(Queue!queueVars)
<1> USE DEF Queue!QueueNext, Queue!queueVars
<1>1. ASSUME NEW d \in Doc, PushTask(d)
      PROVE  Queue!Push(d)
  <2>1. loop = "none" /\ loop' = "none" /\ executed' = Nobody
    BY <1>1 DEF PushTask, ListsInv, Phases
  <2>2. Len(Elements(queue)) = queue.size
    BY TasksAreQueued
  <2>3. Elements(queue)' = IF queue.size < TaskQueueSize THEN Append(Elements(queue), d) ELSE Elements(queue)
    <3>1. CASE queue.size < TaskQueueSize
      <4>1. PICK x \in Node \ DOMAIN queue.heap : queue' = PushQueue(queue, x, d)
        BY <1>1, <3>1 DEF PushTask
      <4>2. Elements(queue') = Append(Elements(queue), d)
        BY <4>1, Pushed DEF ListsInv
      <4> QED
        BY <3>1, <4>2
    <3>2. CASE ~ (queue.size < TaskQueueSize)
      BY <1>1, <3>2 DEF PushTask
    <3> QED
      BY <3>1, <3>2
  <2> QED
    BY <2>1, <2>2, <2>3 DEF Queue!Push
<1>2. ASSUME ExecuteTask \/ FreeTask
      PROVE  Queue!Take
  <2>1. /\ loop \in {"draining", "freeing"} /\ loop' = loop
        /\ queue.size # 0 /\ queue' = PopQueue(queue)
        /\ executed' = IF loop = "draining" THEN PeekQueue(queue) ELSE Nobody
    BY <1>2 DEF ExecuteTask, FreeTask, ListsInv, Phases
  <2>2. /\ Elements(queue) # << >> /\ Elements(queue') = Tail(Elements(queue))
        /\ PeekQueue(queue) = Head(Elements(queue))
    BY <2>1, Popped DEF ListsInv
  <2> QED
    BY <2>1, <2>2 DEF Queue!Take
<1>3. ASSUME BeginDrain \/ BeginFree
      PROVE  Queue!Enter(loop')
  BY <1>3 DEF BeginDrain, BeginFree, queueVars, ListsInv, Phases, Queue!Enter
<1>4. ASSUME Answer \/ BeginAdd \/ BeginRemove \/ BeginFreeLast
      PROVE  Queue!Leave
  <2>1. /\ loop = "draining" /\ queue.size = 0 /\ queue' = queue /\ executed' = Nobody
        /\ loop' \in {"none", "adding", "removing", "freeing"}
    BY <1>4 DEF Answer, BeginAdd, BeginRemove, BeginFreeLast, Drained
  <2> QED
    BY <2>1, TasksAreQueued DEF Queue!Leave
<1>5. ASSUME EndWalk
      PROVE  [Queue!QueueNext]_(Queue!queueVars)
  <2>1. /\ loop \in {"adding", "removing"} /\ queue' = queue /\ executed' = executed /\ executed = Nobody
        /\ loop' = IF loop = "removing" THEN "freeing" ELSE "none"
    BY <1>5 DEF EndWalk, queueVars, ListsInv, Phases
  <2>2. CASE loop = "removing"
    <3>1. Queue!Enter("freeing")
      BY <2>1, <2>2 DEF Queue!Enter
    <3> QED
      BY <3>1
  <2>3. CASE loop = "adding"
    BY <2>1, <2>3
  <2> QED
    BY <2>1, <2>2, <2>3
<1>6. ASSUME FreeServer
      PROVE  Queue!Leave
  <2>1. queue.size = 0 /\ loop = "freeing" /\ loop' = "none" /\ executed' = executed /\ executed = Nobody
    BY <1>6 DEF FreeServer, ListsInv, Phases
  <2>2. Elements(queue') = << >> /\ Elements(queue) = << >>
    BY <1>6, <2>1, FreedIsEmpty, EmptyStored, TasksAreQueued
  <2> QED
    BY <2>1, <2>2 DEF Queue!Leave
<1>7. ASSUME \/ MoveDocument \/ KeepDocument \/ DistributeDocument \/ FreeDocument \/ NextTarget
             \/ UNCHANGED listVars
      PROVE  UNCHANGED Queue!queueVars
  <2>1. queue' = queue /\ executed' = executed /\ loop' = loop
    BY <1>7 DEF MoveDocument, KeepDocument, DistributeDocument, FreeDocument, NextTarget, listVars, queueVars
  <2> QED
    BY <2>1
<1>8. ASSUME BeginDrain \/ BeginFree
      PROVE  Queue!Enter("draining") \/ Queue!Enter("freeing")
  <2>1. loop' \in {"draining", "freeing"}
    BY <1>8 DEF BeginDrain, BeginFree
  <2> QED
    BY <1>3, <1>8, <2>1
<1> QED
  BY <1>1, <1>2, <1>4, <1>5, <1>6, <1>7, <1>8 DEF Next, Progress

\* ImplementsBoundedQueue for every TASK_QUEUE_SIZE: the linked list is the
\* sequence by which Server models it.
THEOREM ListIsQueue == Spec => ImplementsBoundedQueue
<1>1. Init => Queue!QueueInit
  <2> SUFFICES ASSUME Init
               PROVE  Queue!QueueInit
    OBVIOUS
  <2>1. Elements(queue) = << >> /\ executed = Nobody /\ loop = "none"
    BY EmptyStored DEF Init
  <2> QED
    BY <2>1 DEF Queue!QueueInit
<1>2. ListsInv /\ ListsInv' /\ [Next]_listVars => [Queue!QueueNext]_(Queue!queueVars)
  BY QueueStep
<1> QED
  BY <1>1, <1>2, ListsInvariant, PTL DEF Spec, ImplementsBoundedQueue, Queue!QueueSpec

\* Each step of the walks over the lists is one on the sets of documents.
LEMMA MovesStep ==
    ASSUME ListsInv, ListsInv', [Next]_listVars
    PROVE  [Moves!MovesNext]_(Moves!movesVars)
<1> USE DEF Moves!MovesNext, Moves!movesVars
<1>1. ASSUME ExecuteTask
      PROVE  [Moves!MovesNext]_(Moves!movesVars)
  <2>1. /\ loop = "draining" /\ loop' = loop /\ to' = to /\ leaving' = leaving
        /\ executed' \in Doc \ StoredIn(to) /\ StoredIn(from)' = StoredIn(from) \union {executed'}
    BY <1>1, ExecuteKeepsInv DEF ExecuteTask, walkVars
  <2>2. PICK d : d = executed'
    OBVIOUS
  <2>3. CASE d \in StoredIn(from)
    BY <2>1, <2>2, <2>3
  <2>4. CASE d \notin StoredIn(from)
    <3>1. Moves!Create(d)
      BY <2>1, <2>2, <2>4 DEF Moves!Create
    <3> QED
      BY <2>1, <2>2, <3>1
  <2> QED
    BY <2>3, <2>4
<1>2. ASSUME BeginAdd \/ BeginRemove
      PROVE  Moves!Begin
  <2>1. /\ loop = "draining" /\ loop' \in {"adding", "removing"} /\ leaving' \in SUBSET Doc
        /\ from' = from /\ to' = to
    BY <1>2 DEF BeginAdd, BeginRemove, Drained
  <2> QED
    BY <2>1 DEF Moves!Begin
<1>3. ASSUME MoveDocument \/ DistributeDocument
      PROVE  \E d \in Doc : Moves!Move(d)
  <2>1. MovesCurrent
    BY <1>3, BothMove
  <2>2. PICK d \in StoredIn(from) \intersect leaving :
            StoredIn(from)' = StoredIn(from) \ {d} /\ StoredIn(to)' = StoredIn(to) \union {d}
    BY <2>1, MoveKeepsInv
  <2>3. d \in Doc
    BY <2>2, StoredDocuments DEF ListsInv
  <2>4. loop \in {"adding", "removing"} /\ loop' = loop /\ leaving' = leaving
    BY <2>1 DEF MovesCurrent, Walking
  <2>5. Moves!Move(d)
    BY <2>2, <2>4 DEF Moves!Move
  <2> QED
    BY <2>3, <2>5
<1>4. ASSUME EndWalk
      PROVE  Moves!End
  <2>1. /\ loop \in {"adding", "removing"} /\ current = Null /\ loop' \in {"none", "freeing"}
        /\ leaving' = {} /\ from' = from /\ to' = to
    BY <1>4 DEF EndWalk
  <2>2. \A i \in 1 .. from.size : Elements(from)[i] \notin leaving
    BY <2>1 DEF ListsInv, OnTheWay, Walking
  <2>3. StoredIn(from) = {Elements(from)[i] : i \in 1 .. from.size}
    BY DEF ListsInv, DatabaseOf, StoredIn, Range
  <2>4. StoredIn(from) \intersect leaving = {}
    BY <2>2, <2>3
  <2> QED
    BY <2>1, <2>4 DEF Moves!End
<1>5. ASSUME FreeDocument
      PROVE  \E d \in Doc : Moves!Free(d)
  <2>1. PICK d \in StoredIn(from) : StoredIn(from)' = StoredIn(from) \ {d}
    BY <1>5, FreeKeepsInv
  <2>2. d \in Doc
    BY <2>1, StoredDocuments DEF ListsInv
  <2>3. loop = "freeing" /\ loop' = loop /\ to' = to /\ leaving' = leaving
    BY <1>5 DEF FreeDocument, walkVars
  <2>4. Moves!Free(d)
    BY <2>1, <2>3 DEF Moves!Free
  <2> QED
    BY <2>2, <2>4
<1>6. ASSUME FreeServer
      PROVE  UNCHANGED Moves!movesVars
  <2>1. loop = "freeing" /\ loop' = "none" /\ to' = to /\ leaving' = leaving /\ from.size = 0
    BY <1>6 DEF FreeServer, walkVars
  <2>2. StoredIn(from') = {} /\ StoredIn(from) = {}
    BY <1>6, <2>1, FreedIsEmpty, EmptyStored, StoredDocuments DEF ListsInv
  <2> QED
    BY <2>1, <2>2
<1>7. ASSUME NextTarget
      PROVE  Moves!Renew
  <2>1. loop = "none" /\ loop' = loop /\ from' = from /\ leaving' = leaving
    BY <1>7 DEF NextTarget, walkVars
  <2>2. StoredIn(to') = {}
    BY <1>7, EmptyStored DEF NextTarget
  <2> QED
    BY <2>1, <2>2 DEF Moves!Renew
<1>8. ASSUME \/ \E d \in Doc : PushTask(d)
             \/ BeginDrain \/ BeginFree \/ Answer \/ BeginFreeLast \/ KeepDocument \/ FreeTask
             \/ UNCHANGED listVars
      PROVE  UNCHANGED Moves!movesVars
  <2>1. from' = from /\ to' = to /\ leaving' = leaving
    BY <1>8 DEF PushTask, BeginDrain, BeginFree, Answer, BeginFreeLast, Drained, KeepDocument, FreeTask,
                listVars, walkVars, queueVars
  <2>2. loop' = loop \/ {loop, loop'} \subseteq {"none", "draining", "freeing"}
    BY <1>8 DEF PushTask, BeginDrain, BeginFree, Answer, BeginFreeLast, Drained, KeepDocument, FreeTask, listVars
  <2> QED
    BY <2>1, <2>2
<1> QED
  BY <1>1, <1>2, <1>3, <1>4, <1>5, <1>6, <1>7, <1>8 DEF Next, Progress

\* ImplementsMoves for every number of documents: the walks over the lists
\* move the documents that are to leave, every one of them and no other, as
\* DistributedDatabase has it.
THEOREM WalksMoveSets == Spec => ImplementsMoves
<1>1. Init => Moves!MovesInit
  <2> SUFFICES ASSUME Init
               PROVE  Moves!MovesInit
    OBVIOUS
  <2>1. StoredIn(from) = {} /\ StoredIn(to) = {} /\ leaving = {} /\ loop = "none"
    BY EmptyStored DEF Init
  <2> QED
    BY <2>1 DEF Moves!MovesInit
<1>2. ListsInv /\ ListsInv' /\ [Next]_listVars => [Moves!MovesNext]_(Moves!movesVars)
  BY MovesStep
<1> QED
  BY <1>1, <1>2, ListsInvariant, PTL DEF Spec, ImplementsMoves, Moves!MovesSpec
=============================================================================
