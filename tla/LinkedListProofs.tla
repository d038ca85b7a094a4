-------------------------- MODULE LinkedListProofs --------------------------
(***************************************************************************)
(* What the functions of linked_list.c make of a list, told by the         *)
(* sequence of its nodes: a list that is a circle, or a chain, of the      *)
(* nodes of a sequence is after every call one of the nodes of another     *)
(* sequence, which the lemma about the call names.                         *)
(***************************************************************************)
EXTENDS LinkedList, Sequences, SequenceTheorems, WellFoundedInduction, TLAPS

\* A set of natural numbers has a least one.
LEMMA LeastNumber ==
    ASSUME NEW T \in SUBSET Nat, T # {}
    PROVE  \E n \in T : \A m \in T : n <= m
<1> DEFINE R == {ss \in Nat \X Nat : ss[1] < ss[2]}
<1>1. IsWellFoundedOn(R, Nat)
  BY NatLessThanWellFounded DEF OpToRel
<1> HIDE DEF R
<1>2. PICK n \in T : \A m \in T : ~ (<<m, n>> \in R)
  BY <1>1, WFMin
<1>3. \A m \in T : ~ (m < n)
  BY <1>2 DEF R
<1> QED
  BY <1>3

(***************************************************************************)
(* The walk along next pointers.  NthNode is a recursive function, so it   *)
(* has to be shown that there is one: its first n values are those of any  *)
(* function that obeys the recursion that far.                             *)
(***************************************************************************)
Obeys(heap, first, g, n) ==
    /\ g[0] = first
    /\ \A i \in 0 .. n - 1 : g[i + 1] = heap[g[i]].next

LEMMA ObeysUnique ==
    ASSUME NEW heap, NEW first, NEW n \in Nat, NEW g, Obeys(heap, first, g, n),
           NEW m \in Nat, NEW h, Obeys(heap, first, h, m), n <= m
    PROVE  \A i \in 0 .. n : g[i] = h[i]
<1> DEFINE T == {i \in 0 .. n : g[i] # h[i]}
<1> SUFFICES ASSUME T # {}
             PROVE  FALSE
  OBVIOUS
<1>1. PICK i \in T : \A j \in T : i <= j
  <2>1. T \in SUBSET Nat
    OBVIOUS
  <2> HIDE DEF T
  <2> QED
    BY <2>1, LeastNumber
<1>2. i # 0
  BY <1>1 DEF Obeys
<1>3. i - 1 \in 0 .. n - 1 /\ i - 1 \in 0 .. m - 1 /\ i - 1 \notin T
  BY <1>1, <1>2
<1>4. g[i - 1] = h[i - 1]
  BY <1>3
<1>5. (i - 1) + 1 = i
  BY <1>1
<1>6. g[i] = heap[g[i - 1]].next /\ h[i] = heap[h[i - 1]].next
  BY <1>3, <1>5 DEF Obeys
<1> QED
  BY <1>1, <1>4, <1>6

LEMMA ObeysExists ==
    ASSUME NEW heap, NEW first
    PROVE  \A n \in Nat : \E g : Obeys(heap, first, g, n)
<1> DEFINE T == {n \in Nat : ~ \E g : Obeys(heap, first, g, n)}
<1> SUFFICES ASSUME T # {}
             PROVE  FALSE
  OBVIOUS
<1>1. PICK n \in T : \A j \in T : n <= j
  <2>1. T \in SUBSET Nat
    OBVIOUS
  <2> HIDE DEF T
  <2> QED
    BY <2>1, LeastNumber
<1>2. n # 0
  <2>1. Obeys(heap, first, [i \in Nat |-> first], 0)
    BY DEF Obeys
  <2> QED
    BY <1>1, <2>1
<1>3. n - 1 \in Nat /\ n - 1 \notin T
  BY <1>1, <1>2
<1>4. PICK g : Obeys(heap, first, g, n - 1)
  BY <1>3
<1>5. PICK h : h = [i \in Nat |-> IF i = n THEN heap[g[n - 1]].next ELSE g[i]]
  OBVIOUS
<1>6. Obeys(heap, first, h, n)
  <2>1. h[0] = first
    BY <1>2, <1>4, <1>5 DEF Obeys
  <2>2. ASSUME NEW i \in 0 .. n - 1
        PROVE  h[i + 1] = heap[h[i]].next
    <3>1. h[i] = g[i] /\ i \in Nat /\ i + 1 \in Nat /\ n \in Nat
      BY <1>5
    <3>2. CASE i = n - 1
      BY <1>5, <3>1, <3>2
    <3>3. CASE i # n - 1
      <4>1. i \in 0 .. (n - 1) - 1 /\ i + 1 # n
        BY <3>1, <3>3
      <4> QED
        BY <1>4, <1>5, <3>1, <4>1 DEF Obeys
    <3> QED
      BY <3>2, <3>3
  <2> QED
    BY <2>1, <2>2 DEF Obeys
<1> QED
  BY <1>1, <1>6

\* dll_get_nth_node: node 0 is the head, and the next one is behind each.
LEMMA NthNodeStep ==
    ASSUME NEW list
    PROVE  /\ NthNode(list, 0) = list.head
           /\ \A n \in Nat : NthNode(list, n + 1) = list.heap[NthNode(list, n)].next
<1> DEFINE heap == list.heap
           first == list.head
           Some(n) == CHOOSE g : Obeys(heap, first, g, n)
<1>1. PICK f : f = [n \in Nat |-> Some(n)[n]]
  OBVIOUS
<1>2. \A n \in Nat : Obeys(heap, first, Some(n), n)
  BY ObeysExists
<1>3. f[0] = first
  BY <1>1, <1>2 DEF Obeys
<1>4. ASSUME NEW n \in Nat
      PROVE  f[n + 1] = heap[f[n]].next
  <2>1. PICK g, h : g = Some(n) /\ h = Some(n + 1) /\ Obeys(heap, first, g, n) /\ Obeys(heap, first, h, n + 1)
    BY <1>2
  <2>2. n \in 0 .. n /\ n <= n + 1 /\ n + 1 \in Nat /\ n \in 0 .. (n + 1) - 1
    OBVIOUS
  <2>3. g[n] = h[n]
    BY <2>1, <2>2, ObeysUnique
  <2>4. h[n + 1] = heap[h[n]].next
    BY <2>1, <2>2 DEF Obeys
  <2>5. f[n] = g[n] /\ f[n + 1] = h[n + 1]
    BY <1>1, <2>1, <2>2
  <2> QED
    BY <2>3, <2>4, <2>5
<1>5. f = [i \in Nat |-> IF i = 0 THEN list.head ELSE list.heap[f[i - 1]].next]
  <2>1. ASSUME NEW i \in Nat
        PROVE  f[i] = IF i = 0 THEN list.head ELSE list.heap[f[i - 1]].next
    <3>1. i = 0 \/ (i - 1 \in Nat /\ (i - 1) + 1 = i)
      OBVIOUS
    <3> QED
      BY <1>3, <1>4, <3>1
  <2> QED
    BY <1>1, <2>1
<1> DEFINE node == CHOOSE g : g = [i \in Nat |-> IF i = 0 THEN list.head ELSE list.heap[g[i - 1]].next]
<1>6. node = [i \in Nat |-> IF i = 0 THEN list.head ELSE list.heap[node[i - 1]].next]
  BY <1>5
<1>7. \A n : NthNode(list, n) = node[n]
  BY DEF NthNode
<1> HIDE DEF node
<1>8. node[0] = list.head
  BY <1>6
<1>9. ASSUME NEW n \in Nat
      PROVE  node[n + 1] = list.heap[node[n]].next
  <2>1. n + 1 \in Nat /\ n + 1 # 0 /\ (n + 1) - 1 = n
    OBVIOUS
  <2> QED
    BY <1>6, <2>1
<1> QED
  BY <1>7, <1>8, <1>9

-----------------------------------------------------------------------------
(***************************************************************************)
(* Lists by the sequence of their nodes.                                   *)
(***************************************************************************)
ListFields == {"heap", "head", "size"}

\* A record with the fields of a list; it may have more.
IsList(list) ==
    /\ list = [f \in DOMAIN list |-> list[f]]
    /\ ListFields \subseteq DOMAIN list
    /\ list.heap = [x \in DOMAIN list.heap |-> list.heap[x]]
    /\ list.size \in Nat

IsDoubleNode(node) == node = [data |-> node.data, prev |-> node.prev, next |-> node.next]

IsSingleNode(node) == node = [data |-> node.data, next |-> node.next]

\* s names as many nodes as the list has, each once ...
Names(list, s) ==
    /\ s \in [1 .. list.size -> DOMAIN list.heap]
    /\ \A i, j \in 1 .. list.size : s[i] = s[j] => i = j

\* ... and there are no others: none was lost when it was taken off a list.
Owns(list, s) == \A x \in DOMAIN list.heap : \E i \in 1 .. list.size : s[i] = x

\* The nodes s, from the head of the list to its last node, in a circle.
Circle(list, s) ==
    /\ IsList(list) /\ Names(list, s)
    /\ list.head = IF list.size = 0 THEN Null ELSE s[1]
    /\ \A x \in DOMAIN list.heap : IsDoubleNode(list.heap[x])
    /\ \A i \in 1 .. list.size :
        /\ list.heap[s[i]].prev = s[IF i = 1 THEN list.size ELSE i - 1]
        /\ list.heap[s[i]].next = s[IF i = list.size THEN 1 ELSE i + 1]

\* The nodes s, each before the next, and Null behind the last.
Chain(list, s) ==
    /\ IsList(list) /\ Names(list, s)
    /\ list.head = IF list.size = 0 THEN Null ELSE s[1]
    /\ \A x \in DOMAIN list.heap : IsSingleNode(list.heap[x])
    /\ \A i \in 1 .. list.size :
        list.heap[s[i]].next = IF i = list.size THEN Null ELSE s[i + 1]

\* What a call leaves alone: other fields, and the data of nodes that stay.
KeepsData(m, list) ==
    /\ DOMAIN m = DOMAIN list
    /\ \A f \in DOMAIN list \ ListFields : m[f] = list[f]
    /\ \A y \in DOMAIN m.heap \intersect DOMAIN list.heap : m.heap[y].data = list.heap[y].data

\* Walking finds the nodes in order, on either kind of list.
LEMMA WalkFinds ==
    ASSUME NEW list, NEW s, Circle(list, s) \/ Chain(list, s), NEW i \in 1 .. list.size
    PROVE  NthNode(list, i - 1) = s[i]
<1>1. /\ list.size \in Nat
      /\ list.size # 0 => list.head = s[1]
      /\ \A j \in 1 .. list.size - 1 : list.heap[s[j]].next = s[j + 1]
  <2>1. CASE Circle(list, s)
    BY <2>1 DEF Circle, IsList
  <2>2. CASE Chain(list, s)
    BY <2>2 DEF Chain, IsList
  <2> QED
    BY <2>1, <2>2
<1> DEFINE T == {n \in Nat : n + 1 <= list.size /\ NthNode(list, n) # s[n + 1]}
<1>2. T = {}
  <2> SUFFICES ASSUME T # {}
               PROVE  FALSE
    OBVIOUS
  <2>1. PICK n \in T : \A j \in T : n <= j
    <3>1. T \in SUBSET Nat
      OBVIOUS
    <3> HIDE DEF T
    <3> QED
      BY <3>1, LeastNumber
  <2>2. n # 0
    BY <1>1, <2>1, NthNodeStep
  <2>3. n - 1 \in Nat /\ n - 1 \notin T /\ (n - 1) + 1 = n
    BY <2>1, <2>2
  <2>4. NthNode(list, n - 1) = s[n]
    BY <1>1, <2>1, <2>3
  <2>5. NthNode(list, n) = list.heap[s[n]].next
    BY <2>3, <2>4, NthNodeStep
  <2>6. n \in 1 .. list.size - 1
    BY <1>1, <2>1, <2>2
  <2> QED
    BY <1>1, <2>1, <2>5, <2>6
<1>3. i - 1 \in Nat /\ (i - 1) + 1 = i /\ i <= list.size
  BY <1>1
<1> QED
  BY <1>2, <1>3

\* The nodes and the data that the model reads off a list.
ReadAs(list, s) ==
    /\ Walk(list) = s
    /\ Elements(list) = [i \in 1 .. list.size |-> list.heap[s[i]].data]

LEMMA WalkOf ==
    ASSUME NEW list, NEW s, Circle(list, s) \/ Chain(list, s)
    PROVE  ReadAs(list, s)
<1>1. \A i \in 1 .. list.size : NthNode(list, i - 1) = s[i]
  BY WalkFinds
<1>2. s \in [1 .. list.size -> DOMAIN list.heap]
  BY DEF Circle, Chain, Names
<1> QED
  BY <1>1, <1>2 DEF Walk, Elements, ReadAs

\* A circle is what the run checks as a ring.
LEMMA CircleIsRing ==
    ASSUME NEW list, NEW s, Circle(list, s), Owns(list, s)
    PROVE  IsRing(list)
<1>1. Walk(list) = s
  BY WalkOf DEF ReadAs
<1>2. IsInjective(s) /\ Range(s) = DOMAIN list.heap
  BY DEF Circle, Names, Owns, IsInjective, Range
<1>3. list.head \in IF list.size = 0 THEN {Null} ELSE DOMAIN list.heap
  BY DEF Circle, Names, IsList
<1>4. ASSUME NEW x \in DOMAIN list.heap
      PROVE  /\ {list.heap[x].next, list.heap[x].prev} \subseteq DOMAIN list.heap
             /\ list.heap[list.heap[x].next].prev = x
  <2>1. PICK i \in 1 .. list.size : s[i] = x
    BY DEF Owns
  <2>2. list.size \in Nat
    BY DEF Circle, IsList
  <2>3. PICK j : j = IF i = list.size THEN 1 ELSE i + 1
    OBVIOUS
  <2>4. PICK k : k = IF i = 1 THEN list.size ELSE i - 1
    OBVIOUS
  <2>5. j \in 1 .. list.size /\ k \in 1 .. list.size /\ (IF j = 1 THEN list.size ELSE j - 1) = i
    BY <2>1, <2>2, <2>3, <2>4
  <2>6. list.heap[x].next = s[j] /\ list.heap[x].prev = s[k] /\ list.heap[s[j]].prev = s[i]
    BY <2>1, <2>3, <2>4, <2>5 DEF Circle
  <2>7. s[j] \in DOMAIN list.heap /\ s[k] \in DOMAIN list.heap
    BY <2>5 DEF Circle, Names
  <2> QED
    BY <2>1, <2>6, <2>7
<1> QED
  BY <1>1, <1>2, <1>3, <1>4 DEF IsRing

\* A chain is what the run checks as one.
LEMMA ChainIsChain ==
    ASSUME NEW list, NEW s, Chain(list, s), Owns(list, s)
    PROVE  IsChain(list)
<1>1. Walk(list) = s
  BY WalkOf DEF ReadAs
<1>2. IsInjective(s) /\ Range(s) = DOMAIN list.heap
  BY DEF Chain, Names, Owns, IsInjective, Range
<1>3. list.size \in Nat
  BY DEF Chain, IsList
<1>4. NthNode(list, list.size) = Null
  <2>1. CASE list.size = 0
    BY <2>1, NthNodeStep DEF Chain
  <2>2. CASE list.size # 0
    <3>1. list.size \in 1 .. list.size /\ list.size - 1 \in Nat /\ (list.size - 1) + 1 = list.size
      BY <1>3, <2>2
    <3>2. NthNode(list, list.size - 1) = s[list.size]
      BY <3>1, WalkFinds
    <3>3. list.heap[s[list.size]].next = Null
      BY <3>1 DEF Chain
    <3> QED
      BY <3>1, <3>2, <3>3, NthNodeStep
  <2> QED
    BY <2>1, <2>2
<1> QED
  BY <1>1, <1>2, <1>4 DEF IsChain

\* dll_create and ll_create.
LEMMA EmptyLists ==
    /\ IsList(EmptyList) /\ EmptyList.size = 0 /\ EmptyList.heap = << >>
    /\ Circle(EmptyList, << >>) /\ Chain(EmptyList, << >>) /\ Owns(EmptyList, << >>)
BY DEF EmptyList, IsList, ListFields, Circle, Chain, Names, Owns

-----------------------------------------------------------------------------
\* The sequences of nodes that the calls make of one of n nodes.
WithFirst(s, n, x) == [i \in 1 .. n + 1 |-> IF i = 1 THEN x ELSE s[i - 1]]

WithLast(s, n, x) == [i \in 1 .. n + 1 |-> IF i = n + 1 THEN x ELSE s[i]]

Without(s, n, k) == [i \in 1 .. n - 1 |-> IF i < k THEN s[i] ELSE s[i + 1]]

\* The calls assign to fields of the list.
Assigned(m, list, heap, head, size) ==
    /\ IsList(m) /\ m.heap = heap /\ m.head = head /\ m.size = size
    /\ DOMAIN m = DOMAIN list /\ \A f \in DOMAIN list \ ListFields : m[f] = list[f]

LEMMA AssignFields ==
    ASSUME NEW list, IsList(list), NEW heap, heap = [y \in DOMAIN heap |-> heap[y]],
           NEW head, NEW size \in Nat, NEW m,
           \/ m = [list EXCEPT !.heap = heap, !.head = head, !.size = size]
           \/ m = [list EXCEPT !.heap = heap, !.size = size, !.head = head]
           \/ m = [list EXCEPT !.heap = heap, !.size = size] /\ head = list.head
           \/ m = [list EXCEPT !.heap = heap] /\ head = list.head /\ size = list.size
           \/ m = [list EXCEPT !.head = head] /\ heap = list.heap /\ size = list.size
           \/ m = [list EXCEPT !.size = size] /\ heap = list.heap /\ head = list.head
    PROVE  Assigned(m, list, heap, head, size)
<1>1. /\ DOMAIN m = DOMAIN list /\ m = [f \in DOMAIN m |-> m[f]]
      /\ m.heap = heap /\ m.head = head /\ m.size = size
  BY DEF IsList, ListFields
<1>2. ASSUME NEW f \in DOMAIN list, f \notin ListFields
      PROVE  m[f] = list[f]
  <2>1. f # "heap" /\ f # "head" /\ f # "size"
    BY <1>2 DEF ListFields
  <2> QED
    BY <2>1 DEF IsList
<1> QED
  BY <1>1, <1>2 DEF IsList, Assigned

\* The memory m of a circle of n nodes s, after x came between the last node
\* and the head.
Inserted(m, list, s, n, x, data) ==
    /\ IsList(m) /\ m.size = n + 1
    /\ DOMAIN m.heap = DOMAIN list.heap \union {x}
    /\ \A y \in DOMAIN m.heap : IsDoubleNode(m.heap[y])
    /\ m.heap[x].data = data /\ m.heap[x].prev = s[n] /\ m.heap[x].next = s[1]
    /\ \A i \in 1 .. n :
        /\ m.heap[s[i]].prev = IF i = 1 THEN x ELSE s[i - 1]
        /\ m.heap[s[i]].next = IF i = n THEN x ELSE s[i + 1]
    /\ KeepsData(m, list)

LEMMA InsertBeforeHead ==
    ASSUME NEW list, NEW s, Circle(list, s), NEW n, n = list.size, n # 0,
           NEW x, x \notin DOMAIN list.heap, NEW data,
           NEW m, m = InsertBefore(list, list.head, x, data)
    PROVE  Inserted(m, list, s, n, x, data) /\ m.head = s[1]
<1>1. /\ IsList(list) /\ list.size \in Nat /\ 1 \in 1 .. list.size /\ list.size \in 1 .. list.size
      /\ list.head = s[1]
  BY DEF Circle, IsList
<1>2. /\ s[1] \in DOMAIN list.heap /\ s[list.size] \in DOMAIN list.heap
      /\ \A i \in 1 .. list.size : s[i] \in DOMAIN list.heap
  BY <1>1 DEF Circle, Names
<1>3. list.heap[s[1]].prev = s[list.size]
  BY <1>1 DEF Circle
<1>4. PICK first, last : first = s[1] /\ last = s[list.size]
  OBVIOUS
<1>5. PICK new : new = [data |-> data, prev |-> last, next |-> first]
  OBVIOUS
<1>6. PICK more : more = Allocate(list.heap, x, new)
  OBVIOUS
<1>7. PICK heap : heap = [more EXCEPT ![last].next = x, ![first].prev = x]
  OBVIOUS
<1>8. m = [list EXCEPT !.heap = heap, !.size = @ + 1]
  BY <1>1, <1>3, <1>4, <1>5, <1>6, <1>7 DEF InsertBefore
<1>9. /\ IsList(m) /\ m.head = list.head /\ m.size = list.size + 1 /\ m.heap = heap
      /\ DOMAIN m = DOMAIN list /\ \A f \in DOMAIN list \ ListFields : m[f] = list[f]
  <2>1. heap = [y \in DOMAIN heap |-> heap[y]]
    BY <1>6, <1>7 DEF Allocate
  <2>2. m = [list EXCEPT !.heap = heap, !.size = list.size + 1] /\ list.size + 1 \in Nat
    BY <1>1, <1>8
  <2>3. Assigned(m, list, heap, list.head, list.size + 1)
    BY <1>1, <2>1, <2>2, AssignFields
  <2> QED
    BY <2>3 DEF Assigned
<1>10. /\ DOMAIN more = DOMAIN list.heap \union {x} /\ more[x] = new
       /\ \A y \in DOMAIN list.heap : more[y] = list.heap[y]
       /\ more = [y \in DOMAIN more |-> more[y]]
  BY <1>6 DEF Allocate
<1>11. DOMAIN heap = DOMAIN list.heap \union {x} /\ heap[x] = new
  BY <1>2, <1>4, <1>7, <1>10
<1>12. ASSUME NEW y \in DOMAIN list.heap
       PROVE  /\ IsDoubleNode(heap[y])
              /\ heap[y].data = list.heap[y].data
              /\ heap[y].prev = IF y = first THEN x ELSE list.heap[y].prev
              /\ heap[y].next = IF y = last THEN x ELSE list.heap[y].next
  <2>1. IsDoubleNode(list.heap[y])
    BY DEF Circle
  <2> QED
    BY <1>2, <1>4, <1>7, <1>10, <2>1 DEF IsDoubleNode
<1>13. ASSUME NEW i \in 1 .. list.size
       PROVE  /\ heap[s[i]].prev = IF i = 1 THEN x ELSE s[i - 1]
              /\ heap[s[i]].next = IF i = list.size THEN x ELSE s[i + 1]
  <2>1. s[i] \in DOMAIN list.heap
    BY <1>2
  <2>2. /\ s[i] = first <=> i = 1
        /\ s[i] = last <=> i = list.size
    BY <1>1, <1>4 DEF Circle, Names
  <2>3. /\ i # 1 => list.heap[s[i]].prev = s[i - 1]
        /\ i # list.size => list.heap[s[i]].next = s[i + 1]
    BY DEF Circle
  <2> QED
    BY <1>12, <2>1, <2>2, <2>3
<1>15. IsDoubleNode(heap[x]) /\ heap[x].data = data /\ heap[x].prev = last /\ heap[x].next = first
  BY <1>5, <1>11 DEF IsDoubleNode
<1>16. KeepsData(m, list)
  <2>1. \A y \in DOMAIN m.heap \intersect DOMAIN list.heap : m.heap[y].data = list.heap[y].data
    BY <1>9, <1>12
  <2> QED
    BY <1>9, <2>1 DEF KeepsData
<1>17. \A i \in 1 .. n :
          /\ m.heap[s[i]].prev = IF i = 1 THEN x ELSE s[i - 1]
          /\ m.heap[s[i]].next = IF i = n THEN x ELSE s[i + 1]
  BY <1>9, <1>13
<1> QED
  BY <1>1, <1>4, <1>9, <1>11, <1>12, <1>15, <1>16, <1>17 DEF Inserted

\* The node x was added to a circle s, which is now t, and nothing else changed.
Added(m, list, s, t, x, data) ==
    /\ Circle(m, t) /\ m.size = list.size + 1
    /\ DOMAIN m.heap = DOMAIN list.heap \union {x} /\ m.heap[x].data = data
    /\ KeepsData(m, list)
    /\ Owns(list, s) => Owns(m, t)

\* The first node of a list.
LEMMA AddFirstIsCircle ==
    ASSUME NEW list, NEW s, Circle(list, s), list.size = 0,
           NEW x, x \notin DOMAIN list.heap, NEW data, NEW m, m = AddFirst(list, x, data),
           NEW t, t = [i \in 1 .. 1 |-> x]
    PROVE  Added(m, list, s, t, x, data)
<1>1. IsList(list) /\ \A y \in DOMAIN list.heap : IsDoubleNode(list.heap[y])
  BY DEF Circle
<1>2. PICK heap : heap = Allocate(list.heap, x, [data |-> data, prev |-> x, next |-> x])
  OBVIOUS
<1>3. DOMAIN heap = DOMAIN list.heap \union {x} /\ heap[x] = [data |-> data, prev |-> x, next |-> x]
      /\ heap = [y \in DOMAIN heap |-> heap[y]]
      /\ \A y \in DOMAIN list.heap : heap[y] = list.heap[y]
  BY <1>2 DEF Allocate
<1>4. m = [list EXCEPT !.heap = heap, !.head = x, !.size = 1]
  BY <1>2 DEF AddFirst
<1>5. /\ IsList(m) /\ m.head = x /\ m.size = 1 /\ m.heap = heap
      /\ DOMAIN m = DOMAIN list /\ \A f \in DOMAIN list \ ListFields : m[f] = list[f]
  <2>1. Assigned(m, list, heap, x, 1)
    BY <1>1, <1>3, <1>4, AssignFields
  <2> QED
    BY <2>1 DEF Assigned
<1>6. t[1] = x /\ t \in [1 .. m.size -> DOMAIN m.heap] /\ \A i \in 1 .. m.size : i = 1
  BY <1>3, <1>5
<1>7. Names(m, t)
  BY <1>3, <1>5, <1>6 DEF Names
<1>8. \A y \in DOMAIN heap : IsDoubleNode(heap[y])
  BY <1>1, <1>3 DEF IsDoubleNode
<1>9. Circle(m, t)
  BY <1>3, <1>5, <1>6, <1>7, <1>8 DEF Circle
<1>10. KeepsData(m, list)
  BY <1>3, <1>5 DEF KeepsData
<1>11. Owns(list, s) => Owns(m, t)
  BY <1>3, <1>5, <1>6 DEF Owns
<1> QED
  BY <1>3, <1>5, <1>9, <1>10, <1>11 DEF Added

\* dll_add_tail: the new node becomes the last.
LEMMA AddTailIsCircle ==
    ASSUME NEW list, NEW s, Circle(list, s), NEW x, x \notin DOMAIN list.heap,
           NEW data, NEW m, m = AddTail(list, x, data),
           NEW t, t = WithLast(s, list.size, x)
    PROVE  Added(m, list, s, t, x, data)
<1>1. CASE list.size = 0
  <2>1. m = AddFirst(list, x, data)
    BY <1>1 DEF AddTail
  <2>2. t = [i \in 1 .. 1 |-> x]
    <3>1. list.size + 1 = 1 /\ \A i \in 1 .. 1 : i = 1
      BY <1>1
    <3> QED
      BY <1>1, <3>1 DEF WithLast
  <2> QED
    BY <1>1, <2>1, <2>2, AddFirstIsCircle
<1>2. CASE list.size # 0
  <2>1. m = InsertBefore(list, list.head, x, data)
    BY <1>2 DEF AddTail
  <2>2. PICK n : n = list.size
    OBVIOUS
  <2>3. n \in Nat /\ n # 0 /\ s \in [1 .. n -> DOMAIN list.heap] /\ list.head = s[1]
        /\ \A i, j \in 1 .. n : s[i] = s[j] => i = j
    BY <1>2, <2>2 DEF Circle, IsList, Names
  <2>4. t = [i \in 1 .. n + 1 |-> IF i = n + 1 THEN x ELSE s[i]]
    BY <2>2 DEF WithLast
  <2>5. Inserted(m, list, s, n, x, data) /\ m.head = s[1]
    BY <1>2, <2>1, <2>2, InsertBeforeHead
  <2>6. t \in [1 .. n + 1 -> DOMAIN m.heap]
    BY <2>3, <2>4, <2>5 DEF Inserted
  <2>7. \A i, j \in 1 .. n + 1 : t[i] = t[j] => i = j
    BY <2>3, <2>4
  <2>8. Owns(list, s) => Owns(m, t)
    BY <2>2, <2>3, <2>4, <2>5 DEF Inserted, Owns
  <2>9. ASSUME NEW i \in 1 .. n + 1
        PROVE  /\ m.heap[t[i]].prev = t[IF i = 1 THEN n + 1 ELSE i - 1]
               /\ m.heap[t[i]].next = t[IF i = n + 1 THEN 1 ELSE i + 1]
    <3>1. CASE i = n + 1
      <4>1. t[i] = x /\ t[IF i = 1 THEN n + 1 ELSE i - 1] = s[n] /\ t[IF i = n + 1 THEN 1 ELSE i + 1] = s[1]
        BY <2>3, <2>4, <3>1
      <4> QED
        BY <2>5, <4>1 DEF Inserted
    <3>2. CASE i # n + 1
      <4>1. i \in 1 .. n /\ t[i] = s[i]
        BY <2>3, <2>4, <3>2
      <4>2. t[IF i = 1 THEN n + 1 ELSE i - 1] = IF i = 1 THEN x ELSE s[i - 1]
        BY <2>3, <2>4, <4>1
      <4>3. t[IF i = n + 1 THEN 1 ELSE i + 1] = IF i = n THEN x ELSE s[i + 1]
        BY <2>3, <2>4, <4>1
      <4> QED
        BY <2>5, <4>1, <4>2, <4>3 DEF Inserted
    <3> QED
      BY <3>1, <3>2
  <2>10. Circle(m, t)
    <3>1. t[1] = s[1] /\ m.size # 0
      BY <2>3, <2>4, <2>5 DEF Inserted
    <3> QED
      BY <2>5, <2>6, <2>7, <2>9, <3>1 DEF Circle, Names, Inserted
  <2> QED
    BY <2>2, <2>5, <2>8, <2>10 DEF Inserted, Added
<1> QED
  BY <1>1, <1>2

\* dll_add_nth_node at 0: the new node becomes the head.
LEMMA AddHeadIsCircle ==
    ASSUME NEW list, NEW s, Circle(list, s), NEW x, x \notin DOMAIN list.heap,
           NEW data, NEW m, m = AddNth(list, 0, x, data),
           NEW t, t = WithFirst(s, list.size, x)
    PROVE  Added(m, list, s, t, x, data)
<1>1. CASE list.size = 0
  <2>1. m = AddFirst(list, x, data)
    BY <1>1 DEF AddNth
  <2>2. t = [i \in 1 .. 1 |-> x]
    <3>1. list.size + 1 = 1 /\ \A i \in 1 .. 1 : i = 1
      BY <1>1
    <3> QED
      BY <1>1, <3>1 DEF WithFirst
  <2> QED
    BY <1>1, <2>1, <2>2, AddFirstIsCircle
<1>2. CASE list.size # 0
  <2>1. PICK before : before = InsertBefore(list, list.head, x, data) /\ m = [before EXCEPT !.head = x]
    BY <1>2 DEF AddNth
  <2>2. PICK n : n = list.size
    OBVIOUS
  <2>3. n \in Nat /\ n # 0 /\ s \in [1 .. n -> DOMAIN list.heap] /\ list.head = s[1]
        /\ \A i, j \in 1 .. n : s[i] = s[j] => i = j
    BY <1>2, <2>2 DEF Circle, IsList, Names
  <2>4. t = [i \in 1 .. n + 1 |-> IF i = 1 THEN x ELSE s[i - 1]]
    BY <2>2 DEF WithFirst
  <2>5. Inserted(before, list, s, n, x, data)
    BY <1>2, <2>1, <2>2, InsertBeforeHead
  <2>6. Inserted(m, list, s, n, x, data) /\ m.head = x
    <3>1. IsList(m) /\ m.size = n + 1 /\ m.head = x /\ m.heap = before.heap /\ KeepsData(m, list)
      BY <2>1, <2>5 DEF IsList, ListFields, KeepsData, Inserted
    <3> QED
      BY <2>5, <3>1 DEF Inserted
  <2>7. t \in [1 .. n + 1 -> DOMAIN m.heap]
    <3>1. \A i \in 1 .. n + 1 : i # 1 => i - 1 \in 1 .. n
      BY <2>3
    <3> QED
      BY <2>3, <2>4, <2>6, <3>1 DEF Inserted
  <2>8. \A i, j \in 1 .. n + 1 : t[i] = t[j] => i = j
    <3>1. \A i \in 1 .. n + 1 : i # 1 => i - 1 \in 1 .. n /\ t[i] = s[i - 1] /\ s[i - 1] # x
      BY <2>3, <2>4
    <3>2. t[1] = x
      BY <2>3, <2>4
    <3> QED
      BY <2>3, <3>1, <3>2
  <2>9. Owns(list, s) => Owns(m, t)
    <3>1. \A i \in 1 .. n : i + 1 \in 1 .. n + 1 /\ t[i + 1] = s[i]
      BY <2>3, <2>4
    <3>2. 1 \in 1 .. n + 1 /\ t[1] = x
      BY <2>3, <2>4
    <3> QED
      BY <2>2, <2>3, <2>6, <3>1, <3>2 DEF Inserted, Owns
  <2>10. ASSUME NEW i \in 1 .. n + 1
        PROVE  /\ m.heap[t[i]].prev = t[IF i = 1 THEN n + 1 ELSE i - 1]
               /\ m.heap[t[i]].next = t[IF i = n + 1 THEN 1 ELSE i + 1]
    <3>1. CASE i = 1
      <4>1. t[i] = x /\ t[IF i = 1 THEN n + 1 ELSE i - 1] = s[n] /\ t[IF i = n + 1 THEN 1 ELSE i + 1] = s[1]
        BY <2>3, <2>4, <3>1
      <4> QED
        BY <2>6, <4>1 DEF Inserted
    <3>2. CASE i # 1
      <4>1. PICK k : k = i - 1
        OBVIOUS
      <4>2. k \in 1 .. n /\ i = k + 1 /\ t[i] = s[k]
        BY <2>3, <2>4, <3>2, <4>1
      <4>3. t[IF i = 1 THEN n + 1 ELSE i - 1] = IF k = 1 THEN x ELSE s[k - 1]
        BY <2>3, <2>4, <4>2
      <4>4. t[IF i = n + 1 THEN 1 ELSE i + 1] = IF k = n THEN x ELSE s[k + 1]
        BY <2>3, <2>4, <4>2
      <4> QED
        BY <2>6, <4>2, <4>3, <4>4 DEF Inserted
    <3> QED
      BY <3>1, <3>2
  <2>11. Circle(m, t)
    <3>1. t[1] = x /\ m.size # 0
      BY <2>3, <2>4, <2>6 DEF Inserted
    <3> QED
      BY <2>6, <2>7, <2>8, <2>10, <3>1 DEF Circle, Names, Inserted
  <2> QED
    BY <2>2, <2>6, <2>9, <2>11 DEF Inserted, Added
<1> QED
  BY <1>1, <1>2

\* dll_get_next_node: Null behind the last node.
LEMMA NextNodeOf ==
    ASSUME NEW list, NEW s, Circle(list, s), Null \notin DOMAIN list.heap,
           NEW k \in 1 .. list.size
    PROVE  NextNode(list, s[k]) = IF k = list.size THEN Null ELSE s[k + 1]
<1>1. list.size \in Nat /\ list.size # 0 /\ list.head = s[1] /\ 1 \in 1 .. list.size
  BY DEF Circle, IsList
<1>2. list.head \in DOMAIN list.heap
  BY <1>1 DEF Circle, Names
<1>3. list.heap[s[k]].next = s[IF k = list.size THEN 1 ELSE k + 1]
  BY DEF Circle
<1>4. k # list.size => s[k + 1] # s[1]
  <2>1. k # list.size => k + 1 \in 1 .. list.size /\ k + 1 # 1
    BY <1>1
  <2> QED
    BY <1>1, <2>1 DEF Circle, Names
<1>5. list.head # Null
  BY <1>2
<1>6. CASE k = list.size
  BY <1>1, <1>3, <1>6 DEF NextNode
<1>7. CASE k # list.size
  BY <1>1, <1>3, <1>4, <1>5, <1>7 DEF NextNode
<1> QED
  BY <1>6, <1>7

\* dll_remove_nth_node: the node leaves the circle, and stays in memory.
LEMMA UnlinkIsCircle ==
    ASSUME NEW list, NEW s, Circle(list, s), NEW k \in 1 .. list.size,
           NEW m, m = Unlink(list, s[k]),
           NEW t, t = Without(s, list.size, k)
    PROVE  /\ Circle(m, t) /\ m.size = list.size - 1
           /\ DOMAIN m.heap = DOMAIN list.heap
           /\ \A i \in 1 .. m.size : t[i] # s[k]
           /\ KeepsData(m, list)
<1>1. PICK n, x : n = list.size /\ x = s[k]
  OBVIOUS
<1>2. PICK before, behind : before = s[IF k = 1 THEN n ELSE k - 1] /\ behind = s[IF k = n THEN 1 ELSE k + 1]
  OBVIOUS
<1>3. /\ IsList(list) /\ n \in Nat /\ n # 0 /\ n - 1 \in Nat
      /\ s \in [1 .. n -> DOMAIN list.heap]
      /\ \A i, j \in 1 .. n : s[i] = s[j] => i = j
      /\ list.head = s[1]
  BY <1>1 DEF Circle, Names, IsList
<1>4. list.heap[x].prev = before /\ list.heap[x].next = behind
  BY <1>1, <1>2 DEF Circle
<1>5. before \in DOMAIN list.heap /\ behind \in DOMAIN list.heap
  <2>1. (IF k = 1 THEN n ELSE k - 1) \in 1 .. n /\ (IF k = n THEN 1 ELSE k + 1) \in 1 .. n
    BY <1>1, <1>3
  <2> QED
    BY <1>2, <1>3, <2>1
<1>6. PICK heap : heap = [list.heap EXCEPT ![before].next = behind, ![behind].prev = before]
  OBVIOUS
<1>7. PICK head : head = IF n = 1 THEN Null ELSE IF list.head = x THEN behind ELSE list.head
  OBVIOUS
<1>8. /\ IsList(m) /\ m.heap = heap /\ m.head = head /\ m.size = n - 1
      /\ DOMAIN m = DOMAIN list /\ \A f \in DOMAIN list \ ListFields : m[f] = list[f]
  <2>1. m = [list EXCEPT !.heap[before].next = behind, !.heap[behind].prev = before,
                         !.size = n - 1, !.head = head]
    BY <1>1, <1>4, <1>7 DEF Unlink
  <2>2. PICK old : old = list.heap /\ old = [z \in DOMAIN old |-> old[z]]
    BY <1>3 DEF IsList
  <2>3. heap = [y \in DOMAIN heap |-> heap[y]]
    BY <1>6, <2>2
  <2>4. m.heap = heap /\ m.size = n - 1 /\ m.head = head
    BY <1>3, <1>6, <2>1, <2>2 DEF IsList, ListFields
  <2>5. DOMAIN m = DOMAIN list /\ m = [f \in DOMAIN m |-> m[f]]
    <3>1. DOMAIN m = DOMAIN list
      BY <2>1
    <3> QED
      BY <2>1, <3>1
  <2>6. ASSUME NEW f \in DOMAIN list \ ListFields
        PROVE  m[f] = list[f]
    BY <1>3, <2>1 DEF IsList, ListFields
  <2> QED
    BY <1>3, <2>3, <2>4, <2>5, <2>6 DEF IsList
<1>9. ASSUME NEW y \in DOMAIN list.heap
      PROVE  /\ IsDoubleNode(heap[y])
             /\ heap[y].data = list.heap[y].data
             /\ heap[y].prev = IF y = behind THEN before ELSE list.heap[y].prev
             /\ heap[y].next = IF y = before THEN behind ELSE list.heap[y].next
  <2>1. IsDoubleNode(list.heap[y])
    BY DEF Circle
  <2>2. PICK old : old = list.heap /\ old = [z \in DOMAIN old |-> old[z]]
    BY <1>3 DEF IsList
  <2> QED
    BY <1>5, <1>6, <2>1, <2>2 DEF IsDoubleNode
<1>10. DOMAIN heap = DOMAIN list.heap
  BY <1>3, <1>6 DEF IsList
<1>11. t = [i \in 1 .. n - 1 |-> IF i < k THEN s[i] ELSE s[i + 1]]
  BY <1>1 DEF Without
<1>12. ASSUME NEW i \in 1 .. n - 1
       PROVE  \E j \in 1 .. n : /\ j = (IF i < k THEN i ELSE i + 1) /\ j # k
                                /\ t[i] = s[j] /\ s[j] \in DOMAIN list.heap /\ s[j] # x
  <2>1. PICK j \in 1 .. n : j = (IF i < k THEN i ELSE i + 1) /\ j # k
    BY <1>1, <1>3
  <2> QED
    BY <1>1, <1>3, <1>11, <2>1
<1>13. Names(m, t)
  <2>1. t \in [1 .. m.size -> DOMAIN m.heap]
    BY <1>8, <1>10, <1>11, <1>12
  <2>2. \A i, j \in 1 .. m.size : t[i] = t[j] => i = j
    <3> SUFFICES ASSUME NEW i \in 1 .. m.size, NEW j \in 1 .. m.size, t[i] = t[j]
                 PROVE  i = j
      OBVIOUS
    <3>1. PICK a \in 1 .. n : a = (IF i < k THEN i ELSE i + 1) /\ t[i] = s[a]
      BY <1>8, <1>12
    <3>2. PICK b \in 1 .. n : b = (IF j < k THEN j ELSE j + 1) /\ t[j] = s[b]
      BY <1>8, <1>12
    <3>3. a = b
      BY <1>3, <3>1, <3>2
    <3>4. i \in Nat /\ j \in Nat /\ k \in Nat
      BY <1>1, <1>3, <1>8
    <3> QED
      BY <3>1, <3>2, <3>3, <3>4
  <2> QED
    BY <2>1, <2>2 DEF Names
<1>14. head = IF n - 1 = 0 THEN Null ELSE t[1]
  <2>1. CASE n = 1
    BY <1>7, <2>1
  <2>2. CASE n # 1
    <3>1. t[1] = IF k = 1 THEN s[2] ELSE s[1]
      BY <1>1, <1>3, <1>11, <2>2
    <3>2. list.head = x <=> k = 1
      BY <1>1, <1>3
    <3>3. k = 1 => behind = s[2]
      BY <1>2, <2>2
    <3> QED
      BY <1>3, <1>7, <2>2, <3>1, <3>2, <3>3
  <2> QED
    BY <2>1, <2>2
<1>15. ASSUME NEW i \in 1 .. n - 1
       PROVE  /\ heap[t[i]].prev = t[IF i = 1 THEN n - 1 ELSE i - 1]
              /\ heap[t[i]].next = t[IF i = n - 1 THEN 1 ELSE i + 1]
  <2>1. PICK j \in 1 .. n : j = (IF i < k THEN i ELSE i + 1) /\ j # k /\ t[i] = s[j] /\ s[j] \in DOMAIN list.heap
    BY <1>12
  <2>2. /\ list.heap[s[j]].prev = s[IF j = 1 THEN n ELSE j - 1]
        /\ list.heap[s[j]].next = s[IF j = n THEN 1 ELSE j + 1]
    BY <1>1 DEF Circle
  <2>3. /\ s[j] = behind <=> j = IF k = n THEN 1 ELSE k + 1
        /\ s[j] = before <=> j = IF k = 1 THEN n ELSE k - 1
    <3>1. (IF k = 1 THEN n ELSE k - 1) \in 1 .. n /\ (IF k = n THEN 1 ELSE k + 1) \in 1 .. n
      BY <1>1, <1>3
    <3> QED
      BY <1>2, <1>3, <3>1
  <2>4. heap[t[i]].prev = t[IF i = 1 THEN n - 1 ELSE i - 1]
    <3>1. PICK a : a = IF i = 1 THEN n - 1 ELSE i - 1
      OBVIOUS
    <3>2. a \in 1 .. n - 1 /\ t[a] = s[IF a < k THEN a ELSE a + 1]
      BY <1>3, <1>11, <3>1
    <3>3. PICK b : b = IF a < k THEN a ELSE a + 1
      OBVIOUS
    <3>4. heap[s[j]].prev = IF s[j] = behind THEN before ELSE list.heap[s[j]].prev
      BY <1>9, <2>1
    <3>5. CASE s[j] = behind
      <4>1. b = IF k = 1 THEN n ELSE k - 1
        BY <1>1, <1>3, <2>1, <2>3, <3>1, <3>2, <3>3, <3>5
      <4> QED
        BY <1>2, <2>1, <3>1, <3>2, <3>3, <3>4, <3>5, <4>1
    <3>6. CASE s[j] # behind
      <4>1. b = IF j = 1 THEN n ELSE j - 1
        BY <1>1, <1>3, <2>1, <2>3, <3>1, <3>2, <3>3, <3>6
      <4> QED
        BY <2>1, <2>2, <3>1, <3>2, <3>3, <3>4, <3>6, <4>1
    <3> QED
      BY <3>5, <3>6
  <2>5. heap[t[i]].next = t[IF i = n - 1 THEN 1 ELSE i + 1]
    <3>1. PICK a : a = IF i = n - 1 THEN 1 ELSE i + 1
      OBVIOUS
    <3>2. a \in 1 .. n - 1 /\ t[a] = s[IF a < k THEN a ELSE a + 1]
      BY <1>3, <1>11, <3>1
    <3>3. PICK b : b = IF a < k THEN a ELSE a + 1
      OBVIOUS
    <3>4. heap[s[j]].next = IF s[j] = before THEN behind ELSE list.heap[s[j]].next
      BY <1>9, <2>1
    <3>5. CASE s[j] = before
      <4>1. b = IF k = n THEN 1 ELSE k + 1
        BY <1>1, <1>3, <2>1, <2>3, <3>1, <3>2, <3>3, <3>5
      <4> QED
        BY <1>2, <2>1, <3>1, <3>2, <3>3, <3>4, <3>5, <4>1
    <3>6. CASE s[j] # before
      <4>1. b = IF j = n THEN 1 ELSE j + 1
        BY <1>1, <1>3, <2>1, <2>3, <3>1, <3>2, <3>3, <3>6
      <4> QED
        BY <2>1, <2>2, <3>1, <3>2, <3>3, <3>4, <3>6, <4>1
    <3> QED
      BY <3>5, <3>6
  <2> QED
    BY <2>4, <2>5
<1>16. Circle(m, t)
  BY <1>8, <1>9, <1>10, <1>13, <1>14, <1>15 DEF Circle
<1>17. KeepsData(m, list)
  BY <1>8, <1>9, <1>10 DEF KeepsData
<1> QED
  BY <1>1, <1>8, <1>10, <1>12, <1>16, <1>17

\* A node that is not on the list is freed.
LEMMA FreeIsCircle ==
    ASSUME NEW list, NEW s, Circle(list, s), NEW x, \A i \in 1 .. list.size : s[i] # x,
           NEW m, m = Free(list, x)
    PROVE  /\ Circle(m, s) /\ m.size = list.size
           /\ DOMAIN m.heap = DOMAIN list.heap \ {x}
           /\ KeepsData(m, list)
<1>1. IsList(list)
  BY DEF Circle
<1>2. PICK heap : heap = [y \in DOMAIN list.heap \ {x} |-> list.heap[y]]
  OBVIOUS
<1>3. /\ IsList(m) /\ m.heap = heap /\ m.head = list.head /\ m.size = list.size
      /\ DOMAIN m = DOMAIN list /\ \A f \in DOMAIN list \ ListFields : m[f] = list[f]
  <2>1. m = [list EXCEPT !.heap = heap]
    BY <1>1, <1>2 DEF Free, Restrict
  <2>2. heap = [y \in DOMAIN heap |-> heap[y]] /\ list.size \in Nat
    BY <1>1, <1>2 DEF IsList
  <2>3. Assigned(m, list, heap, list.head, list.size)
    BY <1>1, <2>1, <2>2, AssignFields
  <2> QED
    BY <2>3 DEF Assigned
<1>4. DOMAIN heap = DOMAIN list.heap \ {x} /\ \A y \in DOMAIN heap : heap[y] = list.heap[y]
  BY <1>2
<1>5. Names(m, s)
  BY <1>3, <1>4 DEF Circle, Names
<1>6. Circle(m, s)
  BY <1>3, <1>4, <1>5 DEF Circle, Names
<1> QED
  BY <1>3, <1>4, <1>6 DEF KeepsData

\* A node is taken off a circle, and freed: no other is lost or left in memory.
LEMMA TakeOffIsCircle ==
    ASSUME NEW list, NEW s, Circle(list, s), NEW k \in 1 .. list.size,
           NEW m, m = Free(Unlink(list, s[k]), s[k]),
           NEW t, t = Without(s, list.size, k)
    PROVE  /\ Circle(m, t) /\ m.size = list.size - 1
           /\ DOMAIN m.heap = DOMAIN list.heap \ {s[k]}
           /\ KeepsData(m, list)
           /\ Owns(list, s) => Owns(m, t)
<1>1. PICK u : u = Unlink(list, s[k])
  OBVIOUS
<1>2. /\ Circle(u, t) /\ u.size = list.size - 1
      /\ DOMAIN u.heap = DOMAIN list.heap
      /\ \A i \in 1 .. u.size : t[i] # s[k]
      /\ KeepsData(u, list)
  BY <1>1, UnlinkIsCircle
<1>3. /\ Circle(m, t) /\ m.size = u.size
      /\ DOMAIN m.heap = DOMAIN u.heap \ {s[k]}
      /\ KeepsData(m, u)
  BY <1>1, <1>2, FreeIsCircle
<1>4. KeepsData(m, list)
  BY <1>2, <1>3 DEF KeepsData
<1>5. Owns(list, s) => Owns(m, t)
  <2> SUFFICES ASSUME Owns(list, s), NEW y \in DOMAIN m.heap
               PROVE  \E i \in 1 .. m.size : t[i] = y
    BY DEF Owns
  <2>1. list.size \in Nat
    BY DEF Circle, IsList
  <2>2. PICK j \in 1 .. list.size : s[j] = y /\ j # k
    BY <1>2, <1>3 DEF Owns
  <2>3. PICK i : i = IF j < k THEN j ELSE j - 1
    OBVIOUS
  <2>4. i \in 1 .. list.size - 1 /\ j = (IF i < k THEN i ELSE i + 1)
    BY <2>1, <2>2, <2>3
  <2>5. t[i] = s[j]
    BY <2>4 DEF Without
  <2> QED
    BY <1>2, <1>3, <2>2, <2>4, <2>5
<1> QED
  BY <1>2, <1>3, <1>4, <1>5

-----------------------------------------------------------------------------
\* The node x was added to a chain s, which is now t.
ChainAdded(m, list, s, t, x, data) ==
    /\ Chain(m, t) /\ m.size = list.size + 1
    /\ DOMAIN m.heap = DOMAIN list.heap \union {x} /\ m.heap[x].data = data
    /\ KeepsData(m, list)
    /\ Owns(list, s) => Owns(m, t)

\* ll_add_nth_node behind the last node.
LEMMA LlAddLastIsChain ==
    ASSUME NEW list, NEW s, Chain(list, s), Null \notin DOMAIN list.heap,
           NEW x, x \notin DOMAIN list.heap,
           NEW data, NEW m, m = LlAddNth(list, list.size, x, data),
           NEW t, t = WithLast(s, list.size, x)
    PROVE  ChainAdded(m, list, s, t, x, data)
<1>1. PICK n, old : n = list.size /\ old = list.heap /\ old = [y \in DOMAIN old |-> old[y]]
  BY DEF Chain, IsList
<1>2. /\ IsList(list) /\ n \in Nat /\ n + 1 \in Nat
      /\ s \in [1 .. n -> DOMAIN old] /\ \A i, j \in 1 .. n : s[i] = s[j] => i = j
      /\ list.head = IF n = 0 THEN Null ELSE s[1]
      /\ \A y \in DOMAIN old : IsSingleNode(old[y])
      /\ \A i \in 1 .. n : old[s[i]].next = IF i = n THEN Null ELSE s[i + 1]
  BY <1>1 DEF Chain, Names, IsList
<1>3. t = [i \in 1 .. n + 1 |-> IF i = n + 1 THEN x ELSE s[i]]
  BY <1>1 DEF WithLast
<1>4. \E heap :
        /\ Assigned(m, list, heap, t[1], n + 1)
        /\ DOMAIN heap = DOMAIN old \union {x}
        /\ heap[x] = [data |-> data, next |-> Null]
        /\ \A y \in DOMAIN old :
             heap[y] = IF n # 0 /\ y = s[n] THEN [data |-> old[y].data, next |-> x] ELSE old[y]
  <2>1. CASE n = 0
    <3>1. PICK heap : heap = Allocate(old, x, [data |-> data, next |-> Null])
      OBVIOUS
    <3>2. m = [list EXCEPT !.heap = heap, !.head = x, !.size = n + 1]
      BY <1>1, <1>2, <2>1, <3>1 DEF LlAddNth, LlAddHead, IsList, ListFields
    <3>3. heap = [y \in DOMAIN heap |-> heap[y]] /\ DOMAIN heap = DOMAIN old \union {x}
          /\ heap[x] = [data |-> data, next |-> Null]
          /\ \A y \in DOMAIN old : y # x => heap[y] = old[y]
      BY <3>1 DEF Allocate
    <3>4. t[1] = x
      BY <1>3, <2>1
    <3>5. Assigned(m, list, heap, t[1], n + 1)
      BY <1>2, <3>2, <3>3, <3>4, AssignFields
    <3> QED
      BY <1>1, <2>1, <3>3, <3>5
  <2>2. CASE n # 0
    <3>1. n \in 1 .. n /\ n - 1 \in Nat /\ list.head \in DOMAIN old /\ s[n] \in DOMAIN old
      BY <1>2, <2>2
    <3>2. PICK last : last = s[n] /\ last = NthNode(list, n - 1) /\ old[last].next = Null
      BY <1>1, <1>2, <3>1, WalkFinds
    <3>3. PICK more : more = Allocate(old, x, [data |-> data, next |-> Null])
      OBVIOUS
    <3>4. PICK heap : heap = [more EXCEPT ![last].next = x]
      OBVIOUS
    <3>5. m = LlAddBehind(list, last, x, data)
      BY <1>1, <1>2, <2>2, <3>1, <3>2 DEF LlAddNth
    <3>6. m = [list EXCEPT !.heap = heap, !.size = n + 1]
      BY <1>1, <1>2, <3>2, <3>3, <3>4, <3>5 DEF LlAddBehind, IsList, ListFields
    <3>7. more = [y \in DOMAIN more |-> more[y]] /\ DOMAIN more = DOMAIN old \union {x}
          /\ more[x] = [data |-> data, next |-> Null]
          /\ \A y \in DOMAIN old : y # x => more[y] = old[y]
      BY <3>3 DEF Allocate
    <3>8. heap = [y \in DOMAIN heap |-> heap[y]] /\ DOMAIN heap = DOMAIN old \union {x}
      BY <3>4, <3>7
    <3>9. last \in DOMAIN old /\ last # x
      BY <1>1, <3>1, <3>2
    <3>10. heap[x] = [data |-> data, next |-> Null]
      BY <3>4, <3>7, <3>9
    <3>11. ASSUME NEW y \in DOMAIN old
           PROVE  heap[y] = IF y = last THEN [data |-> old[y].data, next |-> x] ELSE old[y]
      <4>1. y # x /\ more[y] = old[y] /\ IsSingleNode(old[y])
        BY <1>1, <1>2, <3>7
      <4> QED
        BY <3>4, <3>7, <3>9, <4>1 DEF IsSingleNode
    <3>12. t[1] = list.head
      BY <1>2, <1>3, <2>2
    <3>13. Assigned(m, list, heap, t[1], n + 1)
      BY <1>2, <3>6, <3>8, <3>12, AssignFields
    <3> QED
      BY <2>2, <3>2, <3>8, <3>10, <3>11, <3>13
  <2> QED
    BY <2>1, <2>2
<1>5. PICK heap :
        /\ IsList(m) /\ m.heap = heap /\ m.head = t[1] /\ m.size = n + 1
        /\ DOMAIN m = DOMAIN list /\ \A f \in DOMAIN list \ ListFields : m[f] = list[f]
        /\ DOMAIN heap = DOMAIN old \union {x}
        /\ heap[x] = [data |-> data, next |-> Null]
        /\ \A y \in DOMAIN old :
             heap[y] = IF n # 0 /\ y = s[n] THEN [data |-> old[y].data, next |-> x] ELSE old[y]
  BY <1>4 DEF Assigned
<1>6. ASSUME NEW y \in DOMAIN heap
      PROVE  IsSingleNode(heap[y]) /\ (y \in DOMAIN old => heap[y].data = old[y].data)
  <2>1. CASE y = x
    BY <1>1, <1>5, <2>1 DEF IsSingleNode
  <2>2. CASE y # x
    <3>1. y \in DOMAIN old /\ IsSingleNode(old[y])
      BY <1>2, <1>5, <2>2
    <3>2. CASE n # 0 /\ y = s[n]
      BY <1>5, <3>1, <3>2 DEF IsSingleNode
    <3>3. CASE ~ (n # 0 /\ y = s[n])
      BY <1>5, <3>1, <3>3
    <3> QED
      BY <3>2, <3>3
  <2> QED
    BY <2>1, <2>2
<1>7. Names(m, t)
  <2>1. t \in [1 .. n + 1 -> DOMAIN heap]
    BY <1>2, <1>3, <1>5
  <2>2. \A i, j \in 1 .. n + 1 : t[i] = t[j] => i = j
    BY <1>1, <1>2, <1>3
  <2> QED
    BY <1>5, <2>1, <2>2 DEF Names
<1>8. ASSUME NEW i \in 1 .. n + 1
      PROVE  heap[t[i]].next = IF i = n + 1 THEN Null ELSE t[i + 1]
  <2>1. CASE i = n + 1
    BY <1>3, <1>5, <2>1
  <2>2. CASE i # n + 1
    <3>1. i \in 1 .. n /\ t[i] = s[i] /\ s[i] \in DOMAIN old /\ n \in 1 .. n
      BY <1>2, <1>3, <2>2
    <3>2. s[i] = s[n] <=> i = n
      BY <1>2, <3>1
    <3>3. t[i + 1] = IF i = n THEN x ELSE s[i + 1]
      BY <1>2, <1>3, <3>1
    <3> QED
      BY <1>2, <1>5, <2>2, <3>1, <3>2, <3>3
  <2> QED
    BY <2>1, <2>2
<1>9. Chain(m, t)
  BY <1>2, <1>5, <1>6, <1>7, <1>8 DEF Chain
<1>10. KeepsData(m, list)
  BY <1>1, <1>5, <1>6 DEF KeepsData
<1>11. Owns(list, s) => Owns(m, t)
  <2>1. \A i \in 1 .. n : i \in 1 .. n + 1 /\ t[i] = s[i]
    BY <1>2, <1>3
  <2>2. n + 1 \in 1 .. n + 1 /\ t[n + 1] = x
    BY <1>2, <1>3
  <2> QED
    BY <1>1, <1>5, <2>1, <2>2 DEF Owns
<1> QED
  BY <1>1, <1>5, <1>9, <1>10, <1>11 DEF ChainAdded

\* ll_remove_nth_node at 0, and the free that follows.
LEMMA LlTakeFirstIsChain ==
    ASSUME NEW list, NEW s, Chain(list, s), list.size # 0,
           NEW m, m = Free(LlRemoveNth(list, 0), list.head),
           NEW t, t = Without(s, list.size, 1)
    PROVE  /\ Chain(m, t) /\ m.size = list.size - 1
           /\ DOMAIN m.heap = DOMAIN list.heap \ {s[1]}
           /\ KeepsData(m, list)
           /\ Owns(list, s) => Owns(m, t)
<1>1. PICK n, old : n = list.size /\ old = list.heap /\ old = [y \in DOMAIN old |-> old[y]]
  BY DEF Chain, IsList
<1>2. /\ IsList(list) /\ n \in Nat /\ n # 0 /\ n - 1 \in Nat /\ 1 \in 1 .. n
      /\ s \in [1 .. n -> DOMAIN old] /\ \A i, j \in 1 .. n : s[i] = s[j] => i = j
      /\ list.head = s[1] /\ s[1] \in DOMAIN old
      /\ \A y \in DOMAIN old : IsSingleNode(old[y])
      /\ \A i \in 1 .. n : old[s[i]].next = IF i = n THEN Null ELSE s[i + 1]
  BY <1>1 DEF Chain, Names, IsList
<1>3. t = [i \in 1 .. n - 1 |-> IF i < 1 THEN s[i] ELSE s[i + 1]]
  BY <1>1 DEF Without
<1>4. \A i \in 1 .. n - 1 : t[i] = s[i + 1] /\ i + 1 \in 1 .. n /\ i + 1 # 1
  BY <1>2, <1>3
<1>5. PICK heap : heap = [y \in DOMAIN old \ {s[1]} |-> old[y]]
  OBVIOUS
<1>6. PICK head : head = old[s[1]].next
  OBVIOUS
<1>7. PICK rest : rest = LlRemoveNth(list, 0)
  OBVIOUS
<1>8. Assigned(rest, list, old, head, n - 1)
  <2>1. PICK first : first = [list EXCEPT !.head = head]
    OBVIOUS
  <2>2. Assigned(first, list, old, head, n)
    <3>1. IsList(list) /\ n \in Nat /\ old = list.heap /\ n = list.size
      BY <1>1, <1>2
    <3>2. old = [y \in DOMAIN old |-> old[y]]
      BY <1>1
    <3> QED
      BY <2>1, <3>1, <3>2, AssignFields
  <2>3. rest = [first EXCEPT !.size = n - 1]
    <3>1. rest = [[list EXCEPT !.head = head] EXCEPT !.size = @ - 1]
      BY <1>1, <1>2, <1>6, <1>7 DEF LlRemoveNth
    <3>2. first.size = n
      BY <2>2 DEF Assigned
    <3> QED
      BY <2>1, <3>1, <3>2
  <2>4. Assigned(rest, first, old, head, n - 1)
    <3>1. IsList(first) /\ first.heap = old /\ first.head = head
      BY <2>2 DEF Assigned
    <3> QED
      BY <1>1, <1>2, <2>3, <3>1, AssignFields
  <2> QED
    BY <2>2, <2>4 DEF Assigned
<1>9. Assigned(m, rest, heap, head, n - 1)
  <2>1. m = [rest EXCEPT !.heap = heap]
    BY <1>2, <1>5, <1>7, <1>8 DEF Free, Restrict, Assigned
  <2>2. heap = [y \in DOMAIN heap |-> heap[y]]
    BY <1>5
  <2>3. IsList(rest) /\ rest.head = head /\ rest.size = n - 1
    BY <1>8 DEF Assigned
  <2> QED
    BY <1>2, <2>1, <2>2, <2>3, AssignFields
<1>10. /\ IsList(m) /\ m.heap = heap /\ m.head = head /\ m.size = n - 1
       /\ DOMAIN m = DOMAIN list /\ \A f \in DOMAIN list \ ListFields : m[f] = list[f]
  BY <1>8, <1>9 DEF Assigned
<1>11. DOMAIN heap = DOMAIN old \ {s[1]} /\ \A y \in DOMAIN heap : heap[y] = old[y]
  BY <1>5
<1>12. Names(m, t)
  <2>1. \A i \in 1 .. n - 1 : t[i] \in DOMAIN heap
    BY <1>2, <1>4, <1>11
  <2>2. t \in [1 .. n - 1 -> DOMAIN heap]
    BY <1>3, <2>1
  <2>3. \A i, j \in 1 .. n - 1 : t[i] = t[j] => i = j
    BY <1>2, <1>4
  <2> QED
    BY <1>10, <2>2, <2>3 DEF Names
<1>13. head = IF n - 1 = 0 THEN Null ELSE t[1]
  BY <1>2, <1>3, <1>6
<1>14. ASSUME NEW i \in 1 .. n - 1
       PROVE  heap[t[i]].next = IF i = n - 1 THEN Null ELSE t[i + 1]
  <2>1. t[i] = s[i + 1] /\ i + 1 \in 1 .. n /\ t[i] \in DOMAIN heap
    BY <1>4, <1>10, <1>12 DEF Names
  <2>2. i # n - 1 => t[i + 1] = s[(i + 1) + 1]
    BY <1>2, <1>3
  <2> QED
    BY <1>2, <1>11, <2>1, <2>2
<1>15. Chain(m, t)
  BY <1>2, <1>10, <1>11, <1>12, <1>13, <1>14 DEF Chain
<1>16. KeepsData(m, list)
  BY <1>1, <1>10, <1>11 DEF KeepsData
<1>17. Owns(list, s) => Owns(m, t)
  <2> SUFFICES ASSUME Owns(list, s), NEW y \in DOMAIN heap
               PROVE  \E i \in 1 .. n - 1 : t[i] = y
    BY <1>10 DEF Owns
  <2>1. PICK j \in 1 .. n : s[j] = y /\ j # 1
    BY <1>1, <1>11 DEF Owns
  <2>2. j - 1 \in 1 .. n - 1 /\ (j - 1) + 1 = j
    BY <1>2, <2>1
  <2>3. t[j - 1] = s[j]
    BY <1>4, <2>2
  <2> QED
    BY <2>1, <2>2, <2>3
<1> QED
  BY <1>1, <1>10, <1>11, <1>15, <1>16, <1>17

-----------------------------------------------------------------------------
(***************************************************************************)
(* The same told by what a list holds, for lists of nodes among some       *)
(* addresses: the nodes are those that a walk along the list finds.        *)
(***************************************************************************)
WholeCircle(list, addresses) ==
    /\ Circle(list, Walk(list)) /\ Owns(list, Walk(list))
    /\ DOMAIN list.heap \subseteq addresses

WholeChain(list, addresses) ==
    /\ Chain(list, Walk(list)) /\ Owns(list, Walk(list))
    /\ DOMAIN list.heap \subseteq addresses

\* What is known of a list besides.
LEMMA WholeList ==
    ASSUME NEW A, NEW list, WholeCircle(list, A) \/ WholeChain(list, A)
    PROVE  /\ IsList(list) /\ list.size \in Nat
           /\ Walk(list) \in [1 .. list.size -> DOMAIN list.heap]
           /\ Elements(list) = [i \in 1 .. list.size |-> list.heap[Walk(list)[i]].data]
           /\ \A i \in 1 .. list.size : NthNode(list, i - 1) = Walk(list)[i]
           /\ list.head = IF list.size = 0 THEN Null ELSE Walk(list)[1]
           /\ list.size = 0 => DOMAIN list.heap = {}
<1>1. Circle(list, Walk(list)) \/ Chain(list, Walk(list))
  BY DEF WholeCircle, WholeChain
<1>2. /\ Elements(list) = [i \in 1 .. list.size |-> list.heap[Walk(list)[i]].data]
      /\ \A i \in 1 .. list.size : NthNode(list, i - 1) = Walk(list)[i]
  BY <1>1, WalkOf, WalkFinds DEF ReadAs
<1>3. IsList(list) /\ Names(list, Walk(list)) /\ list.head = IF list.size = 0 THEN Null ELSE Walk(list)[1]
  <2>1. CASE Circle(list, Walk(list))
    BY <2>1 DEF Circle
  <2>2. CASE Chain(list, Walk(list))
    BY <2>2 DEF Chain
  <2> QED
    BY <1>1, <2>1, <2>2
<1>4. list.size = 0 => DOMAIN list.heap = {}
  <2>1. Owns(list, Walk(list))
    BY DEF WholeCircle, WholeChain
  <2> QED
    BY <2>1 DEF Owns
<1> QED
  BY <1>2, <1>3, <1>4 DEF IsList, Names

LEMMA WholeEmpty ==
    ASSUME NEW A, NEW list, list = EmptyList
    PROVE  WholeCircle(list, A) /\ WholeChain(list, A) /\ list.size = 0
<1>1. Circle(list, << >>) /\ Chain(list, << >>) /\ Owns(list, << >>) /\ list.size = 0 /\ list.heap = << >>
  BY EmptyLists
<1>2. Walk(list) = << >>
  BY <1>1, WalkOf DEF ReadAs
<1> QED
  BY <1>1, <1>2 DEF WholeCircle, WholeChain

\* dll_add_tail puts the data behind those of the list.
LEMMA TailElements ==
    ASSUME NEW A, NEW list, WholeCircle(list, A), NEW x \in A \ DOMAIN list.heap, NEW data,
           NEW m, m = AddTail(list, x, data)
    PROVE  /\ WholeCircle(m, A) /\ m.size = list.size + 1
           /\ Elements(m) = WithLast(Elements(list), list.size, data)
<1>1. PICK s, t, n : s = Walk(list) /\ n = list.size /\ t = WithLast(s, n, x)
  OBVIOUS
<1>2. Circle(list, s) /\ Owns(list, s) /\ DOMAIN list.heap \subseteq A
  BY <1>1 DEF WholeCircle
<1>3. Added(m, list, s, t, x, data)
  BY <1>1, <1>2, AddTailIsCircle
<1>4. Walk(m) = t /\ Elements(m) = [i \in 1 .. m.size |-> m.heap[t[i]].data]
  BY <1>3, WalkOf DEF Added, ReadAs
<1>5. /\ n \in Nat /\ s \in [1 .. n -> DOMAIN list.heap]
      /\ Elements(list) = [i \in 1 .. n |-> list.heap[s[i]].data]
  BY <1>1, WholeList
<1>6. ASSUME NEW i \in 1 .. n + 1
      PROVE  m.heap[t[i]].data = IF i = n + 1 THEN data ELSE Elements(list)[i]
  <2>1. CASE i = n + 1
    BY <1>1, <1>3, <2>1 DEF WithLast, Added
  <2>2. CASE i # n + 1
    <3>1. i \in 1 .. n /\ t[i] = s[i] /\ s[i] \in DOMAIN list.heap
      BY <1>1, <1>5, <2>2 DEF WithLast
    <3> QED
      BY <1>3, <1>5, <2>2, <3>1 DEF Added, KeepsData
  <2> QED
    BY <2>1, <2>2
<1>7. Elements(m) = WithLast(Elements(list), n, data)
  BY <1>1, <1>3, <1>4, <1>6 DEF WithLast, Added
<1> QED
  BY <1>1, <1>2, <1>3, <1>4, <1>7 DEF Added, WholeCircle

\* dll_add_nth_node at 0 puts the data before those of the list.
LEMMA HeadElements ==
    ASSUME NEW A, NEW list, WholeCircle(list, A), NEW x \in A \ DOMAIN list.heap, NEW data,
           NEW m, m = AddNth(list, 0, x, data)
    PROVE  /\ WholeCircle(m, A) /\ m.size = list.size + 1
           /\ Elements(m) = WithFirst(Elements(list), list.size, data)
<1>1. PICK s, t, n : s = Walk(list) /\ n = list.size /\ t = WithFirst(s, n, x)
  OBVIOUS
<1>2. Circle(list, s) /\ Owns(list, s) /\ DOMAIN list.heap \subseteq A
  BY <1>1 DEF WholeCircle
<1>3. Added(m, list, s, t, x, data)
  BY <1>1, <1>2, AddHeadIsCircle
<1>4. Walk(m) = t /\ Elements(m) = [i \in 1 .. m.size |-> m.heap[t[i]].data]
  BY <1>3, WalkOf DEF Added, ReadAs
<1>5. /\ n \in Nat /\ s \in [1 .. n -> DOMAIN list.heap]
      /\ Elements(list) = [i \in 1 .. n |-> list.heap[s[i]].data]
  BY <1>1, WholeList
<1>6. ASSUME NEW i \in 1 .. n + 1
      PROVE  m.heap[t[i]].data = IF i = 1 THEN data ELSE Elements(list)[i - 1]
  <2>1. CASE i = 1
    BY <1>1, <1>3, <2>1 DEF WithFirst, Added
  <2>2. CASE i # 1
    <3>1. i - 1 \in 1 .. n /\ t[i] = s[i - 1] /\ s[i - 1] \in DOMAIN list.heap
      <4>1. i - 1 \in 1 .. n
        BY <1>5, <2>2
      <4>2. t[i] = s[i - 1]
        BY <1>1, <2>2 DEF WithFirst
      <4> QED
        BY <1>5, <4>1, <4>2
    <3> QED
      BY <1>3, <1>5, <2>2, <3>1 DEF Added, KeepsData
  <2> QED
    BY <2>1, <2>2
<1>7. Elements(m) = WithFirst(Elements(list), n, data)
  BY <1>1, <1>3, <1>4, <1>6 DEF WithFirst, Added
<1> QED
  BY <1>1, <1>2, <1>3, <1>4, <1>7 DEF Added, WholeCircle

\* Node k is taken off a circle and freed: the others, and their data, stay.
LEMMA TakeOffElements ==
    ASSUME NEW A, NEW list, WholeCircle(list, A), NEW k \in 1 .. list.size,
           NEW m, m = Free(Unlink(list, Walk(list)[k]), Walk(list)[k])
    PROVE  /\ WholeCircle(m, A) /\ m.size = list.size - 1
           /\ Walk(m) = Without(Walk(list), list.size, k)
           /\ Elements(m) = Without(Elements(list), list.size, k)
<1>1. PICK s, t, n : s = Walk(list) /\ n = list.size /\ t = Without(s, n, k)
  OBVIOUS
<1>2. Circle(list, s) /\ Owns(list, s) /\ DOMAIN list.heap \subseteq A
  BY <1>1 DEF WholeCircle
<1>3. /\ Circle(m, t) /\ m.size = n - 1 /\ DOMAIN m.heap = DOMAIN list.heap \ {s[k]}
      /\ KeepsData(m, list) /\ Owns(m, t)
  BY <1>1, <1>2, TakeOffIsCircle
<1>4. Walk(m) = t /\ Elements(m) = [i \in 1 .. m.size |-> m.heap[t[i]].data]
  <2>1. Circle(m, t)
    BY <1>3
  <2>2. ReadAs(m, t)
    BY <2>1, WalkOf
  <2> QED
    BY <2>2 DEF ReadAs
<1>5. /\ n \in Nat /\ Elements(list) = [i \in 1 .. n |-> list.heap[s[i]].data]
  BY <1>1, WholeList
<1>6. ASSUME NEW i \in 1 .. n - 1
      PROVE  m.heap[t[i]].data = IF i < k THEN Elements(list)[i] ELSE Elements(list)[i + 1]
  <2>1. PICK j : j = IF i < k THEN i ELSE i + 1
    OBVIOUS
  <2>2. j \in 1 .. n /\ t[i] = s[j]
    BY <1>1, <1>5, <2>1 DEF Without
  <2>3. t[i] \in DOMAIN m.heap /\ t[i] \in DOMAIN list.heap
    BY <1>3 DEF Circle, Names
  <2>4. m.heap[t[i]].data = list.heap[s[j]].data
    BY <1>3, <2>2, <2>3 DEF KeepsData
  <2> QED
    BY <1>5, <2>1, <2>2, <2>4
<1>7. Elements(m) = Without(Elements(list), n, k)
  BY <1>3, <1>4, <1>6 DEF Without
<1> QED
  BY <1>1, <1>2, <1>3, <1>4, <1>7 DEF WholeCircle

\* ll_add_nth_node behind the last node puts the data there.
LEMMA LastElements ==
    ASSUME NEW A, Null \notin A, NEW list, WholeChain(list, A), NEW x \in A \ DOMAIN list.heap,
           NEW data, NEW m, m = LlAddNth(list, list.size, x, data)
    PROVE  /\ WholeChain(m, A) /\ m.size = list.size + 1
           /\ Elements(m) = WithLast(Elements(list), list.size, data)
<1>1. PICK s, t, n : s = Walk(list) /\ n = list.size /\ t = WithLast(s, n, x)
  OBVIOUS
<1>2. Chain(list, s) /\ Owns(list, s) /\ DOMAIN list.heap \subseteq A
  BY <1>1 DEF WholeChain
<1>3. ChainAdded(m, list, s, t, x, data)
  BY <1>1, <1>2, LlAddLastIsChain
<1>4. Walk(m) = t /\ Elements(m) = [i \in 1 .. m.size |-> m.heap[t[i]].data]
  <2>1. Chain(m, t)
    BY <1>3 DEF ChainAdded
  <2>2. ReadAs(m, t)
    BY <2>1, WalkOf
  <2> QED
    BY <2>2 DEF ReadAs
<1>5. /\ n \in Nat /\ s \in [1 .. n -> DOMAIN list.heap]
      /\ Elements(list) = [i \in 1 .. n |-> list.heap[s[i]].data]
  BY <1>1, WholeList
<1>6. ASSUME NEW i \in 1 .. n + 1
      PROVE  m.heap[t[i]].data = IF i = n + 1 THEN data ELSE Elements(list)[i]
  <2>1. CASE i = n + 1
    BY <1>1, <1>3, <2>1 DEF WithLast, ChainAdded
  <2>2. CASE i # n + 1
    <3>1. i \in 1 .. n /\ t[i] = s[i] /\ s[i] \in DOMAIN list.heap
      BY <1>1, <1>5, <2>2 DEF WithLast
    <3> QED
      BY <1>3, <1>5, <2>2, <3>1 DEF ChainAdded, KeepsData
  <2> QED
    BY <2>1, <2>2
<1>7. Elements(m) = WithLast(Elements(list), n, data)
  BY <1>1, <1>3, <1>4, <1>6 DEF WithLast, ChainAdded
<1> QED
  BY <1>1, <1>2, <1>3, <1>4, <1>7 DEF ChainAdded, WholeChain

\* ll_remove_nth_node at 0, and free: the data behind the first stay.
LEMMA FirstElements ==
    ASSUME NEW A, NEW list, WholeChain(list, A), list.size # 0,
           NEW m, m = Free(LlRemoveNth(list, 0), list.head)
    PROVE  /\ WholeChain(m, A) /\ m.size = list.size - 1
           /\ Elements(m) = Without(Elements(list), list.size, 1)
           /\ list.heap[list.head].data = Elements(list)[1]
<1>1. PICK s, t, n : s = Walk(list) /\ n = list.size /\ t = Without(s, n, 1)
  OBVIOUS
<1>2. Chain(list, s) /\ Owns(list, s) /\ DOMAIN list.heap \subseteq A
  BY <1>1 DEF WholeChain
<1>3. /\ Chain(m, t) /\ m.size = n - 1 /\ DOMAIN m.heap = DOMAIN list.heap \ {s[1]}
      /\ KeepsData(m, list) /\ Owns(m, t)
  BY <1>1, <1>2, LlTakeFirstIsChain
<1>4. Walk(m) = t /\ Elements(m) = [i \in 1 .. m.size |-> m.heap[t[i]].data]
  <2>1. Chain(m, t)
    BY <1>3
  <2>2. ReadAs(m, t)
    BY <2>1, WalkOf
  <2> QED
    BY <2>2 DEF ReadAs
<1>5. /\ n \in Nat /\ Elements(list) = [i \in 1 .. n |-> list.heap[s[i]].data]
      /\ list.head = s[1] /\ 1 \in 1 .. n
  <2>1. n \in Nat /\ n # 0
    BY <1>1, WholeList
  <2> QED
    BY <1>1, <2>1, WholeList
<1>6. ASSUME NEW i \in 1 .. n - 1
      PROVE  m.heap[t[i]].data = Elements(list)[i + 1] /\ ~ (i < 1)
  <2>1. i + 1 \in 1 .. n /\ t[i] = s[i + 1] /\ ~ (i < 1)
    BY <1>1, <1>5 DEF Without
  <2>2. t[i] \in DOMAIN m.heap /\ t[i] \in DOMAIN list.heap
    BY <1>3 DEF Chain, Names
  <2>3. m.heap[t[i]].data = list.heap[s[i + 1]].data
    BY <1>3, <2>1, <2>2 DEF KeepsData
  <2> QED
    BY <1>5, <2>1, <2>3
<1>7. Elements(m) = Without(Elements(list), n, 1)
  BY <1>3, <1>4, <1>6 DEF Without
<1> QED
  BY <1>1, <1>2, <1>3, <1>4, <1>5, <1>7 DEF WholeChain
=============================================================================
