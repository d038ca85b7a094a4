----------------------------- MODULE LinkedList -----------------------------
(***************************************************************************)
(* The lists of linked_list.c, as they lie in memory.  A list, of either   *)
(* kind, is a record with the fields heap (the allocated nodes by address),*)
(* head and size; it may have more fields, which the operators leave       *)
(* alone.  Each operator is one function of the code, from list to list.   *)
(* Removing a node takes it off the list; its memory is freed by the       *)
(* caller.                                                                 *)
(***************************************************************************)
EXTENDS Integers, Functions

CONSTANT Null

ListNode(Data, Node) == [data : Data, prev : Node, next : Node]

\* dll_create, ll_create
EmptyList == [heap |-> << >>, head |-> Null, size |-> 0]

\* dll_get_nth_node, and the loops that go n steps along a singly linked list
NthNode(list, n) ==
    LET node[i \in Nat] == IF i = 0 THEN list.head ELSE list.heap[node[i - 1]].next
    IN  node[n]

\* dll_get_next_node: Null behind the last node.
NextNode(list, x) ==
    IF list.head = Null \/ list.heap[x].next = list.head THEN Null ELSE list.heap[x].next

\* The heap after malloc returned x, and the new node was filled in.
Allocate(heap, x, node) == [y \in {x} \union DOMAIN heap |-> IF y = x THEN node ELSE heap[y]]

AddFirst(list, x, data) ==
    [list EXCEPT !.heap = Allocate(@, x, [data |-> data, prev |-> x, next |-> x]),
                 !.head = x, !.size = 1]

\* The new node x comes between the node and the one before it: the last, if
\* the node is the head.
InsertBefore(list, node, x, data) ==
    LET before == list.heap[node].prev
        new == [data |-> data, prev |-> before, next |-> node]
    IN  [list EXCEPT !.heap = [Allocate(@, x, new) EXCEPT ![before].next = x, ![node].prev = x],
                     !.size = @ + 1]

\* dll_add_nth_node
AddNth(list, n, x, data) ==
    IF list.size = 0 THEN AddFirst(list, x, data)
    ELSE IF n = 0 THEN [InsertBefore(list, list.head, x, data) EXCEPT !.head = x]
    ELSE InsertBefore(list, NthNode(list, IF n < list.size THEN n ELSE 0), x, data)

\* Fault: the pair is put in front of the list.
AddTailAtHead(list, x, data) == AddNth(list, 0, x, data)

\* dll_add_tail
AddTail(list, x, data) ==
    IF list.size = 0 THEN AddFirst(list, x, data) ELSE InsertBefore(list, list.head, x, data)

\* Fault: the head of the list may be a node that left it.
UnlinkKeepingHead(list, x) ==
    [list EXCEPT !.heap[list.heap[x].prev].next = list.heap[x].next,
                 !.heap[list.heap[x].next].prev = list.heap[x].prev,
                 !.size = @ - 1]

\* dll_remove_nth_node once it found the node, and the same written out in
\* lru_cache_put and lru_cache_remove.
Unlink(list, x) ==
    [list EXCEPT !.heap[list.heap[x].prev].next = list.heap[x].next,
                 !.heap[list.heap[x].next].prev = list.heap[x].prev,
                 !.size = @ - 1,
                 !.head = IF list.size = 1 THEN Null ELSE IF @ = x THEN list.heap[x].next ELSE @]

\* The node dll_remove_nth_node takes: one beyond the end is the last.
NthOrLast(list, n) == NthNode(list, IF n >= list.size THEN list.size - 1 ELSE n)

Free(list, x) == [list EXCEPT !.heap = Restrict(@, DOMAIN @ \ {x})]
-----------------------------------------------------------------------------
(***************************************************************************)
(* The singly linked list: no way back, and no pointer to the end.         *)
(***************************************************************************)
LlAddHead(list, x, data) ==
    [list EXCEPT !.heap = Allocate(@, x, [data |-> data, next |-> list.head]),
                 !.head = x, !.size = @ + 1]

LlAddBehind(list, curr, x, data) ==
    LET new == [data |-> data, next |-> list.heap[curr].next]
    IN  [list EXCEPT !.heap = [Allocate(@, x, new) EXCEPT ![curr].next = x], !.size = @ + 1]

\* ll_add_nth_node
LlAddNth(list, n, x, data) ==
    LET at == IF n > list.size THEN list.size ELSE n
    IN  IF list.head = Null \/ at = 0
        THEN LlAddHead(list, x, data)
        ELSE LlAddBehind(list, NthNode(list, at - 1), x, data)

\* ll_remove_nth_node of a list that is not empty, n being one of its indexes.
LlRemoveNth(list, n) ==
    [(IF n = 0 THEN [list EXCEPT !.head = list.heap[@].next]
      ELSE [list EXCEPT !.heap[NthNode(list, n - 1)].next = list.heap[NthNode(list, n)].next])
     EXCEPT !.size = @ - 1]
-----------------------------------------------------------------------------
\* The nodes of a list in order, and what they hold.
Walk(list) == [i \in 1 .. list.size |-> NthNode(list, i - 1)]

Elements(list) == [i \in 1 .. list.size |-> list.heap[NthNode(list, i - 1)].data]

\* The nodes in memory are exactly the nodes of the list, in one circle of the
\* length the list believes it has, with prev the inverse of next.
IsRing(list) ==
    /\ \A x \in DOMAIN list.heap :
        /\ {list.heap[x].next, list.heap[x].prev} \subseteq DOMAIN list.heap
        /\ list.heap[list.heap[x].next].prev = x
    /\ list.head \in IF list.size = 0 THEN {Null} ELSE DOMAIN list.heap
    /\ IsInjective(Walk(list)) /\ Range(Walk(list)) = DOMAIN list.heap

\* As many nodes as the list believes to have lead from the head to the null
\* pointer, all different, and no other node is allocated.
IsChain(list) ==
    /\ NthNode(list, list.size) = Null
    /\ IsInjective(Walk(list)) /\ Range(Walk(list)) = DOMAIN list.heap
=============================================================================
