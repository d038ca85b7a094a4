---------------------------- MODULE ServerLists ----------------------------
(***************************************************************************)
(* The task queue and the local database of a server in memory, and the    *)
(* loops over them: the drain of the queue, the walks in which             *)
(* loader_add_server and loader_remove_server move documents to another    *)
(* server while they go over the list that shrinks, and free_server.  The  *)
(* first walk has, next to its pointer, an index that has to name the same *)
(* node.  The queue has no pointer to its end: every push walks there by   *)
(* the size that the list keeps.                                           *)
(*                                                                         *)
(* Which documents leave is decided elsewhere (Leaves, in                  *)
(* DistributedDatabase); here it is any set of them.  Only the data of a   *)
(* node are compared and moved, so a task, and a document, is just a name. *)
(* The three lists have separate memories.                                 *)
(***************************************************************************)
EXTENDS LinkedList, Sequences, SequencesExt, FiniteSets

CONSTANTS
    Doc,            \* the documents in use
    Nobody,         \* no document
    Node,           \* the addresses malloc may return for a node of one list
    TaskQueueSize,  \* TASK_QUEUE_SIZE
    IndexSize       \* the number of values of an unsigned index

\* An unsigned can count the nodes that the memory has room for.
ASSUME ListConstants ==
    /\ TaskQueueSize \in Nat
    /\ IndexSize \in Nat \ {0}
    /\ IsFiniteSet(Node) /\ Cardinality(Node) <= IndexSize
    /\ Null \notin Node
    /\ Nobody \notin Doc

VARIABLES
    queue,      \* task_queue->list: the documents that the EDITs are about
    executed,   \* the document of the task that the latest step executed
    from,       \* local_database
    to,         \* the local database of a server that documents move to
    leaving,    \* the documents that the walk moves
    loop,       \* the loop that is running
    current,    \* current_data_node
    index       \* server_data_index

queueVars == <<queue, executed>>
walkVars == <<leaving, current, index>>
listVars == <<queueVars, from, to, loop, walkVars>>

\* Fault: the node is taken off the list and not freed.
PopQueueLeaking(list) == LlRemoveNth(list, 0)

\* pop_queue, and the two calls of free that follow it everywhere.
PopQueue(list) == Free(LlRemoveNth(list, 0), list.head)

\* Fault: the index of the last node instead of the one behind it.
PushBeforeLast(list, x, d) == LlAddNth(list, IF list.size = 0 THEN 0 ELSE list.size - 1, x, d)

PushQueue(list, x, d) == LlAddNth(list, list.size, x, d)

PeekQueue(list) == list.heap[list.head].data

StoredIn(list) == Range(Elements(list))
-----------------------------------------------------------------------------
Init ==
    /\ queue = EmptyList /\ executed = Nobody
    /\ from = EmptyList /\ to = EmptyList
    /\ loop = "none"
    /\ leaving = {} /\ current = Null /\ index = 0

\* push_task_queue.  The EDITs of what moved away go where it is.
PushTask(d) ==
    /\ loop = "none"
    /\ d \notin StoredIn(to)
    /\ IF queue.size < TaskQueueSize
       THEN \E x \in Node \ DOMAIN queue.heap : queue' = PushQueue(queue, x, d)
       ELSE UNCHANGED queue
    /\ UNCHANGED <<executed, from, to, loop, walkVars>>

\* execute_server_task_queue is called, by a GET, an addition or a removal.
BeginDrain ==
    /\ loop = "none"
    /\ loop' = "draining"
    /\ UNCHANGED <<queueVars, from, to, walkVars>>

\* Fault: the task is executed and stays in front.
ExecuteTaskWithoutPop ==
    /\ loop = "draining" /\ queue.size # 0
    /\ executed' = PeekQueue(queue)
    /\ UNCHANGED <<queue, from, to, loop, walkVars>>

\* An iteration: server_edit_document adds a document that is not there.
ExecuteTask ==
    /\ loop = "draining" /\ queue.size # 0
    /\ executed' = PeekQueue(queue)
    /\ queue' = PopQueue(queue)
    /\ IF executed' \in StoredIn(from)
       THEN UNCHANGED from
       ELSE \E x \in Node \ DOMAIN from.heap : from' = AddTail(from, x, executed')
    /\ UNCHANGED <<to, loop, walkVars>>

\* The drain is over.  What follows begins at once.
Drained(next) ==
    /\ loop = "draining" /\ queue.size = 0
    /\ loop' = next
    /\ executed' = Nobody
    /\ UNCHANGED <<queue, from, to>>

Answer == Drained("none") /\ UNCHANGED walkVars

\* A walk starts at the head: one label of loader_add_server, or
\* loader_remove_server, which moves every document.
BeginAdd ==
    /\ Drained("adding")
    /\ leaving' \in SUBSET Doc
    /\ current' = from.head
    /\ UNCHANGED index

BeginRemove ==
    /\ Drained("removing")
    /\ leaving' = Doc
    /\ current' = from.head
    /\ UNCHANGED index
-----------------------------------------------------------------------------
AddToTarget(d) == \E x \in Node \ DOMAIN to.heap : to' = AddNth(to, 0, x, d)

\* Fault: the index counts the node that was removed.
IndexAfterMoveKept(n) == (n + 1) % IndexSize

\* server_data_index-- at the removal, and ++ at the end of every iteration.
IndexAfterMove(n) == (((n - 1) % IndexSize) + 1) % IndexSize

(***************************************************************************)
(* An iteration for a document that leaves.  next_data_node is read before *)
(* the removal; the node removed is found by the index, and the document   *)
(* is that of the current node.                                            *)
(***************************************************************************)
MoveDocument ==
    /\ loop = "adding" /\ current # Null
    /\ from.heap[current].data \in leaving
    /\ AddToTarget(from.heap[current].data)
    /\ LET removed == NthOrLast(from, index)
       IN  from' = Free(Unlink(from, removed), removed)
    /\ index' = IndexAfterMove(index)
    /\ current' = NextNode(from, current)
    /\ UNCHANGED <<queueVars, leaving, loop>>

\* Fault: only the branches that move a document go on to the next node.
KeepDocumentForEver ==
    /\ loop = "adding" /\ current # Null
    /\ from.heap[current].data \notin leaving
    /\ index' = (index + 1) % IndexSize
    /\ UNCHANGED <<queueVars, from, to, leaving, loop, current>>

KeepDocument ==
    /\ loop = "adding" /\ current # Null
    /\ from.heap[current].data \notin leaving
    /\ index' = (index + 1) % IndexSize
    /\ current' = NextNode(from, current)
    /\ UNCHANGED <<queueVars, from, to, leaving, loop>>

\* loader_remove_server unlinks the first node and frees the current one.
DistributeDocument ==
    /\ loop = "removing" /\ current # Null
    /\ AddToTarget(from.heap[current].data)
    /\ from' = Free(Unlink(from, NthOrLast(from, 0)), current)
    /\ current' = NextNode(from, current)
    /\ UNCHANGED <<queueVars, leaving, loop, index>>

\* The server that was removed is freed at once.
EndWalk ==
    /\ loop \in {"adding", "removing"} /\ current = Null
    /\ loop' = IF loop = "removing" THEN "freeing" ELSE "none"
    /\ leaving' = {} /\ index' = 0
    /\ UNCHANGED <<queueVars, from, to, current>>
-----------------------------------------------------------------------------
\* The last server leaves: it is freed with its documents.
BeginFreeLast == Drained("freeing") /\ UNCHANGED walkVars

\* The program ends: a server is freed with its tasks and documents.
BeginFree ==
    /\ loop = "none"
    /\ loop' = "freeing"
    /\ UNCHANGED <<queueVars, from, to, walkVars>>

FreeTask ==
    /\ loop = "freeing" /\ queue.size # 0
    /\ queue' = PopQueue(queue)
    /\ UNCHANGED <<executed, from, to, loop, walkVars>>

FreeDocument ==
    /\ loop = "freeing" /\ queue.size = 0 /\ from.size # 0
    /\ LET removed == NthOrLast(from, 0)
       IN  from' = Free(Unlink(from, removed), removed)
    /\ UNCHANGED <<queueVars, to, loop, walkVars>>

\* destroy_queue and dll_free find nothing more to free.  The next server
\* starts with new lists, in the memory as it is.
FreeServer ==
    /\ loop = "freeing" /\ queue.size = 0 /\ from.size = 0
    /\ queue' = [EmptyList EXCEPT !.heap = queue.heap]
    /\ from' = [EmptyList EXCEPT !.heap = from.heap]
    /\ loop' = "none"
    /\ UNCHANGED <<executed, to, walkVars>>

\* The documents of the target move on, and another newcomer starts empty.
NextTarget ==
    /\ loop = "none"
    /\ to' = EmptyList
    /\ UNCHANGED <<queueVars, from, loop, walkVars>>

Progress ==
    \/ ExecuteTask \/ Answer \/ BeginAdd \/ BeginRemove \/ BeginFreeLast
    \/ MoveDocument \/ KeepDocument \/ DistributeDocument \/ EndWalk
    \/ FreeTask \/ FreeDocument \/ FreeServer

Next ==
    \/ \E d \in Doc : PushTask(d)
    \/ BeginDrain \/ BeginFree \/ NextTarget
    \/ Progress

Spec == Init /\ [][Next]_listVars

\* The process is scheduled while it is in a loop.
FairSpec == Spec /\ WF_listVars(Progress)
-----------------------------------------------------------------------------
\* ListsIntact: the queue stays one chain and the databases stay one circle of
\* the allocated nodes, whatever the loops took out of them: no node is freed
\* while it is linked, and none is left behind when the server is freed.
ListsIntact == IsChain(queue) /\ IsRing(from) /\ IsRing(to)

\* IndexNamesCurrent: in loader_add_server the index, which is decremented
\* below 0 when the head leaves, always names the current node again.  The
\* document copied to the newcomer is then the one whose node is removed.
IndexNamesCurrent ==
    loop = "adding" /\ current # Null =>
        /\ current \in DOMAIN from.heap
        /\ index < from.size
        /\ NthNode(from, index) = current

\* NobodyTwice: no walk and no drain stores a document a second time.
NobodyTwice == IsInjective(Elements(from) \o Elements(to))

Queue == INSTANCE BoundedQueue
    WITH Task <- Doc, NoTask <- Nobody, Limit <- TaskQueueSize,
         tasks <- Elements(queue),
         loop <- IF loop \in {"draining", "freeing"} THEN loop ELSE "none"

\* ImplementsBoundedQueue: the linked list behaves as the sequence by which
\* Server models it: first in, first out, never longer than TASK_QUEUE_SIZE.
ImplementsBoundedQueue == Queue!QueueSpec

Moves == INSTANCE DocumentMoves
    WITH source <- StoredIn(from), target <- StoredIn(to), moving <- loop \in {"adding", "removing"}

\* ImplementsMoves: seen as sets of documents, a walk moves the documents that
\* are to leave, one at a time, and does not end before the last of them: the
\* steps by which DistributedDatabase models it.
ImplementsMoves == Moves!MovesSpec

\* LoopsEnd: the loops ask the lists for their size, or for the next node, of
\* lists that they change, and yet come to an end.
LoopsEnd == loop # "none" ~> loop = "none"

\* LoopsAdvance: why they do.  Each iteration shortens the queue, or, with the
\* queue as it is, ends the walk, or leaves fewer nodes from the index on.
LoopsAdvance ==
    [][loop # "none" /\ loop' = loop =>
        \/ queue'.size < queue.size
        \/ queue' = queue /\ current # Null /\ current' = Null
        \/ queue' = queue /\ from'.size - index' < from.size - index]_listVars
=============================================================================
