------------------------------- MODULE Server -------------------------------
(***************************************************************************)
(* One server of the database: a bounded queue of EDITs not yet executed,  *)
(* a local database and an LRU cache in front of it.  The actions below    *)
(* are the operations the load balancer calls; DistributedDatabase puts    *)
(* them together.                                                          *)
(*                                                                         *)
(* local_database is a linked list that is searched for the first document *)
(* of a name.  Here it is a set of documents, and a search returns any     *)
(* document of that name: while no two of them share a name, which is one  *)
(* of the invariants checked, the order of the list cannot be observed.    *)
(***************************************************************************)
EXTENDS HashRing, LruCache

CONSTANTS
    Content,        \* what a document may contain
    NoContent,      \* the NULL response to a GET of an unknown document
    TaskQueueSize   \* TASK_QUEUE_SIZE

ASSUME ServerConstants ==
    /\ NoContent \notin Content
    /\ TaskQueueSize \in Nat

VARIABLES
    taskQueue,      \* taskQueue[s]: the EDITs s acknowledged and has not executed
    localDatabase,  \* localDatabase[s]: the documents stored on s
    cache,          \* cache[s]: its LRU cache
    capacity,       \* capacity[s]: cache->cache_capacity
    reply           \* the response printed by the last step, if it printed one

serverVars == <<taskQueue, localDatabase, cache, capacity, reply>>

Task == [doc : Doc, content : Content]

\* server_data_t; its data_hash is DocHash[name] from creation to deletion.
Document == [name : Doc, content : Content, replica : Replica]

NoReply == [kind |-> "none"]
Queued(d) == [kind |-> "queued", doc |-> d]
Overridden(d) == [kind |-> "overridden", doc |-> d]
Created(d) == [kind |-> "created", doc |-> d]
Got(d, c) == [kind |-> "got", doc |-> d, content |-> c]

Reply ==
    {NoReply}
      \union {Queued(d) : d \in Doc}
      \union {Overridden(d) : d \in Doc}
      \union {Created(d) : d \in Doc}
      \union {Got(d, c) : d \in Doc, c \in Content \union {NoContent}}

\* get_server_data_by_name
Stored(s, d) == {doc \in localDatabase[s] : doc.name = d}

\* Fault: the cache keeps no capacity.
InitServerWithoutSize(s, size) ==
    /\ reply' = NoReply
    /\ UNCHANGED <<taskQueue, localDatabase, cache, capacity>>

(***************************************************************************)
(* init_server, and free_server, which drops the queued EDITs unexecuted.  *)
(***************************************************************************)
InitServer(s, size) ==
    /\ capacity' = [capacity EXCEPT ![s] = size]
    /\ reply' = NoReply
    /\ UNCHANGED <<taskQueue, localDatabase, cache>>

FreeServer(s) ==
    /\ taskQueue' = [taskQueue EXCEPT ![s] = <<>>]
    /\ localDatabase' = [localDatabase EXCEPT ![s] = {}]
    /\ cache' = [cache EXCEPT ![s] = <<>>]
    /\ capacity' = [capacity EXCEPT ![s] = 0]
    /\ reply' = NoReply

\* Fault: the newest EDIT is executed first.
PushTaskInFront(s, task) ==
    taskQueue' = IF Len(taskQueue[s]) < TaskQueueSize
                 THEN [taskQueue EXCEPT ![s] = <<task>> \o @]
                 ELSE taskQueue

(***************************************************************************)
(* server_handle_request for an EDIT: it is queued, unless the queue is    *)
(* full.  The response says it was queued in both cases.                   *)
(***************************************************************************)
PushTask(s, task) ==
    taskQueue' = IF Len(taskQueue[s]) < TaskQueueSize
                 THEN [taskQueue EXCEPT ![s] = Append(@, task)]
                 ELSE taskQueue

QueueEdit(s, d, c) ==
    /\ PushTask(s, [doc |-> d, content |-> c])
    /\ reply' = Queued(d)
    /\ UNCHANGED <<localDatabase, cache, capacity>>

(***************************************************************************)
(* server_edit_document: the document is overridden or created in the      *)
(* local database, and written through to the cache.                       *)
(***************************************************************************)
OverrideDocument(s, d, c) ==
    \E doc \in Stored(s, d) :
        /\ localDatabase' = [localDatabase EXCEPT
                                ![s] = (@ \ {doc}) \union {[doc EXCEPT !.content = c]}]
        /\ reply' = Overridden(d)

CreateDocument(s, d, c) ==
    /\ Stored(s, d) = {}
    /\ \E i \in Replica :
        /\ IsReplicaExecutor(s, DocHash[d], i)
        /\ localDatabase' = [localDatabase EXCEPT
                                ![s] = @ \union {[name |-> d, content |-> c, replica |-> i]}]
    /\ reply' = Created(d)

\* Fault: the cache is looked at, but not written to.
EditDocumentNotCached(s, d, c) ==
    /\ OverrideDocument(s, d, c) \/ CreateDocument(s, d, c)
    /\ cache' = [cache EXCEPT ![s] = LruGet(@, d)]

EditDocument(s, d, c) ==
    /\ OverrideDocument(s, d, c) \/ CreateDocument(s, d, c)
    /\ cache' = [cache EXCEPT
                    ![s] = LruPut(LruGet(@, d), capacity[s], d, c)]

\* Fault: the task stays at the head of the queue.
ExecuteTaskWithoutPop(s) ==
    /\ taskQueue[s] # <<>>
    /\ capacity[s] > 0
    /\ EditDocument(s, Head(taskQueue[s]).doc, Head(taskQueue[s]).content)
    /\ UNCHANGED <<taskQueue, capacity>>

(***************************************************************************)
(* One iteration of execute_server_task_queue.  The hash table of a cache  *)
(* of capacity 0 has no buckets and cannot be searched, here and below.    *)
(***************************************************************************)
ExecuteTask(s) ==
    /\ taskQueue[s] # <<>>
    /\ capacity[s] > 0
    /\ EditDocument(s, Head(taskQueue[s]).doc, Head(taskQueue[s]).content)
    /\ taskQueue' = [taskQueue EXCEPT ![s] = Tail(@)]
    /\ UNCHANGED capacity

(***************************************************************************)
(* server_get_document, with its three outcomes.                           *)
(***************************************************************************)
GetFromCache(s, d) ==
    /\ IsCached(cache[s], d)
    /\ reply' = Got(d, CachedValue(cache[s], d))
    /\ cache' = [cache EXCEPT
                    ![s] = LruPutNoEvict(LruGet(@, d), d, CachedValue(@, d))]

GetFromDatabase(s, d) ==
    /\ ~ IsCached(cache[s], d)
    /\ \E doc \in Stored(s, d) :
        /\ reply' = Got(d, doc.content)
        /\ cache' = [cache EXCEPT ![s] = LruPut(@, capacity[s], d, doc.content)]

GetNothing(s, d) ==
    /\ ~ IsCached(cache[s], d)
    /\ Stored(s, d) = {}
    /\ reply' = Got(d, NoContent)
    /\ UNCHANGED cache

GetDocument(s, d) ==
    /\ taskQueue[s] = <<>>
    /\ capacity[s] > 0
    /\ GetFromCache(s, d) \/ GetFromDatabase(s, d) \/ GetNothing(s, d)
    /\ UNCHANGED <<taskQueue, localDatabase, capacity>>
=============================================================================
