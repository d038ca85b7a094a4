------------------------ MODULE DistributedDatabase ------------------------
(***************************************************************************)
(* The load balancer and its servers: the whole program, from one request  *)
(* of the input file to the next.                                          *)
(*                                                                         *)
(* The program is sequential.  A request that drains a task queue or moves *)
(* documents runs a loop whose iterations print responses and change two   *)
(* servers in turn; job records where in the loop the program is, and each *)
(* step below is one iteration.  No step of a job may be skipped, and no   *)
(* other request starts before the job is Idle again.                      *)
(***************************************************************************)
EXTENDS Server

CONSTANT CacheSize  \* the cache sizes an ADD_SERVER request may ask for

ASSUME CacheSizes == CacheSize \subseteq Nat

VARIABLES
    live,   \* main->servers, as the set of their ids
    job     \* the request being executed

vars == <<serverVars, live, job>>

Idle == [op |-> "idle"]
\* a GET of d, served by the server s that is drained first
Getting(d, s) == [op |-> "get", doc |-> d, target |-> s]
\* the addition of x, at its replica r, whose next point on the ring is p
Adding(x, r, p) ==
    [op |-> "add", newcomer |-> x, label |-> r, target |-> p.server, index |-> p.replica]
\* the removal of x, already out of the server list
Removing(x) == [op |-> "remove", target |-> x]
Crashed == [op |-> "crashed"]
Finished == [op |-> "finished"]

Job ==
    {Idle, Crashed, Finished}
      \union {Getting(d, s) : d \in Doc, s \in Server}
      \union {Adding(x, r, p) : x \in Server, r \in Replica, p \in Point}
      \union {Removing(x) : x \in Server}

Draining == job.op \in {"get", "add", "remove"}

\* Fault: a request does not wait for the queue to be drained.
NoDrain == TRUE

NoTasksLeft == taskQueue[job.target] = <<>>

Init ==
    /\ taskQueue = [s \in Server |-> <<>>]
    /\ localDatabase = [s \in Server |-> {}]
    /\ cache = [s \in Server |-> <<>>]
    /\ capacity = [s \in Server |-> 0]
    /\ reply = NoReply
    /\ live = {}
    /\ job = Idle

-----------------------------------------------------------------------------
(***************************************************************************)
(* loader_forward_request.  An EDIT is one step; a GET first drains the    *)
(* queue of the server it is forwarded to.  Without a server there is      *)
(* nothing to forward to, and the program dereferences NULL.               *)
(***************************************************************************)
Edit(d, c) ==
    /\ job = Idle
    /\ \E p \in Points(live) :
        /\ IsNextReplica(Points(live), DocHash[d], p)
        /\ QueueEdit(p.server, d, c)
    /\ UNCHANGED <<live, job>>

BeginGet(d) ==
    /\ job = Idle
    /\ \E p \in Points(live) :
        /\ IsNextReplica(Points(live), DocHash[d], p)
        /\ job' = Getting(d, p.server)
    /\ reply' = NoReply
    /\ UNCHANGED <<taskQueue, localDatabase, cache, capacity, live>>

FinishGet ==
    /\ job.op = "get"
    /\ GetDocument(job.target, job.doc)
    /\ job' = Idle
    /\ UNCHANGED live

\* get_next_replica has found nobody to forward a request for d to.
ForwardToNobody(d) ==
    /\ job = Idle
    /\ ~ \E p \in Points(live) : IsNextReplica(Points(live), DocHash[d], p)
    /\ job' = Crashed
    /\ reply' = NoReply
    /\ UNCHANGED <<taskQueue, localDatabase, cache, capacity, live>>

\* execute_server_task_queue, called by a GET, an ADD_SERVER or a REMOVE_SERVER.
DrainTask ==
    /\ Draining
    /\ ExecuteTask(job.target)
    /\ UNCHANGED <<live, job>>

-----------------------------------------------------------------------------
(***************************************************************************)
(* loader_add_server.  For each label of the newcomer in turn: find the    *)
(* next point on the ring without the newcomer, drain the queue of its     *)
(* server, and move the documents filed under that point which precede the *)
(* newcomer.  Only then does the newcomer join the server list.            *)
(*                                                                         *)
(* An id is added only while it is not in use: the code does not check it, *)
(* and an id names one server in every request.                            *)
(***************************************************************************)
BeginAdd(x, size) ==
    /\ job = Idle
    /\ x \notin live
    /\ InitServer(x, size)
    /\ IF live = {}
       THEN live' = {x} /\ job' = Idle
       ELSE /\ \E p \in Points(live) :
                /\ IsNextReplica(Points(live), ServerHash[x][0], p)
                /\ job' = Adding(x, 0, p)
            /\ UNCHANGED live

\* Fault: the documents beyond the last point of the ring are forgotten.
BelongsWithoutWrap(new, next, d) ==
    \/ new < next /\ new > d
    \/ new > next /\ new > d /\ d > next

\* The test deciding whether the document precedes the newcomer's label.
BelongsToNewcomer(new, next, d) ==
    \/ new < next /\ (new > d \/ next < d)
    \/ new > next /\ new > d /\ d > next

\* Fault: documents leave from all the labels of the next server.
LeavesAnyLabel(doc) ==
    BelongsToNewcomer(ServerHash[job.newcomer][job.label],
                      ServerHash[job.target][job.index], DocHash[doc.name])

Leaves(doc) ==
    LET new == ServerHash[job.newcomer][job.label]
        next == ServerHash[job.target][job.index]
    IN  /\ doc.replica = job.index
        /\ \/ BelongsToNewcomer(new, next, DocHash[doc.name])
           \/ new = next /\ job.newcomer < job.target

MoveDocument(doc) ==
    /\ job.op = "add"
    /\ NoTasksLeft
    /\ doc \in localDatabase[job.target]
    /\ Leaves(doc)
    /\ capacity[job.target] > 0
    /\ localDatabase' = [localDatabase EXCEPT
            ![job.target] = @ \ {doc},
            ![job.newcomer] = @ \union {[doc EXCEPT !.replica = job.label]}]
    /\ cache' = [cache EXCEPT ![job.target] = LruRemove(@, doc.name)]
    /\ reply' = NoReply
    /\ UNCHANGED <<taskQueue, capacity, live, job>>

MovesDone ==
    /\ job.op = "add"
    /\ NoTasksLeft
    /\ \A doc \in localDatabase[job.target] : ~ Leaves(doc)

NextLabel ==
    /\ MovesDone
    /\ job.label + 1 < NumReplicas
    /\ \E p \in Points(live) :
        /\ IsNextReplica(Points(live), ServerHash[job.newcomer][job.label + 1], p)
        /\ job' = Adding(job.newcomer, job.label + 1, p)
    /\ reply' = NoReply
    /\ UNCHANGED <<taskQueue, localDatabase, cache, capacity, live>>

\* Every document the newcomer received is filed again under the label that
\* get_associated_label_index_for_data finds for it.
FinishAdd ==
    /\ MovesDone
    /\ job.label + 1 = NumReplicas
    /\ \E label \in [localDatabase[job.newcomer] -> Replica] :
        /\ \A doc \in localDatabase[job.newcomer] :
                IsReplicaExecutor(job.newcomer, DocHash[doc.name], label[doc])
        /\ localDatabase' = [localDatabase EXCEPT
                ![job.newcomer] = {[doc EXCEPT !.replica = label[doc]] : doc \in @}]
    /\ live' = live \union {job.newcomer}
    /\ job' = Idle
    /\ reply' = NoReply
    /\ UNCHANGED <<taskQueue, cache, capacity>>

-----------------------------------------------------------------------------
(***************************************************************************)
(* loader_remove_server.  The server leaves the list, its queue is         *)
(* drained, and each of its documents goes to the point that follows the   *)
(* label it was filed under.  If no other server is left the documents are *)
(* freed with it.  The id of an unknown server changes nothing.            *)
(***************************************************************************)
\* Fault: the server is still listed when its documents are distributed.
BeginRemoveListed(x) ==
    /\ job = Idle
    /\ x \in live
    /\ job' = Removing(x)
    /\ reply' = NoReply
    /\ UNCHANGED <<taskQueue, localDatabase, cache, capacity, live>>

BeginRemove(x) ==
    /\ job = Idle
    /\ x \in live
    /\ live' = live \ {x}
    /\ job' = Removing(x)
    /\ reply' = NoReply
    /\ UNCHANGED <<taskQueue, localDatabase, cache, capacity>>

DistributeDocument(doc) ==
    /\ job.op = "remove"
    /\ NoTasksLeft
    /\ doc \in localDatabase[job.target]
    /\ \E p \in Points(live) :
        /\ IsNextReplica(Points(live), ServerHash[job.target][doc.replica], p)
        /\ localDatabase' = [localDatabase EXCEPT
                ![job.target] = @ \ {doc},
                ![p.server] = @ \union {[doc EXCEPT !.replica = p.replica]}]
    /\ reply' = NoReply
    /\ UNCHANGED <<taskQueue, cache, capacity, live, job>>

FinishRemove ==
    /\ job.op = "remove"
    /\ NoTasksLeft
    /\ live = {} \/ localDatabase[job.target] = {}
    /\ FreeServer(job.target)
    /\ job' = Idle
    /\ UNCHANGED live

-----------------------------------------------------------------------------
(***************************************************************************)
(* Searching a hash table without buckets divides by zero.                 *)
(***************************************************************************)
SearchesCache ==
    \/ Draining /\ ~ NoTasksLeft
    \/ job.op = "get" /\ NoTasksLeft
    \/ /\ job.op = "add"
       /\ NoTasksLeft
       /\ \E doc \in localDatabase[job.target] : Leaves(doc)

DivideByZero ==
    /\ SearchesCache
    /\ capacity[job.target] = 0
    /\ job' = Crashed
    /\ reply' = NoReply
    /\ UNCHANGED <<taskQueue, localDatabase, cache, capacity, live>>

\* The last request was read: free_load_balancer frees every server.
Finish ==
    /\ job = Idle
    /\ job' = Finished
    /\ live' = {}
    /\ taskQueue' = [s \in Server |-> <<>>]
    /\ localDatabase' = [s \in Server |-> {}]
    /\ cache' = [s \in Server |-> <<>>]
    /\ capacity' = [s \in Server |-> 0]
    /\ reply' = NoReply

\* The process has ended.
Ended ==
    /\ job \in {Crashed, Finished}
    /\ UNCHANGED vars

-----------------------------------------------------------------------------
\* The requests of the input file, and its end.
Request ==
    \/ \E d \in Doc, c \in Content : Edit(d, c)
    \/ \E d \in Doc : BeginGet(d)
    \/ \E x \in Server, size \in CacheSize : BeginAdd(x, size)
    \/ \E x \in Server : BeginRemove(x)
    \/ \E d \in Doc : ForwardToNobody(d)
    \/ Finish

\* What the program does next on its own.
Progress ==
    \/ DrainTask
    \/ FinishGet
    \/ \E doc \in Document : MoveDocument(doc)
    \/ NextLabel
    \/ FinishAdd
    \/ \E doc \in Document : DistributeDocument(doc)
    \/ FinishRemove
    \/ DivideByZero

Next == Request \/ Progress \/ Ended

Spec == Init /\ [][Next]_vars

\* The process is scheduled while it runs; input need not ever come.
FairSpec == Spec /\ WF_vars(Progress)
-----------------------------------------------------------------------------
(***************************************************************************)
(* Properties.                                                             *)
(***************************************************************************)

\* TypeOK: the types of the variables.
TypeOK ==
    /\ taskQueue \in [Server -> Seq(Task)]
    /\ localDatabase \in [Server -> SUBSET Document]
    /\ cache \in [Server -> Seq(Entry(Doc, Content))]
    /\ capacity \in [Server -> Nat]
    /\ reply \in Reply
    /\ live \in SUBSET Server
    /\ job \in Job

\* DocumentsPlaced: between requests, every document is stored on the server
\* that requests for it are forwarded to, and is filed under the very label
\* the ring search returns for it.  loader_add_server and
\* loader_remove_server move documents by that label and never look at the
\* ring again, so one misfiled document is lost to the next GET or stays
\* behind at the next change of servers.
DocumentsPlaced ==
    job = Idle =>
        \A s \in live : \A doc \in localDatabase[s] :
            IsNextReplica(Points(live), DocHash[doc.name],
                          [server |-> s, replica |-> doc.replica])

\* TasksPlaced: between requests, every EDIT still queued waits on the server
\* its document is forwarded to.  Adding a server drains only the queues of
\* its successors on the ring, so an EDIT waiting anywhere else would be
\* executed on a server that no longer owns its document.
TasksPlaced ==
    job = Idle =>
        \A s \in live : \A n \in DOMAIN taskQueue[s] :
            \E i \in Replica :
                IsNextReplica(Points(live), DocHash[taskQueue[s][n].doc],
                              [server |-> s, replica |-> i])

\* StoredOnce: at every step, also in the middle of a move, a document is
\* stored at most once in the whole system.  A second copy would be stale
\* after the next EDIT and could be found first after a later move.
StoredOnce ==
    \A s, t \in Server : \A a \in localDatabase[s], b \in localDatabase[t] :
        a.name = b.name => s = t /\ a = b

\* CacheCoherent: what a live server caches is what it stores: a GET answered
\* from the cache returns what the local database holds.  Moves, overrides
\* and evictions all have to keep the two together.
CacheCoherent ==
    \A s \in live : \A n \in DOMAIN cache[s] :
        \E doc \in Stored(s, cache[s][n].key) : doc.content = cache[s][n].val

\* CacheWellFormed: a cache never exceeds its capacity and holds a key once.
\* lru_cache_put exceeds the capacity when it is called for a new key
\* without a place for the evicted one: no sequence of requests leads there.
CacheWellFormed ==
    \A s \in Server :
        /\ Len(cache[s]) <= capacity[s]
        /\ KeysUnique(cache[s])

\* CreatedOnlyIfNew: a server reports that it created a document only if no
\* server of the system stored that document.
CreatedOnlyIfNew ==
    [][\A d \in Doc : reply' = Created(d) => \A s \in Server : Stored(s, d) = {}]_vars

\* CrashOnlyWithoutServers: as long as there is a server, a request does not end
\* the program: the search finds a label for it, wherever its document lies on
\* the ring, and the server that an EDIT, a GET, an addition or a removal works
\* on has a cache that can be searched.
CrashOnlyWithoutServers == job = Crashed => live = {}

\* RequestsComplete: a GET, ADD_SERVER or REMOVE_SERVER always comes to an end
\* (or the program does): the drain loop, the loop over the labels and the
\* moves all terminate, and none of them waits for a condition that the
\* others have made impossible.
RequestsComplete == Draining ~> ~ Draining

\* The next label, or less to execute, or less to move.
Advances ==
    \/ /\ job.op = "add" /\ job'.op = "add"
       /\ job'.newcomer = job.newcomer
       /\ job'.label = job.label + 1 /\ job'.label \in Replica
    \/ /\ job' = job
       /\ Len(taskQueue'[job.target]) < Len(taskQueue[job.target])
    \/ /\ job' = job
       /\ taskQueue' = taskQueue
       /\ localDatabase'[job.target] # localDatabase[job.target]
       /\ localDatabase'[job.target] \subseteq localDatabase[job.target]

\* RequestsAdvance: why they come to an end.  Each step of a request goes on to
\* the next label, or shortens the queue of the server that is drained, or,
\* with the queue as it is, takes documents from that server: a document that
\* was handed over never comes back, and no EDIT is queued again.
RequestsAdvance == [][Draining /\ Draining' => Advances]_vars

=============================================================================
