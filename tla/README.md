# Distributed database: a TLA+ model, its checks and its proofs

The program reads a file of requests (`ADD_SERVER`, `REMOVE_SERVER`, `EDIT`,
`GET`) and executes them one after another on a set of in-memory servers that
share the documents by consistent hashing. This directory models what it does
to its state, checks the model with TLC on small instances, and proves its
safety properties with TLAPS for instances of every size. Next to the model of
the whole, further modules model the parts on which it rests as they run and as
they lie in memory: the search of the ring, the lists, the cache, the hash
functions, the reader of the input, and the responses.

Paths below are relative to `src/`.

## 1. The system

| Part | Source | State | Operations |
|---|---|---|---|
| load balancer | `load_balancer.c` | the list of servers; whether virtual nodes are on | `loader_forward_request`, `loader_add_server`, `loader_remove_server`, `free_load_balancer` |
| hash ring | `load_balancer.c` (`get_next_replica`), `server.c` (`get_server_replica_executor`, `get_associated_label_index_for_data`) | none: it is searched, never stored | next label after a hash, on all servers or on one |
| server | `server.c` | cache, queue of EDITs, local database, the label it answers for | `init_server`, `server_handle_request`, `execute_server_task_queue`, `server_edit_document`, `server_get_document`, `free_server` |
| task queue | `queue.c` | at most `TASK_QUEUE_SIZE` EDITs | push, peek, pop |
| LRU cache | `lru_cache.c` | a list of pairs by use, a hash table of list nodes | put, get, remove |
| hash table, lists | `hash_table.c`, `linked_list.c` | buckets; circular doubly linked and singly linked lists | put, get, remove entry; add, remove node |
| request parser | `main.c`, `utils.c` | a buffer, the content read so far | `read_request_arguments`, `apply_requests` |
| hash functions | `utils.c` | none | `hash_uint`, `hash_string` |
| responses and logs | `constants.h`, `server.c` | none | what a request prints |

How they interact. `apply_requests` calls the load balancer, which calls the
servers; each server owns a cache, a queue and a local database. Everything is
a call in one thread. Yet a request is far from atomic: an EDIT is only
*queued* by the server it is forwarded to and answered at once; it is executed
when a GET reaches that server, when a neighbour of that server on the ring is
added, or when the server is removed. By then the ring may have changed. And
an addition or a removal goes through a drain, a search of the ring and a walk
over documents for each label, printing responses and changing two servers on
the way.

What is hard:

- *Ordering.* An EDIT queued under one ring is executed under another; documents
  must move after the queue was drained, and the newcomer's labels are served
  before the newcomer is on the ring.
- *Stale bookkeeping.* A document is moved by `associated_replica_index`, the
  label it was filed under, possibly many requests ago. The ring is not
  consulted again.
- *Two copies.* The cache repeats the local database. Overrides, moves and
  evictions must change both.
- *Boundaries.* The wrap-around of the ring, equal hashes, hash `UINT_MAX`, a ring of
  one point, a full queue, a cache of one entry or of none, a content that just fits.
- *Memory.* The nodes of the cache's list are freed by its hash table. Walks over
  lists remove the nodes they stand on, and one of them carries an index besides.

What makes each part correct:

- ring: filing (inside one server) and forwarding (over all) agree;
- load balancer: documents and queued EDITs stay where requests look for them,
  none is lost or doubled, every request ends;
- server: the cache equals the local database; a GET sees every EDIT before it;
- LRU cache: it behaves as a bounded sequence by use, and list and table describe
  the same nodes;
- lists: a queue is a bounded sequence, a walk moves the documents it is to move,
  no node is lost or used after it was freed;
- hash functions: no two labels share a point, and none lies at `UINT_MAX`;
- request parser: what is carried out is what the file says;
- responses: each carries the label that owns its document, and names the document
  that it drove out of a cache;
- all together: one key-value store.

`PROJECT.json` lists the hazards one by one, at the lines where they bite, with
the properties about them.

## 2. The modules

| Module | Models |
|---|---|
| `HashRing` | points of the ring and their order; the two searches; `DistinctPoints`, what hashes of labels satisfy |
| `LruCache` | the cache as a sequence of entries, one operator per call |
| `Server` | queue, local database, cache of each server; one action per operation |
| `DistributedDatabase` | load balancer and `apply_requests`: the whole program, with its properties |
| `KVStore` | what the client is promised: one store |
| `DatabaseRefinement` | the mapping of the program's state to that store |
| `DatabaseInvariant` | the inductive invariant and the assumptions it needs |
| `LruCacheSpec` | the calls of `LruCache` as a specification, with what they return |
| `LruCacheHeap` | the cache as list nodes and buckets, implementing `LruCacheSpec` |
| `RingSearch` | the scans of `get_next_replica` and `get_server_replica_executor`, label by label, against `HashRing` |
| `LinkedList` | the two kinds of lists of `linked_list.c`, pointer by pointer |
| `ServerLists` | queue and local databases on those lists: the drain, the walks of the load balancer, `free_server` |
| `BoundedQueue`, `DocumentMoves` | what the queue, and the walks, promise `Server` and `DistributedDatabase` |
| `HashFunctions`, `HashLoops` | `hash_uint` and `hash_string` on words of 32 bits, and the loops around them |
| `RequestReader` | `read_request_arguments` and the loop of `apply_requests` over the input file |
| `Responses` | the steps of `DistributedDatabase` with the label and the log each prints |
| `MC...` | values of the constants for TLC; `MCRealRing` has the hashes of the program; `MCDivergence` and `MCLruCacheHeap` also state what a comment or a message says and the code does not do |
| `DatabaseProofs` | the theorems on the database: laws of the ring, types and caches, filing; why requests end; that it is one store; that labels and logs are true |
| `CacheProofs` | lemmas on the operators of `LruCache` |
| `RingSearchProofs` | the theorems on the scans of the ring |
| `LinkedListProofs` | what the functions of `LinkedList` make of a list, told by the sequence of its nodes |
| `ServerListsProofs` | the theorems on queue, databases and the walks over them |
| `LruHeapProofs` | the theorems on the cache's list and hash table |
| `RequestReaderProofs` | the theorems on the reader of the input |
| `HashLoopsProofs` | the theorems on the hash functions, and that the ring of the program meets the assumption of the database |

How they fit together. `DistributedDatabase` uses rings, caches, queues and databases as
mathematical objects; each detailed module shows that the code has such an object:

| In `DistributedDatabase` | is shown of the code by | |
|---|---|---|
| `IsNextReplica`, `IsReplicaExecutor` | `RingSearch`: `FindsNextReplica`, `FindsExecutor` | proved |
| `cache[s]`, a sequence | `LruCacheHeap`: `ImplementsLru` | proved |
| `taskQueue[s]`, a sequence | `ServerLists`: `ImplementsBoundedQueue` | proved |
| `MoveDocument` and `DistributeDocument` of any document that leaves, until none is left | `ServerLists`: `ImplementsMoves` | proved |
| `DistinctPoints`, an assumption | `HashLoopsProofs`: `ProgramPointsDistinct` | proved |
| requests, in any order | `RequestReader`: `DeliversWhatIsWritten` | proved |

and `KVStore` is what all of it together promises.

### State and steps

`taskQueue`, `localDatabase`, `cache`, `capacity` are the fields of `server_t`,
indexed by server id. `live` is the server list. `reply` is the response that
the last step printed. `job` is the program's place inside the request that it
executes: `Idle` between requests, or a GET, an addition (with the label being
served and the next point on the ring found for it) or a removal in progress.

A request that neither drains nor moves anything is one step (`Edit`). The others are

- GET: `BeginGet`, one `DrainTask` per queued EDIT, `FinishGet`;
- ADD_SERVER: `BeginAdd`, then for each label `DrainTask` steps and one `MoveDocument` per
  document that leaves, `NextLabel` between labels, and `FinishAdd`, which files
  the documents again and puts the newcomer on the list;
- REMOVE_SERVER: `BeginRemove`, `DrainTask` steps, one `DistributeDocument` per document,
  `FinishRemove`, which frees the server.

Each is an iteration or a straight part of the code between iterations. While
`job` is not `Idle` no request starts. `ForwardToNobody` is the NULL dereference
of `load_balancer.c:284` after a search that found no label, `DivideByZero` the remainder modulo 0 of
`hash_table.c:52`; both end the program, as an execution of the compiled program does.
`Finish` is `free_load_balancer` at the end of the input.

In `Responses` each step of `DistributedDatabase` also sets `line`, what it prints besides
`reply`, and `handlerReplica`, the field `handler_replica`; `Unset` is the value that
`init_server` leaves in it.

In `RingSearch` a step is one pass through the body of a loop. `servers` is the list, in which
an id may occur more than once, as `loader_add_server` does not refuse it; a server pointer is a position in it.

In `ServerLists` and `LruCacheHeap` a list is a record of the allocated nodes, the head and the
size. `malloc` returns any address that is not allocated; `free` removes it, so that a pointer
left behind leads to nothing or, later, into another node. `loop` says which loop runs.
`leaving` is the set of documents for which the tests of `loader_add_server` hold: any set, here.

In `RequestReader` the input is a sequence of symbols: words, names and numbers are one each, contents
character by character. A step reads one line, or ends the program. `RefuseSize` is the refusal of a negative cache size
(`main.c:125`), which is why the sizes in the database are natural numbers.

### Abstractions

- *Hashes* are constants of the database, of which nothing but the order is used.
  `DistinctPoints` says that labels have different hashes, and none has `UINT_MAX`;
  the theorem `ProgramPointsDistinct` shows it of the hashes that the program computes, for all ids up to `MAX_SERVERS`. The tie rules of the
  code are modelled all the same, and `RingSearch` checks them.
- *Lists of servers and documents* are sets in the database. The order of the server list matters only
  between points with one hash; that of a local database only between documents of one name,
  which `StoredOnce` excludes.
- *Ids* are not in use when they are added to the database. The code does not check it; what
  happens then to the search is in `RingSearch`.
- *Names and contents* are values. The wording of responses and logs is left out: a log is its kind and
  the documents it names.
- *Memory* never runs out: `malloc` succeeds.
- *Input* consists of requests with the words of `constants.h:14-17`: `EDIT`, `GET`, `ADD_SERVER`, `REMOVE_SERVER`, each
  followed by its name, content, id or size. (`README.md:44,56` writes `ADD SERVER` and `REMOVE`, which
  `get_request_type` does not know: a file written like that ends with "unknown request type".) Contents longer than the limits
  appear as the last request of a file only, by one symbol: beyond that the program writes past a buffer,
  and no model could say what follows.

## 3. What is checked

`tlc -config <run>.cfg <module>.tla`, all in seconds or a few minutes.

| Run | Instance | Question |
|---|---|---|
| `database` | 3 servers, 1 label; 2 documents, 2 contents; queue 2, cache 1 | Are documents, queued EDITs and caches where requests look, once and fresh, whatever comes and goes? Is it one key-value store? |
| `real_ring` | the real hashes of 3 ids with 3 labels, and of 3 names; queue 1, cache 0 or 2; fairness | The same with virtual nodes: is the invariant of the proofs true, does every request end, and do labels and logs tell the truth? |
| `search` | 3 ids, 2 labels, 3 hashes; lists of up to 3 | Do the scans find the point they should, for all hashes and all lists? |
| `lists` | 3 documents; queue 3; 3 addresses per list; fairness | Do queue and databases stay lists while loops change what they walk over? |
| `lru_heap` | capacities 1 to 3, 4 keys, 2 values, 4 addresses | Do list and table stay one structure, and is it an LRU cache? |
| `hashes` | all ids to 99999, 3 labels; names of up to 5 bytes out of 5 | Are the points distinct, and are names hashed as specified? |
| `reader` | up to 2 requests, contents of up to 6 symbols | Is what is carried out what was written? |

`database` and `real_ring` run `DistributedDatabase` with the responses that `Responses` adds to each of its steps.

The bounds, and why they are enough to meet the hard cases:

- Three servers are the fewest with a server between two others, so that a newcomer may be first,
  last or in between, and leave to a third. Documents lie between points, and beyond the last one, so that they wrap around.
- With several labels per server a document may be filed under the wrong label of the right server; `real_ring` has three, as
  the program does. Its documents are `doc_ab` and `doc_bA`, which have one hash, beyond
  all points, and `en17beq`, which lies on a label. TLC evaluates before the run (`RanksOfHashes`) that the numbers in
  the model are in the order of the hashes that `HashFunctions` computes.
- A queue of 2 instead of 1000 holds two EDITs of one document in order, and is full.
  A cache of 1 for two documents evicts, hits and misses; one of 2 for three documents
  (in `real_ring`) evicts what a GET has made the oldest. Two contents tell a stale answer
  from a fresh one.
- `search`: every order of a hash with the label hashes, ties included, occurs with three values, of which the
  lowest and the highest are 0 and `UINT_MAX`. Two servers of one id need a list of two; a third lies before, between or behind.
- `lists`: with three documents there is a first, a middle and a last node, and each may leave or stay.
  Its unsigned index has three values, as many as a list has nodes at most: the decrement below 0 wraps, and so does
  the increment behind the last node of a full list.
- `lru_heap` has one key and one address more than entries: `dll_add_tail` allocates before `ht_put` frees.
  Keys share buckets in different ways for each capacity, and with three one bucket is empty.
  With one, every eviction empties the list.
- `hashes`: the walk starts at every 100th id at once, so that all ids are reached in a hundred steps. 127, 128 and 255
  are where a signed character would differ; five characters overflow a word.
- `reader`: six symbols are enough for a content of several lines with an empty line first, last or between, and the two
  limits scale with `DOC_CONTENT_LENGTH`. A letter of the contents looks like a request, and one of the sizes is negative. Two requests
  show what one leaves behind for the next.

Properties (each is commented where it is defined):

- `DocumentsPlaced`, `TasksPlaced`: between requests, what is stored or queued for
  a document is on the server that requests for it go to, and filed under the label
  the ring search gives.
- `StoredOnce`: never two copies, at any step.
- `CacheCoherent`, `CacheWellFormed`: caches equal what is stored, within capacity.
- `CreatedOnlyIfNew`: "has been created" is said only of a document no server stores.
- `CrashOnlyWithoutServers`: with cache sizes above 0 the program ends early only if there is no server: every
  search for a request finds a label as long as there is one, and whatever server a job works on has a cache that can be searched.
- `ImplementsKVStore`, `EditsTakeEffect`: the refinement. A document's content is that of the last
  EDIT queued for it *anywhere*, or else what is stored *anywhere*, while a GET asks only the
  server the ring gives. The mapping is thus wrong at the next GET if something stays behind. The store may be
  emptied only when the last server left or the program ended.
- `RequestsComplete`: a drain, an addition, a removal ends. `RequestsAdvance`: because each of its steps goes on to the
  next label, shortens the queue that is drained, or takes documents from the server that gives them up.
- `LabelsAreSet`: no response carries the uninitialised `handler_replica`. `LabelOwnsDocument`: an acknowledgement and
  the answer of a GET carry the label next to the document. (A drained EDIT does not: it carries
  the label of the request that caused the drain.) `EvictionReported`: a log names the one
  document that left a cache, or none left.
- `FindsNextReplica`, `FindsExecutor`: the scans return what `HashRing` says, on every list and with every hash.
  `FilesWhereForwarded`: the two agree on the label of the server that was found, unless one of its labels has the hash `UINT_MAX`.
  `NewestTwinAnswers`: of two servers of one id only the newer is ever found, as long as it is there.
- `ListsIntact`, `ListIsRing`, `TableMatchesList`: memory. `Node` is the set of addresses, of which
  a freed one may be returned by a later `malloc`.
- `IndexNamesCurrent`, `NobodyTwice`: pointer and index of the walk name one node; nothing is copied twice.
- `ImplementsBoundedQueue`, `ImplementsMoves`, `ImplementsLru`: the detailed modules implement the abstract ones.
- `LoopsEnd`: so do the loops over the lists. `LoopsAdvance`: because each iteration pops a task, moves the index nearer to the
  size of the list (a removal shortens the list and leaves the index), or ends the walk.
- `PointNamesLabel`: `hash_uint` can be undone, step by step, and the id and the number of the label read off.
  `NoPointAtMaximum`, `NameHashIsPolynomial`.
- `DeliversWhatIsWritten`, `DiesWithReason`: the requests carried out are a prefix of the file; and a file whose contents fit is
  refused only if it announces more requests than it contains, after all of them, or at a request that adds a server with a negative size.

Fairness. `RequestsComplete` assumes `WF_vars(Progress)`, `LoopsEnd` `WF_listVars(Progress)`: the one
process is scheduled as long as it has something to do. No fairness of requests is assumed, and none of
single actions: at each point the code has one next thing to do. (In `ServerLists` what follows a drain is the caller's choice,
and none is favoured.)

`hashes` is checked without looking for deadlocks, as its walk ends with the last id and the longest name. In all other
passing runs a state without a successor would be an error; the end of the program is an action of its own, `Ended`.

### Where the program does something other than it says

| Run | What happens |
|---|---|
| `lone_hash` | On a ring of one server without virtual nodes, a document whose hash equals the server's is left behind when a second server is added (`load_balancer.c:153`); the comment above says that documents before the newcomer are stored on it. The next GET answers that it does not exist. |
| `full_queue` | The EDIT that finds a full queue is dropped (`server.c:294`) and answered with "has been added to queue" (`constants.h:23`). |
| `zero_cache` | Cache size 0 passes the test whose message is "cache size must be positive" (`main.c:125`), and the first search of that cache divides by zero (`hash_table.c:52`). |
| `content_limit` | The closing quote of a content on one line is searched only within `DOC_CONTENT_LENGTH` characters behind the name (`main.c:79`), of which a space and the opening quote are two: a content of `DOC_CONTENT_LENGTH - 2` characters is refused with "document content is not properly quoted". |
| `put_result` | `lru_cache_put` returns false for a key that it adds and true for one that existed (`lru_cache.c:109`); `lru_cache.h:38-39` says the opposite. No caller looks at the result. `LruCacheSpec`, and so `ImplementsLru`, has the result of the code. |

## 4. What is proved

`DatabaseProofs`: for every finite or infinite set of ids, every number of labels, every
assignment of hashes, documents, contents, queue length and cache sizes (0 included) that meet the assumptions,

    Spec => []IInv                    (Invariance)

and from it `[]TypeOK`, `[]DocumentsPlaced`, `[]TasksPlaced`, `[]StoredOnce`, `[]CacheCoherent`,
`[]CacheWellFormed` and the action property `CreatedOnlyIfNew`. If no cache size is 0, then also
`[]CrashOnlyWithoutServers` (`CrashesOnlyWithoutServers`): the program ends early only if there is no server.

It also proves, from the same invariant, `Spec => RequestsAdvance` (`RequestsGoOn`) and `Spec => [](Draining => CanGoOn)`
(`RequestsFindNextStep`); `Spec => ImplementsKVStore` (`ImplementsStore`) and `Spec => EditsTakeEffect`
(`AcknowledgedEditsCount`); `RSpec => []LabelsAreSet`, `RSpec => []LabelOwnsDocument` and `RSpec => EvictionReported`.

Assumptions. `RingConstants`, `ServerConstants`, `CacheSizes` are types.
`HashesDistinct` is `DistinctPoints` (see above).
Nothing is left to believe in it: `ProgramPointsDistinct` proves the formula for the ring of the program (see below).
`NoDocumentAtLonePoint` says that with one label per server no document has exactly a server's
hash. It is needed: it is the case that the run `lone_hash` shows to fail. With virtual nodes a
ring has at least three points and nothing is assumed of documents, which `real_ring` also checks.

The argument. `DocumentsPlaced` speaks of requests that have ended; to be preserved it needs to be said of every
step in between. `Filing` (in `DatabaseInvariant`) does that by naming the ring that
counts at each step, `ServedRing`: during an addition the points of the live servers and the newcomer's labels
served *so far*; during a removal the points with the leaving server until its queue is drained, and
without it after that. Every document of a live server is filed under its next point on *that* ring. Further parts say
where the job stands: the target of a GET owns the document; the target of an addition is the next point after
the label being served, and a document that already moved to the newcomer precedes every point of a live server; the
documents of a leaving server are still filed by the ring that includes it. From there:

- *Serving a label.* If a document's next point on the ring with the new label is not the one it is filed
  under, then it is the new label, and the point it is filed under is the job's target; this is exactly the
  comparison in `loader_add_server` (`LabelAdded`, `LeavesIsNext`, with `NoLoneHash` for the ring of one point).
- *Filing again.* A document received by the newcomer precedes, through its label, every live point; so
  the label found inside the newcomer is the one found on the joint ring.
- *Leaving.* Without the points of the leaving server, the next point after a document is the next one after
  the label it was filed under: what `loader_remove_server` looks up.
- *No second copy.* A drained EDIT creates a document only on the server that owns it, and no other server can store it
  (`NotElsewhere`), because the next point on the ring is unique when hashes are distinct.
- *Caches* need none of this: each step changes the cache together with the local database (`CoherentStep`,
  `WellFormedStep`). The one call that could overfill a cache is made for a present key.

There is a lemma per action for each part; `StepInvariant` puts them together.

The other theorems start from `IInv`:

- *No early end.* As long as there is a server, the search for a request finds a label (`NextExists`): of finitely or
  infinitely many labels one has the least hash (`LeastNumber`, `FirstExists`). Every server on the list, and the target of a job, has a cache with room for an entry
  (`CachesUsable`), so `DivideByZero` is never enabled when 0 is no cache size.
- *Requests end.* `RequestsAdvance` names what decreases: the labels that are left, the length of the queue of the job's target,
  the documents of the target. A move takes a document from the target and may give it only to the newcomer or to a live
  server, and `Filing` says that neither is the target: the newcomer of an addition is not on the list, and a leaving server is
  off it. Documents are finitely many (`DocumentsStayFinite`; filing them again is a surjection). And no step is missing:
  `CanGoOn` lists the guards of the steps in `Progress`, and one of them always holds.
  What might fail are the searches within a request, which return NULL if they find nothing. They do find something, again by `NextExists`, and for
  one server by `ExecutorExists`; and an addition or a move is never reached
  with an empty list.
- *The store.* `ContentOf` chooses a server, the last EDIT in its queue, or a copy. The proof first shows that the choice is one:
  by `IInv` only one server has EDITs queued for a document, and only one stores it (`Unique`), so that `ContentOf` is the
  content for which the relation `IsContent` holds (`ContentDetermined`). It holds of some content (`ContentExists`), as a queue that holds an EDIT of a
  document holds a last one; that is found by well-founded recursion downwards from its length. Then each step: an EDIT sets the content of one document
  (`EditContents`); executing the first EDIT of a queue (`DrainContents`) and carrying a document to another server
  (`MoveContents`, `RemoveContents`) change none; what a GET answers, after the drain, is the content (`GetAnswers`).
  `StepImplements` puts them together.
- *EDITs that count* need besides that a queue is never longer than `TASK_QUEUE_SIZE` (`QueuesBounded`).
- *Labels.* `HandlerInv`: while a GET drains a queue, `handlerReplica` of its target stays the label next to the document
  that is asked for. An addition or a removal changes the label of other servers, and none while a GET is going on.
- *Evictions.* Lemmas in `CacheProofs` say which keys each call of the cache adds and takes away, in particular that
  `lru_cache_get` takes away none.

### The parts as they run

Those on the ring, the lists and the cache are proved from `SearchConstants`, `ListConstants` or `HeapConstants`, which say that counts are natural
numbers, that NULL is no address and, in `ListConstants`, that the memory has room for no more list nodes than an `unsigned int`
can count. They assume nothing about hashes, keys, the order of calls, or which address `malloc` returns.

`RingSearchProofs`: `[]FindsNextReplica` (`FindsNext`), `[]FindsExecutor` (`FindsOwn`), `[]FilesWhereForwarded` and
`[]NewestTwinAnswers`, for lists of any length. `Preferred` is the total order of the labels by hash, then id, then the order of the
scan, to which the comparisons of `get_next_replica` amount. `SearchInv` says that after each label the running minima are the best of
the labels scanned *so far*, and of those above the hash (`LowestIsBest`, `AboveIsBest`), and the same of the loop inside one
server. A label that is scanned is the last of the scanned ones in the order of the scan, so that it wins only by hash or id.
With that, the answer is the best of all labels when the loops end, which is what `HashRing` says, ties included. Of several servers of one id,
`get_next_replica` answers the first on the list. The label that `get_server_replica_executor` finds inside the server is the one for which the
server was found, unless one of its labels has the hash `UINT_MAX`, which the code never takes for the next after anything; `NoLabelAtMaximum` excludes that
for the ids of the program.

`LinkedListProofs`: lemmas about each function of `LinkedList`. A list is described by the sequence of its nodes: `Circle(list, s)`
says that `next` and `prev` lead along `s` and around, `Chain(list, s)` the same of a singly linked list. Each lemma names the
sequence after the call: `WithLast`, `WithFirst`, `Without`. `NthNode` is a recursive function; that there is one, and what its
values are, is shown by taking the least number for which it fails (`LeastNumber`, from the well-foundedness of `<`), as
are all inductions here. `WalkFinds` then says that the walk of `dll_get_nth_node` finds `s`.

`ServerListsProofs`: `[]ListsIntact`, `[]IndexNamesCurrent`, `[]NobodyTwice`, `LoopsAdvance` (`EachLoopAdvances`), and the refinements `ImplementsBoundedQueue` (`ListIsQueue`)
and `ImplementsMoves` (`WalksMoveSets`). `ListsInv` says that queue and databases are whole lists, that no document is in two
of them, and where a walk stands: its pointer is the node of the database that its index names, the index of `loader_add_server`
being below 0 only within a step, after a move at the head of the list; what lies before the pointer is to stay; the queue is empty as long as a walk lasts. That a document is not copied twice needs the
latter: an EDIT left in the queue would create it again on the server that it left. `LoopsAdvance` is delicate at the unsigned
index alone: when the last node of a list of `IndexSize` nodes is kept, the increment wraps to 0 and the distance to the size *grows*;
but then the walk is at its end, as the next node is the head.

`LruHeapProofs`: `[]ListIsRing` (`CacheListIsRing`), `[]TableMatchesList` (`TableFindsList`) and the refinement `ImplementsLru`
(`CacheIsSequence`). `HeapInv` says that the list is a whole circle, that each bucket has each key once and only keys that
belong there, and that list and table match: the table holds a node for a key if and only if the node is in memory and has that key. It holds between calls only. Within
`lru_cache_put` of a present key the old node is off the list but still in the table, and the new one on the list but not in
the table; `OldStored` and `NewStored` follow the call through these states, and `EntryPlaced` closes it. `Freeing` is what
holds while `ht_free` runs: the nodes that are left are those that the table still holds, as each bucket is walked to its end (`BucketWalk`,
`TableWalk`, two more recursive functions); in the end there is none (`AllFreed`), so that the cache of the next server starts with an empty memory.
No bucket is longer than the list (`BucketShort`), because its entries have different nodes.

`RequestReaderProofs`: `[]DeliversWhatIsWritten` (`CarriesOutTheFile`) and `[]DiesWithReason` (`RefusesWithReason`), for files of
any length and contents of any length up to `DOC_CONTENT_LENGTH`. `ReaderConstants` says what the requests look like: a name has no
quote and no newline, a content no quote, an id no space, while a size may be negative; an EDIT's first line fits its buffer, as `REQUEST_LENGTH` grants
128 characters besides the content; a content that does not fit (see `Fits`) is the last of the file, and by one symbol only.
The file is the lines of its requests joined (`JoinedPlaces`: the k-th begins behind those before it). `ReaderInv` says where
in it the reader stands: at the beginning of the next request; or within a content, read up to one of its *newlines*, with the
opening quote known; or behind a content that was too long. The second is what holds the proof together: `fgets` takes as many
symbols as a whole content may have, and one symbol at least was read on the first line, so that a line within a content always ends at a
newline (`ContinueWithin`) and the last line is cut off before its newline only if the content does not fit (`ContinueLast`).
That only the last content may be too long is thus no matter of convenience: its newline is left behind, and would be read as a request.

`HashLoopsProofs`: `[]PointNamesLabel` (`HashNamesLabel`), `[]NoPointAtMaximum` (`NoLabelAtMaximum`), `[]NameHashIsPolynomial`
(`NamesHashed`), and what TLC's integers are too small to say: the value of the *whole* word is the polynomial modulo 2^32, for
names of every length (`NamesHashedModulo`). `LoopConstants` says that ids are below `REPLICA_OFFSET` and that no
label reaches 0x58d5ab82, which `hash_uint` sends to `UINT_MAX`; that is so of `MAX_SERVERS` and `MAX_REPLICAS`, and would be
as long as a server has fewer than 14904 labels. The provers have no theory of words or bits. So a byte is the sum of its
bits as numbers (`ByteOfBits`), of which exclusive or is the difference, so that twice with the same byte changes nothing
(`XorTwice`); and a word has a `Value`, of which `MulAdd` is multiplication and addition modulo 2^32 (`MulAddValue`, carry by
carry). Multiplication by 0x45d9f3b is undone by its inverse (`DivideUndoes`), the shift by itself, and therefore `hash_uint` by
`Unhash` (`HashUndone`). The hash of a name follows the recursive function `Polynomial` character by character; that the function on a
longer name agrees with that on its beginning is shown at the least length where it would not.

`ProgramPointsDistinct` closes the chain: `Ring` is `HashRing` with the hashes that `init_server` computes, and its `DistinctPoints`, the
assumption of all theorems of `DatabaseProofs`, is a theorem there.

### What is only model-checked

- `RequestsComplete` and `LoopsEnd`: liveness under fairness, and ENABLED, are out of the prover's reach. What they need of the code is
  proved: each step decreases a measure (`RequestsGoOn`, `EachLoopAdvances`), and in the database the measure is finite and
  there is always a next step (`DocumentsStayFinite`, `RequestsFindNextStep`). Left to TLC is to conclude from that,
  with `WF_vars(Progress)`, that the job ends.
- `HashString`, the fold of `AddCharacter` over a name that is given at once, is used with the names of `real_ring`. The theorems on names are about the
  loop that reads the characters one by one; that a fold does the same is induction over data.
- The five violations at the end of section 3: a counterexample needs no proof.

## 5. What is not modelled

- Printing helpers, which nothing calls, and the wording of responses and logs.
- What happens after a write past a buffer: names longer than `DOC_NAME_LENGTH` (`main.c:67`), and contents
  beyond the limits above.
- Malformed input other than the first words: `atoi` of what is no number, a name without quotes.
- Two servers under one id in the whole database: their searches are modelled, their documents are not.
- `request_free`, `server_data_free` and freeing the arrays of a server: each has one owner, and no pointer to it is
  kept. `ll_free` and `dll_free` only ever meet lists that are empty, or whose size was set to 0.
- The allocation of documents, names and contents; only list nodes are objects of the model.

## 6. Plan

Done, in this order: ring, cache, server and load balancer with their safety properties; the invariant and its proof; the
store; the cache's memory; the search of the ring; the lists and the loops over them; the hash functions and the real ring; the
reader; the responses; the proofs that the database implements the store, and that labels and logs tell the truth; the
proofs of the scans of the ring, of the lists and the walks over them, of the cache's memory, and of the reader; the proofs
about the hash functions, which discharge the assumption of the database on hashes, and the measures by which requests and loops end.

Nothing that the provers can reach is left to TLC alone.
