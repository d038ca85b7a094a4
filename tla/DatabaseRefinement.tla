------------------------- MODULE DatabaseRefinement -------------------------
(***************************************************************************)
(* The database implements one key-value store.                            *)
(*                                                                         *)
(* The content of a document is that of the last EDIT queued for it, or    *)
(* else what is stored for it, wherever in the system that is.  Mapping    *)
(* from any server, not from the one the ring points at, is what gives the *)
(* refinement its force: an EDIT or a document left on a server that no    *)
(* longer owns it still counts here, and the next GET, which asks only the *)
(* owner, would then answer differently from the store.                    *)
(***************************************************************************)
EXTENDS DistributedDatabase

CONSTANT NoAnswer

TasksOf(s, d) == {n \in DOMAIN taskQueue[s] : taskQueue[s][n].doc = d}

Pending(d) == {s \in Server : TasksOf(s, d) # {}}

LastTask(s, d) ==
    CHOOSE n \in TasksOf(s, d) : \A m \in TasksOf(s, d) : m <= n

Copies(d) == UNION {Stored(s, d) : s \in Server}

ContentOf(d) ==
    IF Pending(d) # {}
    THEN LET s == CHOOSE s \in Pending(d) : TRUE
         IN  taskQueue[s][LastTask(s, d)].content
    ELSE IF Copies(d) # {}
    THEN (CHOOSE doc \in Copies(d) : TRUE).content
    ELSE NoContent

KV == INSTANCE KVStore WITH
        store <- [d \in Doc |-> ContentOf(d)],
        serving <- live # {} \/ job.op = "remove",
        answer <- IF reply.kind = "got"
                  THEN [doc |-> reply.doc, content |-> reply.content]
                  ELSE NoAnswer

\* ImplementsKVStore: whatever servers come and go, every GET answers with the
\* content of the last EDIT of the document that was not refused by a full
\* queue, and no other step changes what a GET would answer.
ImplementsKVStore == KV!KVSpec

\* EditsTakeEffect: an acknowledged EDIT is in effect, unless the queue of the
\* server it is forwarded to is full.  (KVStore alone would also allow an EDIT
\* that changes nothing.)
EditsTakeEffect ==
    [][\A d \in Doc : reply' = Queued(d) =>
        \A c \in Content : Edit(d, c) =>
            \/ ContentOf(d)' = c
            \/ \E p \in Points(live) :
                /\ IsNextReplica(Points(live), DocHash[d], p)
                /\ Len(taskQueue[p.server]) = TaskQueueSize]_vars
=============================================================================
