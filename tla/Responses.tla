----------------------------- MODULE Responses -----------------------------
(***************************************************************************)
(* What a response says besides its content: the label of the replica that *)
(* answers, and the log of what happened in the cache.  An EDIT is         *)
(* acknowledged under the label it was forwarded to.  Every other response *)
(* takes its label from handler_replica, which init_server does not set,   *)
(* and which requests for other documents, and changes of servers, set in  *)
(* the meantime.                                                           *)
(*                                                                         *)
(* Each step is one of DistributedDatabase, together with the line that it *)
(* prints, if it prints one.                                               *)
(***************************************************************************)
EXTENDS DistributedDatabase

CONSTANT Unset  \* what the memory of a new server holds as handler_replica

ASSUME UnsetIsNoReplica == Unset \notin Replica

VARIABLES
    handlerReplica, \* handlerReplica[s]: the label for which s answers
    line            \* what the last step printed besides reply

responseVars == <<vars, handlerReplica, line>>

NoLine == [log |-> "none"]

\* calculate_replica_label, as the pair from which it is computed.
Label(s, i) == [server |-> s, replica |-> i]

QueueSize(p, n) == [label |-> p, log |-> "queue size", size |-> n]
Hit(p, d) == [label |-> p, log |-> "hit", doc |-> d]
Miss(p, d) == [label |-> p, log |-> "miss", doc |-> d]
Evict(p, d, k) == [label |-> p, log |-> "evict", doc |-> d, evicted |-> k]
Fault(p, d) == [label |-> p, log |-> "fault", doc |-> d]

\* Fault: the entry that was used last is named.
LogPutNewest(p, d) ==
    LET s == p.server
    IN  IF LruEvicts(cache[s], capacity[s], d)
        THEN Evict(p, d, cache[s][Len(cache[s])].key) ELSE Miss(p, d)

\* The log of a document that was not cached, and is put into the cache.
LogPut(p, d) ==
    LET s == p.server
    IN  IF LruEvicts(cache[s], capacity[s], d) THEN Evict(p, d, Head(cache[s]).key) ELSE Miss(p, d)

\* server_edit_document
LogEdit(p, d) == IF IsCached(cache[p.server], d) THEN Hit(p, d) ELSE LogPut(p, d)

\* server_get_document
LogGet(p, d) ==
    IF IsCached(cache[p.server], d) THEN Hit(p, d)
    ELSE IF Stored(p.server, d) # {} THEN LogPut(p, d)
    ELSE Fault(p, d)

\* Fault: only a server that has no handler gets one.
HandleOnce(s, i) ==
    handlerReplica' = IF handlerReplica[s] = Unset THEN [handlerReplica EXCEPT ![s] = i] ELSE handlerReplica

Handle(s, i) == handlerReplica' = [handlerReplica EXCEPT ![s] = i]

Handler(s) == Label(s, handlerReplica[s])
-----------------------------------------------------------------------------
RInit ==
    /\ Init
    /\ handlerReplica = [s \in Server |-> Unset]
    /\ line = NoLine

\* loader_forward_request, for both kinds of request.
REdit(d, c) ==
    /\ Edit(d, c)
    /\ \E p \in Points(live) :
        /\ IsNextReplica(Points(live), DocHash[d], p)
        /\ Handle(p.server, p.replica)
        /\ line' = QueueSize(p, Len(taskQueue'[p.server]))

\* Fault: the handler is recorded for an EDIT only.
RBeginGetUnhandled(d) ==
    /\ BeginGet(d)
    /\ line' = NoLine
    /\ UNCHANGED handlerReplica

RBeginGet(d) ==
    /\ BeginGet(d)
    /\ \E p \in Points(live) :
        /\ IsNextReplica(Points(live), DocHash[d], p)
        /\ Handle(p.server, p.replica)
    /\ line' = NoLine

RFinishGet ==
    /\ FinishGet
    /\ line' = LogGet(Handler(job.target), job.doc)
    /\ UNCHANGED handlerReplica

RDrainTask ==
    /\ DrainTask
    /\ line' = LogEdit(Handler(job.target), Head(taskQueue[job.target]).doc)
    /\ UNCHANGED handlerReplica

\* The handler of a newcomer is whatever its memory held.
RBeginAdd(x, size) ==
    /\ BeginAdd(x, size)
    /\ handlerReplica' = [s \in Server |->
            IF s = x THEN Unset
            ELSE IF job'.op = "add" /\ job'.target = s THEN job'.index
            ELSE handlerReplica[s]]
    /\ line' = NoLine

RNextLabel ==
    /\ NextLabel
    /\ Handle(job'.target, job'.index)
    /\ line' = NoLine

RBeginRemove(x) ==
    /\ BeginRemove(x)
    /\ Handle(x, 0)
    /\ line' = NoLine

\* The steps that neither print nor name a handler.
Silent ==
    /\ \/ \E doc \in Document : MoveDocument(doc) \/ DistributeDocument(doc)
       \/ FinishAdd \/ FinishRemove
       \/ \E d \in Doc : ForwardToNobody(d)
       \/ DivideByZero \/ Finish
    /\ line' = NoLine
    /\ UNCHANGED handlerReplica

REnded == Ended /\ UNCHANGED <<handlerReplica, line>>

RNext ==
    \/ \E d \in Doc, c \in Content : REdit(d, c)
    \/ \E d \in Doc : RBeginGet(d)
    \/ \E x \in Server, size \in CacheSize : RBeginAdd(x, size)
    \/ \E x \in Server : RBeginRemove(x)
    \/ RDrainTask \/ RFinishGet \/ RNextLabel
    \/ Silent \/ REnded

RSpec == RInit /\ [][RNext]_responseVars

\* The process goes on with what it is doing, as in FairSpec.
RFairSpec == RSpec /\ WF_vars(Progress)
-----------------------------------------------------------------------------
\* LabelsAreSet: no response carries the uninitialised label of a server that
\* was never named a handler.
LabelsAreSet == line # NoLine => line.label.replica \in Replica

\* LabelOwnsDocument: an acknowledgement and the answer of a GET come from the
\* very label that is next to the document on the ring, even if requests for
\* other labels of the server came in between, or its queue was drained.
LabelOwnsDocument ==
    reply.kind \in {"queued", "got"} => IsNextReplica(Points(live), DocHash[reply.doc], line.label)

CachedKeys(s) == {cache[s][n].key : n \in DOMAIN cache[s]}

\* EvictionReported: a response names the one document that its request drove
\* out of a cache, and if it names none no document left any cache.
EvictionReported ==
    [][line' # NoLine =>
        \A s \in Server :
            CachedKeys(s) \ CachedKeys(s)' =
                IF line'.log = "evict" /\ line'.label.server = s THEN {line'.evicted} ELSE {}]_responseVars
=============================================================================
