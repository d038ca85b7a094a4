------------------------- MODULE DatabaseInvariant -------------------------
(***************************************************************************)
(* Why documents stay where requests look for them: the inductive          *)
(* invariant of DistributedDatabase, and what it needs to hold of hashes.  *)
(***************************************************************************)
EXTENDS DistributedDatabase

\* Ties between labels do not occur: see HashRing.
ASSUME HashesDistinct == DistinctPoints

(***************************************************************************)
(* A document whose hash is the hash of the only point of the ring is next *)
(* to that point and yet moves to no newcomer.  It takes a ring of one     *)
(* point for this to happen: with virtual nodes there is none.             *)
(***************************************************************************)
ASSUME NoDocumentAtLonePoint ==
    \/ NumReplicas > 1
    \/ \A d \in Doc, p \in Point : DocHash[d] # PointHash(p)

-----------------------------------------------------------------------------
\* The point under which a document stored on s is filed.
Home(s, doc) == [server |-> s, replica |-> doc.replica]

DocumentsFiled(s, ring) ==
    \A doc \in localDatabase[s] :
        IsNextReplica(ring, DocHash[doc.name], Home(s, doc))

TasksFiled(s, ring) ==
    \A n \in DOMAIN taskQueue[s] :
        \E i \in Replica :
            IsNextReplica(ring, DocHash[taskQueue[s][n].doc], [server |-> s, replica |-> i])

LabelsBelow(s, r) == {p \in Points({s}) : p.replica < r}

(***************************************************************************)
(* The ring by which the documents of live servers are filed at this       *)
(* point.  In an addition it grows by one label of the newcomer at a time. *)
(* In a removal the leaving server counts until its queue is drained:      *)
(* before that nothing has been distributed.                               *)
(***************************************************************************)
ServedRing ==
    CASE job.op = "add" -> Points(live) \union LabelsBelow(job.newcomer, job.label)
      [] job.op = "remove" /\ ~ NoTasksLeft -> Points(live \union {job.target})
      [] OTHER -> Points(live)

LiveFiled == \A s \in live : DocumentsFiled(s, ServedRing) /\ TasksFiled(s, ServedRing)

GetInv ==
    job.op = "get" =>
        /\ job.target \in live
        /\ \E i \in Replica :
            IsNextReplica(Points(live), DocHash[job.doc],
                          [server |-> job.target, replica |-> i])

\* A document already moved to the newcomer precedes every point of a live
\* server, and none has moved for the present label while tasks are left.
AddInv ==
    job.op = "add" =>
        /\ job.newcomer \notin live
        /\ job.target \in live
        /\ IsNextReplica(Points(live), ServerHash[job.newcomer][job.label],
                         [server |-> job.target, replica |-> job.index])
        /\ taskQueue[job.newcomer] = <<>>
        /\ cache[job.newcomer] = <<>>
        /\ \A doc \in localDatabase[job.newcomer] :
            /\ doc.replica <= job.label
            /\ doc.replica = job.label => NoTasksLeft
            /\ IsNextReplica(Points(live) \union {Home(job.newcomer, doc)},
                             DocHash[doc.name], Home(job.newcomer, doc))

RemoveInv ==
    job.op = "remove" =>
        /\ job.target \notin live
        /\ DocumentsFiled(job.target, Points(live \union {job.target}))
        /\ TasksFiled(job.target, Points(live \union {job.target}))

\* The server that is joining or leaving, if there is one.
InTransit ==
    CASE job.op = "add" -> {job.newcomer}
      [] job.op = "remove" -> {job.target}
      [] OTHER -> {}

RestEmpty ==
    \A s \in Server \ (live \union InTransit) :
        /\ taskQueue[s] = <<>>
        /\ localDatabase[s] = {}
        /\ cache[s] = <<>>

Filing == LiveFiled /\ GetInv /\ AddInv /\ RemoveInv /\ RestEmpty

\* IInv: the inductive invariant.  Its part Filing says by which ring every
\* document and every queued EDIT is placed at each step of loader_add_server
\* and loader_remove_server, which is what DocumentsPlaced, TasksPlaced and
\* StoredOnce follow from.
IInv ==
    /\ TypeOK
    /\ StoredOnce
    /\ CacheCoherent
    /\ CacheWellFormed
    /\ job # Crashed => Filing
=============================================================================
