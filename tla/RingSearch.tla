----------------------------- MODULE RingSearch -----------------------------
(***************************************************************************)
(* The scan of get_next_replica as it runs: label by label of server by    *)
(* server through the list of the load balancer, with its two running      *)
(* minima, and then the scan of the labels of the server it found by       *)
(* get_server_replica_executor.  HashRing states what the two return; here *)
(* the comparisons themselves are checked, at both ends of the range of    *)
(* hashes, with equal hashes, and with two servers of one id in the list,  *)
(* which loader_add_server does not refuse.                                *)
(*                                                                         *)
(* A server pointer is a position in the list, 0 the null pointer.         *)
(***************************************************************************)
EXTENDS Naturals, Sequences, SequencesExt

CONSTANTS
    Server,         \* the ids that may be added
    NumReplicas,    \* get_number_replicas
    HashMax,        \* UINT_MAX, as a hash
    IdMax,          \* UINT_MAX, as an id
    MaxListed       \* how many servers the list may hold

ASSUME SearchConstants ==
    /\ Server \subseteq 0 .. IdMax - 1
    /\ NumReplicas \in Nat \ {0}
    /\ HashMax \in Nat
    /\ IdMax \in Nat

Replica == 0 .. NumReplicas - 1

VARIABLES
    servers,    \* main->servers from its head: the ids
    labelHash,  \* the hashes of the labels of every id
    phase,      \* what is running: "none", "ring" or "own"
    hash,       \* the hash that is searched
    position,   \* current_server_node
    replica,    \* old_replica_idx, and then i
    above,      \* the lowest hash above the one searched, so far, and whether there is one
    lowest,     \* the lowest hash of the ring, so far
    own,        \* the same two of the labels of the server found
    answer,     \* what get_next_replica returned
    executor    \* what get_server_replica_executor returned

ringVars == <<servers, labelHash>>
scanVars == <<position, replica, above, lowest, own>>
searchVars == <<ringVars, phase, hash, scanVars, answer, executor>>

Nobody == 0

NoPoint == [server |-> Nobody, replica |-> 0]

\* The initial values of the running minima.
NothingLowest == [hash |-> HashMax, id |-> IdMax, server |-> Nobody, replica |-> 0]
NothingAbove == [found |-> FALSE, best |-> NothingLowest]
NothingOwn ==
    [found |-> FALSE, hash |-> HashMax, replica |-> 0, lowestHash |-> HashMax, lowestReplica |-> 0]

Init ==
    /\ servers = << >>
    /\ labelHash \in [Server -> [Replica -> 0 .. HashMax]]
    /\ phase = "none"
    /\ hash = 0
    /\ position = 1 /\ replica = 0
    /\ above = NothingAbove /\ lowest = NothingLowest /\ own = NothingOwn
    /\ answer = NoPoint
    /\ executor = 0

\* init_server and dll_add_nth_node at 0; the documents that move are not here.
AddServer(x) ==
    /\ phase = "none"
    /\ Len(servers) < MaxListed
    /\ servers' = <<x>> \o servers
    /\ answer' = NoPoint
    /\ UNCHANGED <<labelHash, phase, hash, scanVars, executor>>

\* The first server of the id, from the head.
RemoveServer(x) ==
    /\ phase = "none"
    /\ x \in ToSet(servers)
    /\ servers' = RemoveAt(servers, SelectInSeq(servers, LAMBDA y : y = x))
    /\ answer' = NoPoint
    /\ UNCHANGED <<labelHash, phase, hash, scanVars, executor>>

BeginSearch(h) ==
    /\ phase = "none"
    /\ phase' = "ring"
    /\ hash' = h
    /\ answer' = NoPoint
    /\ UNCHANGED <<ringVars, scanVars, executor>>

\* The label under the scan, as a running minimum would record it.
Current ==
    [hash |-> labelHash[servers[position]][replica], id |-> servers[position],
     server |-> position, replica |-> replica]

\* Fault: of two servers on one point, the one met last.
BeatsLate(point, best) == point.hash <= best.hash

\* A strictly lower hash, or the same hash and a strictly lower id.
Beats(point, best) ==
    \/ point.hash < best.hash
    \/ point.hash = best.hash /\ point.id < best.id

\* Fault: the searched hash itself counts as above it.
IsAboveOrEqual(point) == hash <= point.hash

IsAbove(point) == hash < point.hash

\* One pass through the body of the inner loop.
ScanLabel ==
    /\ phase = "ring" /\ position <= Len(servers)
    /\ above' =
        IF IsAbove(Current) /\ (~ above.found \/ Beats(Current, above.best))
        THEN [found |-> TRUE, best |-> Current] ELSE above
    /\ lowest' = IF Beats(Current, lowest) THEN Current ELSE lowest
    /\ replica' = (replica + 1) % NumReplicas
    /\ position' = IF replica + 1 = NumReplicas THEN position + 1 ELSE position
    /\ UNCHANGED <<ringVars, phase, hash, own, answer, executor>>

\* get_next_replica returns; a document is forwarded if there is a server.
EndSearch ==
    /\ phase = "ring" /\ position > Len(servers)
    /\ LET best == IF above.found THEN above.best ELSE lowest
       IN  /\ answer' = [server |-> best.server, replica |-> best.replica]
           /\ phase' = IF best.server = Nobody THEN "none" ELSE "own"
    /\ position' = 1 /\ replica' = 0
    /\ above' = NothingAbove /\ lowest' = NothingLowest
    /\ UNCHANGED <<ringVars, hash, own, executor>>

\* Fault: a label is taken whenever it is above, the minimum not being kept.
ConsiderLast(o, i, h) ==
    [o EXCEPT !.found = @ \/ hash < h,
              !.replica = IF hash < h THEN i ELSE @]

\* The body of the loop of get_server_replica_executor, and of the one of
\* get_associated_label_index_for_data: label i of hash h.
Consider(o, i, h) ==
    LET better == hash < h /\ h < o.hash
    IN  [found |-> o.found \/ better,
         hash |-> IF better THEN h ELSE o.hash,
         replica |-> IF better THEN i ELSE o.replica,
         lowestHash |-> IF h < o.lowestHash THEN h ELSE o.lowestHash,
         lowestReplica |-> IF h < o.lowestHash THEN i ELSE o.lowestReplica]

ScanOwnLabel ==
    /\ phase = "own" /\ replica < NumReplicas
    /\ own' = Consider(own, replica, labelHash[servers[answer.server]][replica])
    /\ replica' = replica + 1
    /\ UNCHANGED <<ringVars, phase, hash, position, above, lowest, answer, executor>>

EndOwnScan ==
    /\ phase = "own" /\ replica = NumReplicas
    /\ executor' = IF own.found THEN own.replica ELSE own.lowestReplica
    /\ phase' = "none"
    /\ replica' = 0 /\ own' = NothingOwn
    /\ UNCHANGED <<ringVars, hash, position, above, lowest, answer>>

Next ==
    \/ \E x \in Server : AddServer(x) \/ RemoveServer(x)
    \/ \E h \in 0 .. HashMax : BeginSearch(h)
    \/ ScanLabel \/ EndSearch \/ ScanOwnLabel \/ EndOwnScan

Spec == Init /\ [][Next]_searchVars
-----------------------------------------------------------------------------
Ring == INSTANCE HashRing WITH
    ServerHash <- labelHash, Doc <- {0}, DocHash <- [d \in {0} |-> hash]

\* A search has been answered, by a server.
Answered == answer # NoPoint

AnsweredPoint == [server |-> servers[answer.server], replica |-> answer.replica]

\* FindsNextReplica: whatever the hashes, the scan of get_next_replica returns
\* the point that HashRing describes, the null pointer only on an empty ring.
FindsNextReplica ==
    /\ phase # "ring" /\ Answered => Ring!IsNextReplica(Ring!Points(ToSet(servers)), hash, AnsweredPoint)
    /\ phase = "own" => Answered
    /\ phase = "ring" /\ position > Len(servers) /\ servers # << >> => lowest.server # Nobody

\* FindsExecutor: the scan of get_server_replica_executor returns the label
\* that HashRing describes, UINT_MAX included.
FindsExecutor ==
    phase = "none" /\ Answered => Ring!IsReplicaExecutor(AnsweredPoint.server, hash, executor)

\* FilesWhereForwarded: a document is filed by its server under the very label
\* for which the load balancer chose the server, if no label of the server has
\* the hash UINT_MAX.  Everything that moves documents relies on it.
FilesWhereForwarded ==
    phase = "none" /\ Answered /\ (\A i \in Replica : labelHash[AnsweredPoint.server][i] < HashMax) =>
        executor = answer.replica

\* NewestTwinAnswers: of two servers of one id, requests go to the one that was
\* added last, on whatever label, and never to the other while it is there.
NewestTwinAnswers ==
    phase # "ring" /\ Answered => \A p \in 1 .. answer.server - 1 : servers[p] # servers[answer.server]
=============================================================================
