------------------------------ MODULE HashRing ------------------------------
(***************************************************************************)
(* The consistent-hashing ring of the load balancer: which replica of      *)
(* which server is next after a hash (get_next_replica), and which replica *)
(* of one server is next after it (get_server_replica_executor and         *)
(* get_associated_label_index_for_data).                                   *)
(*                                                                         *)
(* A hash is a number of 0..HashMax (unsigned int, so HashMax stands for   *)
(* 2^32 - 1).  What hash_uint and hash_string return is a constant of the  *)
(* model: every operator below compares hashes and does nothing else with  *)
(* them.                                                                   *)
(***************************************************************************)
EXTENDS Naturals

CONSTANTS
    Server,         \* the server ids that may be added, as numbers: ties go to the lower
    NumReplicas,    \* labels per server: MAX_REPLICAS with virtual nodes, otherwise 1
    HashMax,        \* UINT_MAX
    ServerHash,     \* ServerHash[s][i] = hash_uint(calculate_replica_label(s, i))
    Doc,            \* the document names in use
    DocHash         \* DocHash[d] = hash_string(d)

Replica == 0 .. NumReplicas - 1

ASSUME RingConstants ==
    /\ Server \subseteq Nat
    /\ NumReplicas \in Nat \ {0}
    /\ HashMax \in Nat
    /\ ServerHash \in [Server -> [Replica -> 0 .. HashMax]]
    /\ DocHash \in [Doc -> 0 .. HashMax]

\* A point of the ring is one replica of one server.
Point == [server : Server, replica : Replica]

Points(servers) == [server : servers, replica : Replica]

PointHash(p) == ServerHash[p.server][p.replica]

(***************************************************************************)
(* The order in which the scan of get_next_replica prefers candidates: the *)
(* lower hash, on equal hashes the lower server id, and on two equal       *)
(* hashes of one server the label met first.                               *)
(***************************************************************************)
Before(p, q) ==
    \/ PointHash(p) < PointHash(q)
    \/ /\ PointHash(p) = PointHash(q)
       /\ \/ p.server < q.server
          \/ p.server = q.server /\ p.replica < q.replica

IsFirst(points, p) ==
    /\ p \in points
    /\ \A q \in points : ~ Before(q, p)

Above(points, h) == {p \in points : h < PointHash(p)}

\* get_next_replica: the first point strictly above h, or else the first
\* point of the whole ring.
IsNextReplica(points, h, p) ==
    IF Above(points, h) # {}
    THEN IsFirst(Above(points, h), p)
    ELSE IsFirst(points, p)

\* Fault: everything is filed under the first label.
IsFirstLabel(s, h, i) == i = 0

(***************************************************************************)
(* The same search inside one server.  Here the running minimum starts at  *)
(* UINT_MAX and is replaced only by something strictly lower, so a label   *)
(* whose hash is UINT_MAX is never found above anything.                   *)
(***************************************************************************)
IsReplicaExecutor(s, h, i) ==
    LET found == {p \in Above(Points({s}), h) : PointHash(p) < HashMax}
    IN  IsFirst(IF found # {} THEN found ELSE Points({s}),
                [server |-> s, replica |-> i])

-----------------------------------------------------------------------------
(***************************************************************************)
(* What holds of the hashes of labels: hash_uint is a bijection of the     *)
(* unsigned integers, and the labels REPLICA_OFFSET * i + id of the ids up *)
(* to MAX_SERVERS are different numbers.  The one number it sends to       *)
(* UINT_MAX, 0x58d5ab82, is not a label.                                   *)
(***************************************************************************)
DistinctPoints ==
    /\ \A p, q \in Point : PointHash(p) = PointHash(q) => p = q
    /\ \A p \in Point : PointHash(p) < HashMax
=============================================================================
