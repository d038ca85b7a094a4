----------------------------- MODULE MCRealRing -----------------------------
(***************************************************************************)
(* The database, with its responses, and with the hashes of the program:   *)
(* the points that the ids 1, 2 and 3 have with virtual nodes, and         *)
(* documents called doc_ab and doc_bA (of one hash, above all points) and  *)
(* en17beq (on the first point of server 2).  The model compares hashes    *)
(* and does nothing else, so that their ranks stand for them.              *)
(***************************************************************************)
EXTENDS DatabaseInvariant, Responses

Hashes == INSTANCE HashFunctions

RealServers == 1 .. 3
RealReplicas == 0 .. 2
RealDocs == 1 .. 3

RealServerHash == [s \in RealServers |-> [i \in RealReplicas |-> <<<<3, 9, 2>>, <<5, 8, 4>>, <<10, 1, 6>>>>[s][i + 1]]]
RealDocHash == [d \in RealDocs |-> <<11, 11, 5>>[d]]

LabelWord(s, i) == Hashes!LabelHash(s, i)
NameWord(d) ==
    Hashes!HashString(<<<<100, 111, 99, 95, 97, 98>>, <<100, 111, 99, 95, 98, 65>>, <<101, 110, 49, 55, 98, 101, 113>>>>[d])

\* What TLC checks before the run: the numbers above are in the order, and equal
\* where the words are equal, of the hashes that the program computes.
ASSUME RanksOfHashes ==
    LET Labels == RealServers \X RealReplicas
        hashes == {<<RealServerHash[p[1]][p[2]], LabelWord(p[1], p[2])>> : p \in Labels}
                  \union {<<RealDocHash[d], NameWord(d)>> : d \in RealDocs}
    IN  \A a, b \in hashes : a[1] < b[1] <=> Hashes!Less(a[2], b[2])
=============================================================================
