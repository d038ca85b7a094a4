----------------------------- MODULE HashLoops -----------------------------
(***************************************************************************)
(* The two loops that compute hashes: init_server, over the labels of a    *)
(* server, here for one id after the other up to MAX_SERVERS; and          *)
(* hash_string, over the characters of a name.                             *)
(***************************************************************************)
EXTENDS HashFunctions

CONSTANTS
    MaxServers,     \* MAX_SERVERS
    MaxReplicas,    \* MAX_REPLICAS
    Stride,         \* bound: the walk over the ids starts at the multiples of this number
    Character,      \* the bytes a name is made of
    NameLimit       \* bound: the longest name

\* 0x58d5ab82, which hash_uint sends to UINT_MAX.  MAX_REPLICAS is 3, and no
\* label comes near it.
LabelAtMaximum == 1490398082

ASSUME LoopConstants ==
    /\ MaxServers \in Nat /\ MaxServers < ReplicaOffset
    /\ {MaxReplicas, Stride} \subseteq Nat \ {0}
    /\ ReplicaOffset * (MaxReplicas - 1) + MaxServers < LabelAtMaximum
    /\ Character \subseteq 1 .. 255 /\ NameLimit \in Nat

VARIABLES
    id,             \* the server_id
    serverHash,     \* its server_hash
    name,           \* the characters of a name that were read so far
    hash            \* hash, in hash_string

Replica == 0 .. MaxReplicas - 1

InitServer(x) == [i \in Replica |-> LabelHash(x, i)]

Init ==
    /\ id \in {x \in 0 .. MaxServers : x % Stride = 0}
    /\ serverHash = InitServer(id)
    /\ name = << >> /\ hash = NoCharacters

\* The next ADD_SERVER, of the id above.
NextServer ==
    /\ id < MaxServers
    /\ id' = id + 1
    /\ serverHash' = InitServer(id + 1)
    /\ UNCHANGED <<name, hash>>

\* The next character of the name in a request.  Names and ids do not depend on
\* each other: names are read when the last id has been added.
ReadCharacter(c) ==
    /\ id = MaxServers
    /\ Len(name) < NameLimit
    /\ name' = Append(name, c)
    /\ hash' = AddCharacter(hash, c)
    /\ UNCHANGED <<id, serverHash>>

Next == NextServer \/ \E c \in Character : ReadCharacter(c)

Spec == Init /\ [][Next]_<<id, serverHash, name, hash>>
-----------------------------------------------------------------------------
\* 0x119de1f3, with which Multiplier gives 1 modulo 2^32.
Inverse32 == <<243, 225, 157, 17>>

Divide(w) == MulAdd(w, Inverse32, 0)

\* The steps of hash_uint backwards; the shift by half a word undoes itself.
Unhash(w) == XorShift(Divide(XorShift(Divide(XorShift(w)))))

\* PointNamesLabel: the id and the number of the replica can be computed from a
\* hash on the ring, so that no two labels of any two servers share a point.
PointNamesLabel ==
    \A i \in Replica :
        LET label == ReplicaLabel(id, i)
        IN  /\ Unhash(serverHash[i]) = WordOf(label)
            /\ label % ReplicaOffset = id /\ label \div ReplicaOffset = i

\* NoPointAtMaximum: no label has the hash UINT_MAX, where the minimum of
\* get_server_replica_executor starts and which it would not find.
NoPointAtMaximum == MaxWord \notin {serverHash[i] : i \in Replica}

\* 5381 * 33^n + the sum of s[i] * 33^(n-i), modulo m
Polynomial(s, m) ==
    LET value[n \in 0 .. Len(s)] ==
            IF n = 0 THEN 5381 % m ELSE (value[n - 1] * 33 + s[n]) % m
    IN  value[Len(s)]

\* NameHashIsPolynomial: after every character the hash is the polynomial of
\* the name, modulo 2^32, in which a character beyond 127 counts with its
\* unsigned value: of any name the lower three bytes, and of names that are
\* short enough for TLC's integers the whole word.
NameHashIsPolynomial ==
    /\ hash[1] + 256 * hash[2] + 65536 * hash[3] = Polynomial(name, 16777216)
    /\ Len(name) <= 3 => hash = WordOf(Polynomial(name, 2147483647))
=============================================================================
