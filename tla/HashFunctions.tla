--------------------------- MODULE HashFunctions ---------------------------
(***************************************************************************)
(* hash_uint and hash_string, bit for bit.  An unsigned int is a word of   *)
(* four bytes, the lowest first, since TLC's own integers are too narrow;  *)
(* what does not fit in the fourth byte is lost, as in C.                  *)
(*                                                                         *)
(* The database takes the hashes for constants.  This module says which    *)
(* constants they are in the program.                                      *)
(***************************************************************************)
EXTENDS Integers, Sequences, SequencesExt

WordOf(n) == <<n % 256, (n \div 256) % 256, (n \div 65536) % 256, n \div 16777216>>

MaxWord == <<255, 255, 255, 255>>

Less(v, w) == \E k \in 1 .. 4 : v[k] < w[k] /\ \A j \in k + 1 .. 4 : v[j] = w[j]

\* v * w + c, modulo 2^32, as one multiplies digit by digit
MulAdd(v, w, c) ==
    LET t1 == v[1] * w[1] + c
        t2 == v[1] * w[2] + v[2] * w[1] + (t1 \div 256)
        t3 == v[1] * w[3] + v[2] * w[2] + v[3] * w[1] + (t2 \div 256)
        t4 == v[1] * w[4] + v[2] * w[3] + v[3] * w[2] + v[4] * w[1] + (t3 \div 256)
    IN  <<t1 % 256, t2 % 256, t3 % 256, t4 % 256>>

\* The bit of place value p, of two bytes of which one has it.
XorBit(a, b, p) == IF (a \div p) % 2 = (b \div p) % 2 THEN 0 ELSE p

\* a ^ b, of two bytes
Xor(a, b) ==
    XorBit(a, b, 1) + XorBit(a, b, 2) + XorBit(a, b, 4) + XorBit(a, b, 8)
    + XorBit(a, b, 16) + XorBit(a, b, 32) + XorBit(a, b, 64) + XorBit(a, b, 128)

\* (w >> 16) ^ w
XorShift(w) == <<Xor(w[1], w[3]), Xor(w[2], w[4]), w[3], w[4]>>

\* 0x45d9f3b
Multiplier == <<59, 159, 93, 4>>

Multiply(w) == MulAdd(w, Multiplier, 0)

\* Fault: the shifted word replaces the word.
HashUintLosing(w) == XorShift(Multiply(<<w[3], w[4], 0, 0>>))

\* Fault: the result is complemented, as checksums do.
HashUintComplemented(w) ==
    LET h == XorShift(Multiply(XorShift(Multiply(XorShift(w)))))
    IN  <<255 - h[1], 255 - h[2], 255 - h[3], 255 - h[4]>>

HashUint(w) == XorShift(Multiply(XorShift(Multiply(XorShift(w)))))

ReplicaOffset == 100000

ReplicaLabel(id, i) == ReplicaOffset * i + id

\* init_server: the hash of label i of a server.
LabelHash(id, i) == HashUint(WordOf(ReplicaLabel(id, i)))

\* Fault: a char is signed.
AddSignedCharacter(h, c) == MulAdd(h, WordOf(33), IF c > 127 THEN c - 256 ELSE c)

\* ((hash << 5) + hash) + c, c being an unsigned char
AddCharacter(h, c) == MulAdd(h, WordOf(33), c)

NoCharacters == WordOf(5381)

\* hash_string of the bytes before the terminating 0.
HashString(name) == FoldLeft(AddCharacter, NoCharacters, name)
=============================================================================
