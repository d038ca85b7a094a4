--------------------------- MODULE HashLoopsProofs ---------------------------
(***************************************************************************)
(* hash_uint can be undone, for every word, so that the labels of the ring *)
(* have different hashes; hash_string is a polynomial, for every name.     *)
(* The provers have no theory of words or bits: a word is told by its      *)
(* Value, a byte by its bits as numbers.                                   *)
(*                                                                         *)
(* The backends cannot take numbers as large as 2^32 in every form.  Their *)
(* bounds are written with < here and not as intervals, and the arithmetic *)
(* that involves them is in lemmas on numbers alone.                       *)
(***************************************************************************)
EXTENDS HashLoops, SequenceTheorems, WellFoundedInduction, TLAPS

Byte == 0 .. 255

Bit == 0 .. 1

-----------------------------------------------------------------------------
(***************************************************************************)
(* Bytes as bits: exclusive or acts on each bit by itself, and twice with  *)
(* the same byte it changes nothing.                                       *)
(***************************************************************************)
ByteOf(e1, e2, e3, e4, e5, e6, e7, e8) ==
    e1 + 2 * e2 + 4 * e3 + 8 * e4 + 16 * e5 + 32 * e6 + 64 * e7 + 128 * e8

\* The bit of place value p.
BitAt(a, p) == (a \div p) % 2

Differs(x, y) == IF x = y THEN 0 ELSE 1

\* A byte is the sum of its bits.
LEMMA ByteOfBits ==
    ASSUME NEW a \in Byte
    PROVE  a = ByteOf(BitAt(a, 1), BitAt(a, 2), BitAt(a, 4), BitAt(a, 8),
                   BitAt(a, 16), BitAt(a, 32), BitAt(a, 64), BitAt(a, 128))
BY DEF Byte, ByteOf, BitAt

\* Each of them is 0 or 1.
LEMMA BitOfByte ==
    ASSUME NEW a \in Byte
    PROVE  \A p \in {1, 2, 4, 8, 16, 32, 64, 128} : BitAt(a, p) \in Bit
BY DEF Byte, Bit, BitAt

\* Xor, written as the byte of the bits in which the two differ.
LEMMA BitsOfXor ==
    ASSUME NEW a \in Byte, NEW b \in Byte
    PROVE  Xor(a, b) = ByteOf(Differs(BitAt(a, 1), BitAt(b, 1)), Differs(BitAt(a, 2), BitAt(b, 2)),
                           Differs(BitAt(a, 4), BitAt(b, 4)), Differs(BitAt(a, 8), BitAt(b, 8)),
                           Differs(BitAt(a, 16), BitAt(b, 16)), Differs(BitAt(a, 32), BitAt(b, 32)),
                           Differs(BitAt(a, 64), BitAt(b, 64)), Differs(BitAt(a, 128), BitAt(b, 128)))
<1>1. \A p \in {1, 2, 4, 8, 16, 32, 64, 128} :
        /\ XorBit(a, b, p) = p * Differs(BitAt(a, p), BitAt(b, p))
        /\ Differs(BitAt(a, p), BitAt(b, p)) \in Bit
  BY DEF XorBit, Differs, BitAt, Bit
<1> HIDE DEF XorBit, Differs, BitAt
<1> QED
  BY <1>1 DEF Xor, ByteOf, Bit

\* Xor is a byte, and these are its bits.
LEMMA BitOfXor ==
    ASSUME NEW a \in Byte, NEW b \in Byte
    PROVE  /\ Xor(a, b) \in Byte
           /\ \A p \in {1, 2, 4, 8, 16, 32, 64, 128} : BitAt(Xor(a, b), p) = Differs(BitAt(a, p), BitAt(b, p))
<1>1. PICK e1, e2, e3, e4, e5, e6, e7, e8 \in Bit :
        /\ e1 = Differs(BitAt(a, 1), BitAt(b, 1)) /\ e2 = Differs(BitAt(a, 2), BitAt(b, 2))
        /\ e3 = Differs(BitAt(a, 4), BitAt(b, 4)) /\ e4 = Differs(BitAt(a, 8), BitAt(b, 8))
        /\ e5 = Differs(BitAt(a, 16), BitAt(b, 16)) /\ e6 = Differs(BitAt(a, 32), BitAt(b, 32))
        /\ e7 = Differs(BitAt(a, 64), BitAt(b, 64)) /\ e8 = Differs(BitAt(a, 128), BitAt(b, 128))
  <2>1. \A x, y : Differs(x, y) \in Bit
    BY DEF Differs, Bit
  <2> QED
    BY <2>1
<1>2. Xor(a, b) = ByteOf(e1, e2, e3, e4, e5, e6, e7, e8)
  BY <1>1, BitsOfXor
<1>3. PICK x : x = Xor(a, b)
  OBVIOUS
<1>4. x = ByteOf(e1, e2, e3, e4, e5, e6, e7, e8)
  BY <1>2, <1>3
<1>5. x \in Byte
  BY <1>4 DEF Byte, Bit, ByteOf
<1>6. BitAt(x, 1) = e1
  BY <1>4 DEF Bit, ByteOf, BitAt
<1>7. BitAt(x, 2) = e2
  BY <1>4 DEF Bit, ByteOf, BitAt
<1>8. BitAt(x, 4) = e3
  BY <1>4 DEF Bit, ByteOf, BitAt
<1>9. BitAt(x, 8) = e4
  BY <1>4 DEF Bit, ByteOf, BitAt
<1>10. BitAt(x, 16) = e5
  BY <1>4 DEF Bit, ByteOf, BitAt
<1>11. BitAt(x, 32) = e6
  BY <1>4 DEF Bit, ByteOf, BitAt
<1>12. BitAt(x, 64) = e7
  BY <1>4 DEF Bit, ByteOf, BitAt
<1>13. BitAt(x, 128) = e8
  BY <1>4 DEF Bit, ByteOf, BitAt
<1> QED
  BY <1>1, <1>3, <1>5, <1>6, <1>7, <1>8, <1>9, <1>10, <1>11, <1>12, <1>13

\* (a ^ b) ^ b = a
LEMMA XorTwice ==
    ASSUME NEW a \in Byte, NEW b \in Byte
    PROVE  Xor(Xor(a, b), b) = a
<1>1. Xor(a, b) \in Byte
  BY BitOfXor
<1>2. \A p \in {1, 2, 4, 8, 16, 32, 64, 128} : BitAt(Xor(Xor(a, b), b), p) = BitAt(a, p)
  <2> TAKE p \in {1, 2, 4, 8, 16, 32, 64, 128}
  <2>1. BitAt(Xor(Xor(a, b), b), p) = Differs(Differs(BitAt(a, p), BitAt(b, p)), BitAt(b, p))
    BY <1>1, BitOfXor
  <2>2. BitAt(a, p) \in Bit /\ BitAt(b, p) \in Bit
    BY BitOfByte
  <2> QED
    BY <2>1, <2>2 DEF Differs, Bit
<1>3. Xor(Xor(a, b), b) \in Byte
  BY <1>1, BitOfXor
<1> QED
  BY <1>2, <1>3, ByteOfBits

-----------------------------------------------------------------------------
(***************************************************************************)
(* Words and the numbers they stand for.                                   *)
(***************************************************************************)
IsWord(w) == \E a, b, c, d \in Byte : w = <<a, b, c, d>>

Value(w) == w[1] + 256 * w[2] + 65536 * w[3] + 16777216 * w[4]

\* 2^32, the number of values of an unsigned int.
Values == 4294967296

IsValue(n) == n \in Nat /\ n < Values

\* A word stands for a number below 2^32,
LEMMA ValueOfWord ==
    ASSUME NEW w, IsWord(w)
    PROVE  IsValue(Value(w))
<1>1. PICK a, b, c, d \in Byte : w = <<a, b, c, d>>
  BY DEF IsWord
<1>2. Value(w) = a + 256 * b + 65536 * c + 16777216 * d
  BY SMT, <1>1 DEF Value
<1> QED
  BY SMT, <1>2 DEF Values, Byte, IsValue

\* of which it is the only word,
LEMMA ValueInjective ==
    ASSUME NEW v, NEW w, IsWord(v), IsWord(w), Value(v) = Value(w)
    PROVE  v = w
<1>1. PICK a, b, c, d \in Byte : v = <<a, b, c, d>>
  BY DEF IsWord
<1>2. PICK e, f, g, h \in Byte : w = <<e, f, g, h>>
  BY DEF IsWord
<1>3. a + 256 * b + 65536 * c + 16777216 * d = e + 256 * f + 65536 * g + 16777216 * h
  BY SMT, <1>1, <1>2 DEF Value
<1>4. a = e /\ b = f /\ c = g /\ d = h
  BY SMT, <1>3 DEF Byte
<1> QED
  BY <1>1, <1>2, <1>4

\* and every such number has one.
LEMMA WordOfNumber ==
    ASSUME NEW n, IsValue(n)
    PROVE  IsWord(WordOf(n)) /\ Value(WordOf(n)) = n
<1>1. PICK a, b, c, d : a = n % 256 /\ b = (n \div 256) % 256 /\ c = (n \div 65536) % 256 /\ d = n \div 16777216
  OBVIOUS
<1>2. a \in Byte /\ b \in Byte /\ c \in Byte /\ d \in Byte
  BY SMT, <1>1 DEF Values, Byte, IsValue
<1>3. n = a + 256 * b + 65536 * c + 16777216 * d
  BY SMT, <1>1 DEF Values, IsValue
<1>4. WordOf(n) = <<a, b, c, d>>
  BY <1>1 DEF WordOf
<1> QED
  BY SMT, <1>2, <1>3, <1>4 DEF IsWord, Value

\* As 16 is half of 32, the upper half is not changed, and can be taken out of
\* the lower half again.
LEMMA XorShiftTwice ==
    ASSUME NEW w, IsWord(w)
    PROVE  IsWord(XorShift(w)) /\ XorShift(XorShift(w)) = w
<1>1. PICK a, b, c, d \in Byte : w = <<a, b, c, d>>
  BY DEF IsWord
<1>2. XorShift(w) = <<Xor(a, c), Xor(b, d), c, d>>
  BY <1>1 DEF XorShift
<1>3. Xor(a, c) \in Byte /\ Xor(b, d) \in Byte
  BY BitOfXor
<1>4. XorShift(XorShift(w)) = <<Xor(Xor(a, c), c), Xor(Xor(b, d), d), c, d>>
  BY <1>2 DEF XorShift
<1>5. XorShift(XorShift(w)) = w
  BY <1>1, <1>4, XorTwice
<1> QED
  BY <1>2, <1>3, <1>5 DEF IsWord

(***************************************************************************)
(* Multiplication.  The digits that do not fit are lost, which takes a     *)
(* multiple of 2^32 away.                                                  *)
(***************************************************************************)
\* n, modulo 2^32, is what w stands for.
Congruent(n, w) == \E q \in Int : n = q * Values + Value(w)

\* What a digit is, and what is carried to the next.
LEMMA Carried ==
    ASSUME NEW t \in Nat
    PROVE  t % 256 \in Byte /\ t \div 256 \in Nat /\ t = 256 * (t \div 256) + (t % 256)
<1>1. t % 256 \in Byte
  BY SMT DEF Byte
<1>2. t \div 256 \in Nat
  BY SMT
<1>3. t = 256 * (t \div 256) + (t % 256)
  BY SMT
<1> QED
  BY <1>1, <1>2, <1>3

\* MulAdd multiplies and adds modulo 2^32, for all words.
LEMMA MulAddValue ==
    ASSUME NEW v, NEW w, IsWord(v), IsWord(w), NEW k \in Byte
    PROVE  IsWord(MulAdd(v, w, k)) /\ Congruent(Value(v) * Value(w) + k, MulAdd(v, w, k))
<1>1. PICK a, b, c, d \in Byte : v = <<a, b, c, d>>
  BY DEF IsWord
<1>2. PICK e, f, g, h \in Byte : w = <<e, f, g, h>>
  BY DEF IsWord
<1>3. /\ a \in Nat /\ b \in Nat /\ c \in Nat /\ d \in Nat
      /\ e \in Nat /\ f \in Nat /\ g \in Nat /\ h \in Nat /\ k \in Nat
  BY DEF Byte
<1>4. PICK s1, s2, s3, s4 :
        /\ s1 = a * e + k
        /\ s2 = a * f + b * e
        /\ s3 = a * g + b * f + c * e
        /\ s4 = a * h + b * g + c * f + d * e
  OBVIOUS
<1>5. PICK lost : lost = (b * h + c * g + d * f) + 256 * (c * h + d * g) + 65536 * (d * h)
  OBVIOUS
<1>6. lost \in Nat /\ s1 \in Nat /\ s2 \in Nat /\ s3 \in Nat /\ s4 \in Nat
  BY SMT, <1>3, <1>4, <1>5
<1>7. Value(v) = a + 256 * b + 65536 * c + 16777216 * d /\ Value(w) = e + 256 * f + 65536 * g + 16777216 * h
  BY SMT, <1>1, <1>2 DEF Value
<1>8. Value(v) * Value(w) + k = lost * Values + (s1 + 256 * s2 + 65536 * s3 + 16777216 * s4)
  BY SMT, <1>3, <1>4, <1>5, <1>7 DEF Values
<1>9. PICK q1, r1 : /\ q1 = s1 \div 256 /\ r1 = s1 % 256
                    /\ q1 \in Nat /\ r1 \in Byte /\ s1 = 256 * q1 + r1
  BY <1>6, Carried
<1>10. PICK q2, r2 : /\ q2 = (s2 + q1) \div 256 /\ r2 = (s2 + q1) % 256
                     /\ q2 \in Nat /\ r2 \in Byte /\ s2 + q1 = 256 * q2 + r2
  <2>1. s2 + q1 \in Nat
    BY <1>6, <1>9
  <2> QED
    BY <2>1, Carried
<1>11. PICK q3, r3 : /\ q3 = (s3 + q2) \div 256 /\ r3 = (s3 + q2) % 256
                     /\ q3 \in Nat /\ r3 \in Byte /\ s3 + q2 = 256 * q3 + r3
  <2>1. s3 + q2 \in Nat
    BY <1>6, <1>10
  <2> QED
    BY <2>1, Carried
<1>12. PICK q4, r4 : /\ q4 = (s4 + q3) \div 256 /\ r4 = (s4 + q3) % 256
                     /\ q4 \in Nat /\ r4 \in Byte /\ s4 + q3 = 256 * q4 + r4
  <2>1. s4 + q3 \in Nat
    BY <1>6, <1>11
  <2> QED
    BY <2>1, Carried
<1>13. MulAdd(v, w, k) = <<r1, r2, r3, r4>>
  BY <1>1, <1>2, <1>4, <1>9, <1>10, <1>11, <1>12 DEF MulAdd
<1>14. Value(MulAdd(v, w, k)) = r1 + 256 * r2 + 65536 * r3 + 16777216 * r4
  BY SMT, <1>13 DEF Value
<1>15. r1 \in Int /\ r2 \in Int /\ r3 \in Int /\ r4 \in Int
  BY SMT, <1>9, <1>10, <1>11, <1>12 DEF Byte
<1>16. Value(v) * Value(w) + k = (lost + q4) * Values + Value(MulAdd(v, w, k))
  <2> HIDE DEF Byte
  <2> QED
    BY SMT, <1>6, <1>8, <1>9, <1>10, <1>11, <1>12, <1>14, <1>15 DEF Values
<1>17. lost + q4 \in Int
  BY SMT, <1>6, <1>12
<1> QED
  BY <1>9, <1>10, <1>11, <1>12, <1>13, <1>16, <1>17 DEF Congruent, IsWord

-----------------------------------------------------------------------------
(***************************************************************************)
(* hash_uint backwards.                                                    *)
(***************************************************************************)
LEMMA MultiplierValues ==
    /\ IsWord(Multiplier) /\ IsWord(Inverse32) /\ IsWord(WordOf(33))
    /\ Value(Multiplier) = 73244475 /\ Value(Inverse32) = 295559667 /\ Value(WordOf(33)) = 33
<1>1. IsWord(Multiplier) /\ IsWord(Inverse32)
  BY SMT DEF IsWord, Multiplier, Inverse32, Byte
<1>2. Value(Multiplier) = 73244475 /\ Value(Inverse32) = 295559667
  BY SMT DEF Value, Multiplier, Inverse32
<1>3. IsValue(33)
  BY SMT DEF IsValue, Values
<1> QED
  BY SMT, <1>1, <1>2, <1>3, WordOfNumber

\* The multiplication can be undone, since the product of Multiplier and
\* Inverse32 is 5040344 * 2^32 + 1.
LEMMA DivideUndoes ==
    ASSUME NEW w, IsWord(w)
    PROVE  IsWord(Multiply(w)) /\ Divide(Multiply(w)) = w
<1>1. 0 \in Byte
  BY DEF Byte
<1>2. PICK x : x = Multiply(w)
  OBVIOUS
<1>3. IsWord(x) /\ Congruent(Value(w) * 73244475 + 0, x)
  BY SMT, <1>1, <1>2, MulAddValue, MultiplierValues DEF Multiply
<1>4. PICK y : y = Divide(x)
  OBVIOUS
<1>5. IsWord(y) /\ Congruent(Value(x) * 295559667 + 0, y)
  BY SMT, <1>1, <1>3, <1>4, MulAddValue, MultiplierValues DEF Divide
<1>6. PICK v, m, r : /\ v = Value(w) /\ m = Value(x) /\ r = Value(y)
                     /\ IsValue(v) /\ IsValue(m) /\ IsValue(r)
  BY <1>3, <1>5, ValueOfWord
<1>7. PICK q \in Int : v * 73244475 + 0 = q * Values + m
  BY SMT, <1>3, <1>6 DEF Congruent
<1>8. PICK p \in Int : m * 295559667 + 0 = p * Values + r
  BY SMT, <1>5, <1>6 DEF Congruent
<1>9. PICK k : k = q * 295559667 + p - v * 5040344
  BY SMT
<1>10. k \in Int /\ v - r = k * Values
  <2>1. v \in Int /\ m \in Int /\ r \in Int /\ q \in Int /\ p \in Int
    BY <1>6, <1>7, <1>8 DEF IsValue
  <2>2. v * 73244475 = q * 4294967296 + m /\ m * 295559667 = p * 4294967296 + r
    BY SMT, <1>7, <1>8, <2>1 DEF Values
  <2>3. k \in Int
    BY SMT, <1>9, <2>1
  <2>4. v - r = k * 4294967296
    BY SMT, <1>9, <2>1, <2>2
  <2> QED
    BY SMT, <2>3, <2>4 DEF Values
<1>11. v = r
  BY SMT, <1>6, <1>10 DEF IsValue, Values
<1>12. Value(y) = Value(w) /\ IsWord(y)
  BY <1>5, <1>6, <1>11
<1>13. y = w
  BY <1>12, ValueInjective
<1> QED
  BY <1>2, <1>3, <1>4, <1>13

\* hash_uint is injective: every word can be computed from its hash.
LEMMA HashUndone ==
    ASSUME NEW w, IsWord(w)
    PROVE  IsWord(HashUint(w)) /\ Unhash(HashUint(w)) = w
<1>1. PICK a, b, c, d : /\ a = XorShift(w) /\ b = Multiply(a) /\ c = XorShift(b)
                        /\ d = Multiply(c)
  OBVIOUS
<1>2. IsWord(a) /\ XorShift(a) = w
  BY <1>1, XorShiftTwice
<1>3. IsWord(b) /\ Divide(b) = a
  BY <1>1, <1>2, DivideUndoes
<1>4. IsWord(c) /\ XorShift(c) = b
  BY <1>1, <1>3, XorShiftTwice
<1>5. IsWord(d) /\ Divide(d) = c
  BY <1>1, <1>4, DivideUndoes
<1>6. HashUint(w) = XorShift(d)
  BY <1>1 DEF HashUint
<1>7. IsWord(HashUint(w)) /\ XorShift(HashUint(w)) = d
  BY <1>5, <1>6, XorShiftTwice
<1> QED
  BY <1>2, <1>3, <1>4, <1>5, <1>7 DEF Unhash

\* The number whose hash is UINT_MAX, computed step by step.
LEMMA MaximumUndone == Unhash(MaxWord) = WordOf(LabelAtMaximum)
<1>1. Xor(255, 255) = 0 /\ Xor(0, 13) = 13 /\ Xor(0, 30) = 30 /\ Xor(87, 213) = 130 /\ Xor(243, 88) = 171
  BY SMT DEF Xor, XorBit
<1>2. XorShift(MaxWord) = <<0, 0, 255, 255>>
  BY <1>1 DEF XorShift, MaxWord
<1>3. Divide(<<0, 0, 255, 255>>) = <<0, 0, 13, 30>>
  BY SMT DEF Divide, MulAdd, Inverse32
<1>4. XorShift(<<0, 0, 13, 30>>) = <<13, 30, 13, 30>>
  BY <1>1 DEF XorShift
<1>5. Divide(<<13, 30, 13, 30>>) = <<87, 243, 213, 88>>
  BY SMT DEF Divide, MulAdd, Inverse32
<1>6. XorShift(<<87, 243, 213, 88>>) = <<130, 171, 213, 88>>
  BY <1>1 DEF XorShift
<1>7. WordOf(LabelAtMaximum) = <<130, 171, 213, 88>>
  BY SMT DEF WordOf, LabelAtMaximum
<1> QED
  BY <1>2, <1>3, <1>4, <1>5, <1>6, <1>7 DEF Unhash

-----------------------------------------------------------------------------
(***************************************************************************)
(* Polynomial is a recursive function.  That there is such a function, and *)
(* only one, is shown by taking the least number for which it fails.       *)
(***************************************************************************)
\* A set of natural numbers has a least one.
LEMMA LeastNumber ==
    ASSUME NEW T \in SUBSET Nat, T # {}
    PROVE  \E n \in T : \A m \in T : n <= m
<1> DEFINE R == {ss \in Nat \X Nat : ss[1] < ss[2]}
<1>1. IsWellFoundedOn(R, Nat)
  BY NatLessThanWellFounded DEF OpToRel
<1> HIDE DEF R
<1>2. PICK n \in T : \A m \in T : ~ (<<m, n>> \in R)
  BY <1>1, WFMin
<1>3. \A m \in T : ~ (m < n)
  BY <1>2 DEF R
<1> QED
  BY <1>3

\* g is the function that Polynomial chooses, for the first n characters of s.
Obeys(s, m, g, n) ==
    g = [i \in 0 .. n |-> IF i = 0 THEN 5381 % m ELSE (g[i - 1] * 33 + s[i]) % m]

\* There is one for every length.
LEMMA ObeysExists ==
    ASSUME NEW s, NEW m
    PROVE  \A n \in Nat : \E g : Obeys(s, m, g, n)
<1> DEFINE T == {n \in Nat : ~ \E g : Obeys(s, m, g, n)}
<1> SUFFICES ASSUME T # {}
             PROVE  FALSE
  OBVIOUS
<1>1. PICK n \in T : \A j \in T : n <= j
  <2>1. T \in SUBSET Nat
    OBVIOUS
  <2> HIDE DEF T
  <2> QED
    BY <2>1, LeastNumber
<1>2. PICK b : b = 5381 % m
  OBVIOUS
<1>3. n # 0
  <2>1. PICK g : g = [i \in 0 .. 0 |-> b]
    OBVIOUS
  <2>2. Obeys(s, m, g, 0)
    BY SMT, <1>2, <2>1 DEF Obeys
  <2> QED
    BY <1>1, <2>2
<1>4. n - 1 \in Nat /\ n - 1 \notin T
  BY <1>1, <1>3
<1>5. PICK g : Obeys(s, m, g, n - 1)
  BY <1>4
<1>6. PICK h : h = [i \in 0 .. n |-> IF i = n THEN (g[n - 1] * 33 + s[n]) % m ELSE g[i]]
  OBVIOUS
<1>7. ASSUME NEW i \in 0 .. n
      PROVE  h[i] = IF i = 0 THEN b ELSE (h[i - 1] * 33 + s[i]) % m
  <2>1. CASE i = n
    <3>1. i - 1 \in 0 .. n /\ i - 1 # n /\ i # 0
      BY <1>1, <1>3, <2>1
    <3> QED
      BY <1>6, <2>1, <3>1
  <2>2. CASE i # n
    <3>1. i \in 0 .. n - 1 /\ (i = 0 \/ (i - 1 \in 0 .. n /\ i - 1 # n))
      BY <1>1, <2>2
    <3>2. g[i] = IF i = 0 THEN b ELSE (g[i - 1] * 33 + s[i]) % m
      BY SMT, <1>2, <1>5, <3>1 DEF Obeys
    <3> QED
      BY <1>6, <2>2, <3>1, <3>2
  <2> QED
    BY <2>1, <2>2
<1>8. Obeys(s, m, h, n)
  <2>1. h = [i \in 0 .. n |-> h[i]]
    BY <1>6
  <2>2. h = [i \in 0 .. n |-> IF i = 0 THEN b ELSE (h[i - 1] * 33 + s[i]) % m]
    BY <1>7, <2>1
  <2> QED
    BY SMT, <1>2, <2>2 DEF Obeys
<1> QED
  BY <1>1, <1>8

SameUpTo(s, t, n) == \A i \in 1 .. n : s[i] = t[i]

\* Its values depend only on the characters up to there.
LEMMA ObeysUnique ==
    ASSUME NEW s, NEW m, NEW n \in Nat, NEW g, Obeys(s, m, g, n),
           NEW t, NEW k \in Nat, NEW h, Obeys(t, m, h, k), n <= k,
           SameUpTo(s, t, n)
    PROVE  g[n] = h[n]
<1> DEFINE T == {i \in 0 .. n : g[i] # h[i]}
<1> SUFFICES ASSUME T # {}
             PROVE  FALSE
  BY n \in 0 .. n
<1>1. PICK i \in T : \A j \in T : i <= j
  <2>1. T \in SUBSET Nat
    OBVIOUS
  <2> HIDE DEF T
  <2> QED
    BY <2>1, LeastNumber
<1>2. PICK b : b = 5381 % m
  OBVIOUS
<1>3. i \in 0 .. n /\ i \in 0 .. k
  BY <1>1
<1>4. /\ g[i] = IF i = 0 THEN b ELSE (g[i - 1] * 33 + s[i]) % m
      /\ h[i] = IF i = 0 THEN b ELSE (h[i - 1] * 33 + t[i]) % m
  BY SMT, <1>2, <1>3 DEF Obeys
<1>5. i # 0
  BY <1>1, <1>4
<1>6. i - 1 \in 0 .. n /\ i - 1 \notin T /\ i \in 1 .. n
  BY <1>1, <1>5
<1> QED
  BY <1>1, <1>4, <1>5, <1>6 DEF SameUpTo

\* Polynomial is the last of its values,
LEMMA PolynomialObeys ==
    ASSUME NEW s, Len(s) \in Nat, NEW m
    PROVE  \E g : Obeys(s, m, g, Len(s)) /\ Polynomial(s, m) = g[Len(s)]
<1>1. PICK g : g = CHOOSE f : Obeys(s, m, f, Len(s))
  OBVIOUS
<1>2. Obeys(s, m, g, Len(s))
  BY <1>1, ObeysExists
<1>3. Polynomial(s, m) = g[Len(s)]
  BY <1>1 DEF Polynomial, Obeys
<1> QED
  BY <1>2, <1>3

\* which of the empty name is where hash_string starts,
LEMMA PolynomialEmpty ==
    ASSUME NEW m
    PROVE  Polynomial(<< >>, m) = 5381 % m
<1>1. PICK b : b = 5381 % m
  OBVIOUS
<1>2. Len(<< >>) = 0
  OBVIOUS
<1>3. PICK g : Obeys(<< >>, m, g, 0) /\ Polynomial(<< >>, m) = g[0]
  BY <1>2, PolynomialObeys
<1> QED
  BY SMT, <1>1, <1>3 DEF Obeys

\* and which each further character changes as the loop does.
LEMMA PolynomialStep ==
    ASSUME NEW s \in Seq(Nat), NEW c \in Nat, NEW m
    PROVE  Polynomial(Append(s, c), m) = (Polynomial(s, m) * 33 + c) % m
<1>1. PICK n, t : n = Len(s) /\ t = Append(s, c)
  OBVIOUS
<1>2. n \in Nat /\ Len(t) = n + 1 /\ t[n + 1] = c /\ \A i \in 1 .. n : s[i] = t[i]
  BY <1>1
<1>3. PICK g : Obeys(s, m, g, n) /\ Polynomial(s, m) = g[n]
  BY <1>1, <1>2, PolynomialObeys
<1>4. PICK h : Obeys(t, m, h, n + 1) /\ Polynomial(t, m) = h[n + 1]
  BY <1>2, PolynomialObeys
<1>5. g[n] = h[n]
  <2>1. PICK k : k = n + 1 /\ k \in Nat /\ n <= k /\ n \in 0 .. n
    BY <1>2
  <2>2. Obeys(t, m, h, k)
    BY <1>4, <2>1
  <2>3. SameUpTo(s, t, n)
    BY <1>2 DEF SameUpTo
  <2> QED
    BY <1>2, <1>3, <2>1, <2>2, <2>3, ObeysUnique
<1>6. h[n + 1] = (h[n] * 33 + c) % m
  <2>1. n + 1 \in 0 .. n + 1 /\ n + 1 # 0 /\ (n + 1) - 1 = n
    BY <1>2
  <2>2. h[n + 1] = (h[(n + 1) - 1] * 33 + t[n + 1]) % m
    BY SMT, <1>4, <2>1 DEF Obeys
  <2> QED
    BY <1>2, <2>1, <2>2
<1> QED
  BY SMT, <1>1, <1>3, <1>4, <1>5, <1>6

-----------------------------------------------------------------------------
(***************************************************************************)
(* Labels.  MAX_SERVERS is less than REPLICA_OFFSET, so that a label names *)
(* its server and its replica; and it is less than the one number that is  *)
(* sent to UINT_MAX.                                                       *)
(***************************************************************************)
LEMMA Labels ==
    ASSUME NEW x \in 0 .. MaxServers, NEW i \in Replica
    PROVE  /\ IsValue(ReplicaLabel(x, i)) /\ ReplicaLabel(x, i) < LabelAtMaximum
           /\ ReplicaLabel(x, i) % ReplicaOffset = x /\ ReplicaLabel(x, i) \div ReplicaOffset = i
<1>1. x \in Nat /\ i \in Nat /\ x < 100000 /\ 100000 * i + x < 1490398082
  <2>1. MaxServers \in Nat /\ MaxReplicas \in Nat /\ i \in Nat /\ i <= MaxReplicas - 1 /\ x \in Nat /\ x <= MaxServers
    BY SMT, LoopConstants DEF Replica
  <2>2. MaxServers < 100000 /\ 100000 * (MaxReplicas - 1) + MaxServers < 1490398082
    BY SMT, LoopConstants DEF ReplicaOffset, LabelAtMaximum
  <2> QED
    BY SMT, <2>1, <2>2
<1>2. PICK n : n = 100000 * i + x
  BY SMT
<1>3. n \in Nat /\ n < 1490398082 /\ n % 100000 = x /\ n \div 100000 = i
  BY SMT, <1>1, <1>2
<1> QED
  BY SMT, <1>2, <1>3 DEF ReplicaLabel, ReplicaOffset, IsValue, Values, LabelAtMaximum

\* The label can be computed from its hash, which is not UINT_MAX.
LEMMA LabelHashed ==
    ASSUME NEW x \in 0 .. MaxServers, NEW i \in Replica
    PROVE  /\ IsWord(LabelHash(x, i)) /\ Unhash(LabelHash(x, i)) = WordOf(ReplicaLabel(x, i))
           /\ LabelHash(x, i) # MaxWord
<1>1. IsWord(WordOf(ReplicaLabel(x, i))) /\ Value(WordOf(ReplicaLabel(x, i))) = ReplicaLabel(x, i)
  BY Labels, WordOfNumber
<1>2. IsWord(LabelHash(x, i)) /\ Unhash(LabelHash(x, i)) = WordOf(ReplicaLabel(x, i))
  BY <1>1, HashUndone DEF LabelHash
<1>3. ASSUME LabelHash(x, i) = MaxWord
      PROVE  FALSE
  <2>1. WordOf(ReplicaLabel(x, i)) = WordOf(LabelAtMaximum)
    BY <1>2, <1>3, MaximumUndone
  <2>2. IsValue(LabelAtMaximum)
    BY SMT DEF IsValue, Values, LabelAtMaximum
  <2>3. ReplicaLabel(x, i) = LabelAtMaximum
    BY <1>1, <2>1, <2>2, WordOfNumber
  <2>4. ReplicaLabel(x, i) < LabelAtMaximum /\ LabelAtMaximum \in Int
    BY SMT, Labels, <2>2 DEF IsValue
  <2> QED
    BY <2>3, <2>4
<1> QED
  BY <1>2, <1>3

-----------------------------------------------------------------------------
(***************************************************************************)
(* The invariant of the two loops.  The hash is the polynomial of the name *)
(* modulo 2^32.  What TLC can compute of it is its lower three bytes, and  *)
(* the whole of names of up to three characters, as they do not reach      *)
(* 2^31 - 1: n characters have at most 33 times the hash of n - 1 and 255. *)
(***************************************************************************)
LabelsInv ==
    /\ id \in 0 .. MaxServers
    /\ serverHash = InitServer(id)

NamesInv ==
    /\ name \in Seq(Character)
    /\ IsWord(hash)
    /\ Value(hash) = Polynomial(name, Values)
    /\ hash[1] + 256 * hash[2] + 65536 * hash[3] = Polynomial(name, 16777216)
    /\ \A n \in 0 .. 3 : Len(name) = n =>
            /\ Value(hash) = Polynomial(name, 2147483647)
            /\ Value(hash) <= <<5381, 177828, 5868579, 193663362>>[n + 1]

LoopsInv == LabelsInv /\ NamesInv

\* Facts about numbers: what a number has for a remainder,
LEMMA RemainderOfWord ==
    ASSUME NEW z \in Int, NEW q \in Int, NEW y \in Int, 0 <= y, y < 4294967296, z = q * 4294967296 + y
    PROVE  z % 4294967296 = y
BY SMT

LEMMA RemainderOfBytes ==
    ASSUME NEW z \in Int, NEW q \in Int, NEW y \in Int, 0 <= y, y < 16777216, z = q * 16777216 + y
    PROVE  z % 16777216 = y
BY SMT

LEMMA RemainderOfSmall ==
    ASSUME NEW z \in Int, 0 <= z, z < 2147483647
    PROVE  z % 2147483647 = z
BY SMT

\* that what is below 2^32 is its own remainder,
LEMMA NoCarry ==
    ASSUME NEW z \in Int, NEW q \in Int, NEW y \in Int,
           0 <= y, y < 4294967296, 0 <= z, z < 4294967296, z = q * 4294967296 + y
    PROVE  z = y
BY SMT

\* and that what is lost of a word is lost of its lower three bytes.
LEMMA CarryToBytes ==
    ASSUME NEW low \in Int, NEW high \in Int, NEW low1 \in Int, NEW high1 \in Int, NEW c \in Int, NEW q \in Int,
           (low + 16777216 * high) * 33 + c = q * 4294967296 + (low1 + 16777216 * high1)
    PROVE  low * 33 + c = (256 * q + high1 - 33 * high) * 16777216 + low1
BY SMT

\* The lower three bytes of a word, and the fourth.
LEMMA LowBytes ==
    ASSUME NEW w, IsWord(w)
    PROVE  \E low, high \in Nat : /\ low = w[1] + 256 * w[2] + 65536 * w[3]
                                  /\ low < 16777216 /\ Value(w) = low + 16777216 * high
<1>1. PICK a, b, c, d \in Byte : w = <<a, b, c, d>>
  BY DEF IsWord
<1>2. PICK low : low = a + 256 * b + 65536 * c
  OBVIOUS
<1>3. low \in Nat /\ low < 16777216 /\ d \in Nat
  BY SMT, <1>2 DEF Byte
<1>4. Value(w) = low + 16777216 * d /\ low = w[1] + 256 * w[2] + 65536 * w[3]
  BY SMT, <1>1, <1>2 DEF Value
<1> QED
  BY SMT, <1>3, <1>4

\* A step of hash_string.
LEMMA CharacterRead ==
    ASSUME NEW c \in Character, NamesInv, name' = Append(name, c), hash' = AddCharacter(hash, c)
    PROVE  NamesInv'
<1>1. c \in Byte /\ c \in Nat /\ c <= 255 /\ name \in Seq(Nat) /\ name' \in Seq(Character)
  <2>1. Character \subseteq 1 .. 255
    BY LoopConstants
  <2>2. Character \subseteq Nat
    BY <2>1
  <2>3. name \in Seq(Character)
    BY SMT DEF NamesInv
  <2>4. name \in Seq(Nat)
    BY Zenon, <2>2, <2>3, SeqMonotonic
  <2>5. name' \in Seq(Character)
    BY <2>3, AppendProperties
  <2> QED
    BY <2>1, <2>4, <2>5 DEF Byte
<1>2. IsWord(hash') /\ Congruent(Value(hash) * 33 + c, hash')
  BY SMT, <1>1, MulAddValue, MultiplierValues DEF NamesInv, AddCharacter
<1>3. PICK x, y : /\ x = Value(hash) /\ y = Value(hash')
                  /\ x \in Nat /\ y \in Nat /\ x < 4294967296 /\ y < 4294967296
  BY SMT, <1>2, ValueOfWord DEF NamesInv, IsValue, Values
<1>4. PICK q \in Int : x * 33 + c = q * 4294967296 + y
  BY SMT, <1>2, <1>3 DEF Congruent, Values
<1>5. \A m : Polynomial(name', m) = (Polynomial(name, m) * 33 + c) % m
  BY <1>1, PolynomialStep
<1>6. Value(hash') = Polynomial(name', Values)
  <2>1. x = Polynomial(name, Values)
    BY <1>3 DEF NamesInv
  <2>2. PICK z \in Int : z = x * 33 + c
    BY <1>1, <1>3
  <2>3. z % 4294967296 = y
    <3>1. y \in Int /\ 0 <= y /\ y < 4294967296 /\ z = q * 4294967296 + y
      BY SMT, <1>3, <1>4, <2>2
    <3> QED
      BY SMT, <3>1, RemainderOfWord
  <2> QED
    BY SMT, <1>3, <1>5, <2>1, <2>2, <2>3 DEF Values
<1>7. PICK low, high \in Nat : /\ low = hash[1] + 256 * hash[2] + 65536 * hash[3]
                               /\ low < 16777216 /\ Value(hash) = low + 16777216 * high
  <2>1. IsWord(hash)
    BY SMT DEF NamesInv
  <2> QED
    BY SMT, <2>1, LowBytes
<1>8. PICK low1, high1 \in Nat : /\ low1 = hash'[1] + 256 * hash'[2] + 65536 * hash'[3]
                                 /\ low1 < 16777216 /\ Value(hash') = low1 + 16777216 * high1
  <2>1. PICK w : w = hash'
    OBVIOUS
  <2>2. IsWord(w)
    BY <1>2, <2>1
  <2>3. \E low2, high2 \in Nat : /\ low2 = w[1] + 256 * w[2] + 65536 * w[3]
                                 /\ low2 < 16777216 /\ Value(w) = low2 + 16777216 * high2
    BY SMT, <2>2, LowBytes
  <2> QED
    BY SMT, <2>1, <2>3
<1>9. low1 = Polynomial(name', 16777216)
  <2>1. PICK k \in Int : k = 256 * q + high1 - 33 * high
    BY <1>1
  <2>2. PICK z \in Int : z = low * 33 + c
    BY <1>1
  <2>3. (low + 16777216 * high) * 33 + c = q * 4294967296 + (low1 + 16777216 * high1)
    BY SMT, <1>3, <1>4, <1>7, <1>8
  <2>4. c \in Int /\ low \in Int /\ high \in Int /\ low1 \in Int /\ high1 \in Int /\ 0 <= low1 /\ low1 < 16777216
    BY SMT, <1>1, <1>8
  <2>5. z = k * 16777216 + low1
    BY SMT, <2>1, <2>2, <2>3, <2>4, CarryToBytes
  <2>6. (low * 33 + c) % 16777216 = low1
    BY SMT, <2>2, <2>4, <2>5, RemainderOfBytes
  <2>7. low = Polynomial(name, 16777216)
    BY SMT, <1>7 DEF NamesInv
  <2> QED
    BY SMT, <1>5, <2>6, <2>7
<1>10. ASSUME NEW n \in 0 .. 3, Len(name') = n
       PROVE  /\ y = Polynomial(name', 2147483647)
              /\ y <= <<5381, 177828, 5868579, 193663362>>[n + 1]
  <2>1. n \in {1, 2, 3} /\ n - 1 \in 0 .. 3 /\ Len(name) = n - 1
    BY <1>1, <1>10
  <2>2. /\ x = Polynomial(name, 2147483647)
        /\ x <= <<5381, 177828, 5868579, 193663362>>[(n - 1) + 1]
    BY SMT, <1>3, <2>1 DEF NamesInv
  <2>3. \/ n = 1 /\ x <= 5381
        \/ n = 2 /\ x <= 177828
        \/ n = 3 /\ x <= 5868579
    BY SMT, <2>1, <2>2
  <2>4. x * 33 + c < 4294967296 /\ x * 33 + c \in Nat
    BY SMT, <1>1, <1>3, <2>3
  <2>5. y = x * 33 + c
    <3>1. PICK z \in Nat : z = x * 33 + c /\ z < 4294967296
      BY SMT, <2>4
    <3>2. z \in Int /\ 0 <= z /\ y \in Int /\ 0 <= y /\ y < 4294967296 /\ z = q * 4294967296 + y
      BY SMT, <1>3, <1>4, <3>1
    <3>3. z = y
      BY SMT, <3>1, <3>2, NoCarry
    <3> QED
      BY SMT, <3>1, <3>3
  <2>6. \/ n = 1 /\ y <= 177828
        \/ n = 2 /\ y <= 5868579
        \/ n = 3 /\ y <= 193663362
    BY SMT, <1>1, <1>3, <2>3, <2>5
  <2>7. (x * 33 + c) % 2147483647 = y
    <3>1. y \in Int /\ 0 <= y /\ y < 2147483647
      BY SMT, <1>3, <2>6
    <3> QED
      BY SMT, <2>5, <3>1, RemainderOfSmall
  <2>8. y = Polynomial(name', 2147483647)
    BY SMT, <1>5, <2>2, <2>7
  <2> QED
    BY SMT, <2>6, <2>8
<1>11. \A n \in 0 .. 3 : Len(name') = n =>
            /\ Value(hash') = Polynomial(name', 2147483647)
            /\ Value(hash') <= <<5381, 177828, 5868579, 193663362>>[n + 1]
  BY SMT, <1>3, <1>10
<1> QED
  BY SMT, <1>1, <1>2, <1>6, <1>8, <1>9, <1>11 DEF NamesInv

LEMMA LoopsInit == Init => LoopsInv
<1> SUFFICES ASSUME Init
             PROVE  LoopsInv
  OBVIOUS
<1>1. LabelsInv
  BY DEF Init, LabelsInv
<1>2. name = << >> /\ hash = NoCharacters
  BY DEF Init
<1>3. NoCharacters = <<5, 21, 0, 0>>
  BY SMT DEF NoCharacters, WordOf
<1>4. IsWord(hash)
  BY <1>2, <1>3 DEF IsWord, Byte
<1>5. Value(hash) = 5381 /\ hash[1] + 256 * hash[2] + 65536 * hash[3] = 5381
  BY SMT, <1>2, <1>3 DEF Value
<1>6. /\ Polynomial(<< >>, Values) = 5381 % Values
      /\ Polynomial(<< >>, 16777216) = 5381 % 16777216
      /\ Polynomial(<< >>, 2147483647) = 5381 % 2147483647
  BY SMT, PolynomialEmpty
<1>7. Polynomial(name, Values) = 5381 /\ Polynomial(name, 16777216) = 5381 /\ Polynomial(name, 2147483647) = 5381
  BY SMT, <1>2, <1>6 DEF Values
<1>8. name \in Seq(Character) /\ Len(name) = 0
  BY <1>2
<1>9. \A n \in 0 .. 3 : Len(name) = n =>
            /\ Value(hash) = Polynomial(name, 2147483647)
            /\ Value(hash) <= <<5381, 177828, 5868579, 193663362>>[n + 1]
  BY SMT, <1>5, <1>7, <1>8
<1>10. NamesInv
  BY SMT, <1>4, <1>5, <1>7, <1>8, <1>9 DEF NamesInv
<1> QED
  BY <1>1, <1>10 DEF LoopsInv

LEMMA LoopsNext ==
    ASSUME LoopsInv, [Next]_<<id, serverHash, name, hash>>
    PROVE  LoopsInv'
<1>1. CASE NextServer
  <2>1. LabelsInv'
    <3>1. id + 1 \in 0 .. MaxServers
      BY <1>1, LoopConstants DEF LoopsInv, LabelsInv, NextServer
    <3> QED
      BY <1>1, <3>1 DEF NextServer, LabelsInv
  <2>2. NamesInv'
    <3>1. name' = name /\ hash' = hash
      BY <1>1 DEF NextServer
    <3> QED
      BY SMT, <3>1 DEF LoopsInv, NamesInv
  <2> QED
    BY <2>1, <2>2 DEF LoopsInv
<1>2. ASSUME NEW c \in Character, ReadCharacter(c)
      PROVE  LoopsInv'
  <2>1. name' = Append(name, c) /\ hash' = AddCharacter(hash, c) /\ id' = id /\ serverHash' = serverHash
    BY <1>2 DEF ReadCharacter
  <2>2. NamesInv'
    BY <2>1, CharacterRead DEF LoopsInv
  <2> QED
    BY <2>1, <2>2 DEF LoopsInv, LabelsInv
<1>3. CASE UNCHANGED <<id, serverHash, name, hash>>
  <2>1. name' = name /\ hash' = hash /\ id' = id /\ serverHash' = serverHash
    BY <1>3
  <2>2. NamesInv'
    BY SMT, <2>1 DEF LoopsInv, NamesInv
  <2> QED
    BY <2>1, <2>2 DEF LoopsInv, LabelsInv
<1> QED
  BY <1>1, <1>2, <1>3 DEF Next

\* LoopsInv holds at every step.
THEOREM LoopsInvariance == Spec => []LoopsInv
<1> QED
  BY LoopsInit, LoopsNext, PTL DEF Spec

\* PointNamesLabel: the server id and the replica of a label can be computed
\* from the hash that init_server stores for it.
THEOREM HashNamesLabel == Spec => []PointNamesLabel
<1>1. LoopsInv => PointNamesLabel
  BY LabelHashed, Labels DEF LoopsInv, LabelsInv, PointNamesLabel, InitServer
<1> QED
  BY <1>1, LoopsInvariance, PTL

\* NoPointAtMaximum: init_server stores no hash that is UINT_MAX.
THEOREM NoLabelAtMaximum == Spec => []NoPointAtMaximum
<1>1. LoopsInv => NoPointAtMaximum
  BY LabelHashed DEF LoopsInv, LabelsInv, NoPointAtMaximum, InitServer
<1> QED
  BY <1>1, LoopsInvariance, PTL

\* NameHashIsPolynomial: hash_string counts each character with its unsigned
\* value and its place.
THEOREM NamesHashed == Spec => []NameHashIsPolynomial
<1>1. ASSUME LoopsInv
      PROVE  NameHashIsPolynomial
  <2>1. ASSUME Len(name) <= 3
        PROVE  hash = WordOf(Polynomial(name, 2147483647))
    <3>0. name \in Seq(Character)
      BY SMT, <1>1 DEF LoopsInv, NamesInv
    <3>1. Len(name) \in 0 .. 3
      <4>1. PICK n : n = Len(name)
        OBVIOUS
      <4>2. n \in Nat
        BY <3>0, <4>1, LenProperties
      <4>3. n \in 0 .. 3
        BY SMT, <2>1, <4>1, <4>2
      <4> QED
        BY <4>1, <4>3
    <3>2. Value(hash) = Polynomial(name, 2147483647) /\ IsWord(hash)
      BY SMT, <1>1, <3>1 DEF LoopsInv, NamesInv
    <3>3. IsValue(Value(hash))
      BY <3>2, ValueOfWord
    <3>4. hash = WordOf(Value(hash))
      BY <3>2, <3>3, WordOfNumber, ValueInjective
    <3> QED
      BY SMT, <3>2, <3>4
  <2> QED
    BY SMT, <1>1, <2>1 DEF LoopsInv, NamesInv, NameHashIsPolynomial
<1> QED
  BY <1>1, LoopsInvariance, PTL

\* The same of the whole word, for names of every length: what hash_string
\* returns is the polynomial of the name modulo 2^32.
THEOREM NamesHashedModulo == Spec => [](Value(hash) = Polynomial(name, Values))
<1>1. LoopsInv => Value(hash) = Polynomial(name, Values)
  BY SMT DEF LoopsInv, NamesInv
<1> QED
  BY <1>1, LoopsInvariance, PTL

-----------------------------------------------------------------------------
(***************************************************************************)
(* The ring of the program: the one of HashRing, with the hashes that      *)
(* init_server computes for the labels of all ids up to MAX_SERVERS.       *)
(***************************************************************************)
ProgramHash == [x \in 0 .. MaxServers |-> [i \in Replica |-> Value(LabelHash(x, i))]]

Ring(Doc, DocHash) ==
    INSTANCE HashRing WITH Server <- 0 .. MaxServers, NumReplicas <- MaxReplicas,
                           ServerHash <- ProgramHash, HashMax <- Values - 1

\* DistinctPoints holds of the ring of the program, whatever the documents: no
\* two labels have one hash, and none has UINT_MAX.  It is what the theorems
\* about the database assume of hashes.
THEOREM ProgramPointsDistinct ==
    ASSUME NEW Doc, NEW DocHash
    PROVE  Ring(Doc, DocHash)!DistinctPoints
<1>1. \A p \in Ring(Doc, DocHash)!Point : /\ p.server \in 0 .. MaxServers /\ p.replica \in Replica
                 /\ p = [server |-> p.server, replica |-> p.replica]
                 /\ Ring(Doc, DocHash)!PointHash(p) = Value(LabelHash(p.server, p.replica))
  BY DEF Ring!Point, Ring!PointHash, Ring!Replica, Replica, ProgramHash
<1>2. ASSUME NEW p \in Ring(Doc, DocHash)!Point, NEW q \in Ring(Doc, DocHash)!Point,
             Ring(Doc, DocHash)!PointHash(p) = Ring(Doc, DocHash)!PointHash(q)
      PROVE  p = q
  <2>1. LabelHash(p.server, p.replica) = LabelHash(q.server, q.replica)
    BY <1>1, <1>2, LabelHashed, ValueInjective
  <2>2. WordOf(ReplicaLabel(p.server, p.replica)) = WordOf(ReplicaLabel(q.server, q.replica))
    BY <1>1, <2>1, LabelHashed
  <2>3. ReplicaLabel(p.server, p.replica) = ReplicaLabel(q.server, q.replica)
    BY <1>1, <2>2, Labels, WordOfNumber
  <2> QED
    BY <1>1, <2>3, Labels
<1>3. ASSUME NEW p \in Ring(Doc, DocHash)!Point
      PROVE  Ring(Doc, DocHash)!PointHash(p) < Values - 1
  <2>1. PICK w : w = LabelHash(p.server, p.replica)
    OBVIOUS
  <2>2. IsWord(w) /\ w # MaxWord /\ Ring(Doc, DocHash)!PointHash(p) = Value(w)
    BY <1>1, <2>1, LabelHashed
  <2>3. IsWord(MaxWord) /\ Value(MaxWord) = 4294967295
    BY SMT DEF IsWord, Byte, MaxWord, Value
  <2>4. Value(w) # Value(MaxWord)
    BY <2>2, <2>3, ValueInjective
  <2>5. IsValue(Value(w))
    BY <2>2, ValueOfWord
  <2> QED
    BY SMT, <2>2, <2>3, <2>4, <2>5 DEF IsValue, Values
<1> QED
  BY <1>2, <1>3 DEF Ring!DistinctPoints
=============================================================================
