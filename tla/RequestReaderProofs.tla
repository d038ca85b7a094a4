------------------------ MODULE RequestReaderProofs ------------------------
(***************************************************************************)
(* What the reader of the input carries out is what the file says, for     *)
(* contents of any length in any number of requests.                       *)
(*                                                                         *)
(* The file is the lines of its requests one behind the other, so that     *)
(* each request has its place in it.  Between two requests the reader is   *)
(* at the place of the next one, and in the middle of a content it has     *)
(* read this content up to a newline: fgets never stops before one, since  *)
(* no part of a content is longer than DOC_CONTENT_LENGTH.                 *)
(***************************************************************************)
EXTENDS RequestReader, SequenceTheorems, WellFoundedInduction, TLAPS

\* What a file consists of; that a literal is in STRING the provers do not know.
Symbol == STRING \union {"EDIT", "GET", "ADD_SERVER", "REMOVE_SERVER", Space, Quote, Newline}

LEMMA LeastNumber ==
    ASSUME NEW T \in SUBSET Nat, T # {}
    PROVE  \E n \in T : \A m \in T : n <= m
<1> DEFINE R == {ss \in Nat \X Nat : ss[1] < ss[2]}
<1>1. IsWellFoundedOn(R, Nat)
  BY NatLessThanWellFounded DEF OpToRel
<1> HIDE DEF R
<1>2. PICK n \in T : \A m \in T : ~ (<<m, n>> \in R)
  BY <1>1, WFMin
<1>3. \A m \in T : ~ (m < n)
  BY <1>2 DEF R
<1> QED
  BY <1>3
-----------------------------------------------------------------------------
(***************************************************************************)
(* Looking for a symbol.                                                   *)
(***************************************************************************)
LEMMA FirstIndex ==
    ASSUME NEW S \in SUBSET Int, NEW i \in S, \A j \in S : i <= j
    PROVE  FirstOf(S) = i
<1>1. \A j \in S : (\A l \in S : j <= l) => j = i
  OBVIOUS
<1>2. Min(S) = i
  BY <1>1 DEF Min
<1> QED
  BY <1>2 DEF FirstOf

LEMMA NoIndex == FirstOf({}) = -1
BY DEF FirstOf

LEMMA LastNewlineIs ==
    ASSUME NEW s, Len(s) \in Nat, NEW j \in 1 .. Len(s), s[j] = Newline,
           \A i \in j + 1 .. Len(s) : s[i] # Newline
    PROVE  SelectLastInSeq(s, LAMBDA c : c = Newline) = j /\ Contains(s, Newline)
<1> DEFINE I == {i \in 1 .. Len(s) : s[i] = Newline}
<1>1. j \in I /\ \A i \in I : j >= i /\ (i >= j => i = j)
  OBVIOUS
<1> QED
  BY <1>1 DEF SelectLastInSeq, Max, Contains

LEMMA NoNewlineIn ==
    ASSUME NEW s, \A i \in 1 .. Len(s) : s[i] # Newline
    PROVE  SelectLastInSeq(s, LAMBDA c : c = Newline) = 0 /\ ~ Contains(s, Newline)
BY DEF SelectLastInSeq, Contains

(***************************************************************************)
(* fgets: a line ends behind the first newline, at the end of the buffer   *)
(* or at the end of the file.                                              *)
(***************************************************************************)
LineEnds(n, e) ==
    /\ e \in 0 .. Len(input) /\ e <= n
    /\ \A i \in 1 .. e - 1 : input[i] # Newline
    /\ e \in {n, Len(input)} \/ (e >= 1 /\ input[e] = Newline)

LineIs(line, e) ==
    /\ line \in Seq(Symbol) /\ Len(line) = e
    /\ \A i \in 1 .. e : line[i] = input[i]

LEMMA LineRead ==
    ASSUME input \in Seq(Symbol), NEW n \in Nat, NEW e, LineEnds(n, e)
    PROVE  LineIs(Line(n), e)
<1> DEFINE I == {i \in 1 .. Len(input) : input[i] = Newline}
           end == SelectInSeq(input, LAMBDA c : c = Newline)
<1>1. Len(input) \in Nat /\ \A i \in 1 .. Len(input) : input[i] \in Symbol
  BY LenProperties, ElementOfSeq
<1>2. \/ end = 0 /\ I = {}
      \/ end \in I /\ \A j \in I : end <= j
  <2>1. CASE I = {}
    BY <2>1 DEF SelectInSeq
  <2>2. CASE I # {}
    <3>1. PICK i \in I : \A j \in I : i <= j
      <4>1. I \in SUBSET Nat
        OBVIOUS
      <4> HIDE DEF I
      <4> QED
        BY <2>2, <4>1, LeastNumber
    <3>2. end = Min(I)
      BY <2>2 DEF SelectInSeq
    <3>3. Min(I) = i
      BY <1>1, <3>1 DEF Min
    <3> QED
      BY <3>1, <3>2, <3>3
  <2> QED
    BY <2>1, <2>2
<1>3. Min({n, Len(input)}) = IF n <= Len(input) THEN n ELSE Len(input)
  BY <1>1 DEF Min
<1>4. Line(n) = SubSeq(input, 1, IF end \in 1 .. n THEN end ELSE Min({n, Len(input)}))
  BY DEF Line
<1> HIDE DEF end
<1>5. Line(n) = SubSeq(input, 1, e)
  <2>1. (IF end \in 1 .. n THEN end ELSE Min({n, Len(input)})) = e
    BY <1>1, <1>2, <1>3 DEF LineEnds
  <2> QED
    BY <1>4, <2>1
<1> QED
  BY <1>1, <1>5, SubSeqProperties DEF LineEnds, LineIs

-----------------------------------------------------------------------------
(***************************************************************************)
(* The lines of a request, symbol by symbol.                               *)
(***************************************************************************)
LEMMA RequestType ==
    ASSUME NEW r, WellFormed(r)
    PROVE  r.type \in {"EDIT", "GET", "ADD_SERVER", "REMOVE_SERVER"}
BY DEF WellFormed, Symbol

EditLines(l, r) ==
    /\ r = Edit(r.name, r.content) /\ r.name \in Symbol /\ r.name # Quote /\ r.name # Newline
    /\ r.content \in Seq(Symbol) /\ Len(r.content) \in 0 .. ContentLength
    /\ \A i \in 1 .. Len(r.content) : r.content[i] # Quote
    /\ l \in Seq(Symbol) /\ Len(l) = Len(r.content) + 9
    /\ l[1] = "EDIT" /\ l[2] = Space /\ l[3] = Quote /\ l[4] = r.name
    /\ l[5] = Quote /\ l[6] = Space /\ l[7] = Quote
    /\ \A i \in 1 .. Len(r.content) : l[7 + i] = r.content[i]
    /\ l[Len(r.content) + 8] = Quote /\ l[Len(r.content) + 9] = Newline

LEMMA LinesOfEdit ==
    ASSUME NEW r, WellFormed(r), r.type = "EDIT"
    PROVE  EditLines(Lines(r), r)
<1>1. /\ r = Edit(r.name, r.content)
      /\ r.name \in Symbol /\ r.name # Quote /\ r.name # Newline
      /\ r.content \in Seq(STRING \ {Quote}) /\ Len(r.content) <= ContentLength
  BY DEF WellFormed, Symbol
<1>2. PICK a, c, z, L :
        /\ a = <<"EDIT", Space, Quote, r.name, Quote, Space, Quote>>
        /\ c = r.content /\ z = <<Quote, Newline>> /\ L = Len(c)
  OBVIOUS
<1>3. L \in Nat /\ \A i \in 1 .. L : c[i] # Quote
  BY <1>1, <1>2, LenProperties, ElementOfSeq
<1>4. c \in Seq(Symbol)
  BY <1>1, <1>2, SeqMonotonic DEF Symbol
<1>5. a \in Seq(Symbol) /\ z \in Seq(Symbol) /\ Len(a) = 7 /\ Len(z) = 2
  BY <1>1, <1>2 DEF Symbol
<1>6. Lines(r) = (a \o c) \o z
  BY <1>2 DEF Lines
<1>7. PICK b : b = a \o c
  OBVIOUS
<1>8. /\ b \in Seq(Symbol) /\ Len(b) = 7 + L
      /\ \A i \in 1 .. 7 + L : b[i] = IF i <= 7 THEN a[i] ELSE c[i - 7]
  BY <1>2, <1>4, <1>5, <1>7, ConcatProperties
<1>9. PICK l : l = Lines(r)
  OBVIOUS
<1>10. /\ l \in Seq(Symbol) /\ Len(l) = L + 9
       /\ \A i \in 1 .. L + 9 : l[i] = IF i <= 7 + L THEN b[i] ELSE z[i - (7 + L)]
  <2>1. l = b \o z
    BY <1>6, <1>7, <1>9
  <2>2. /\ l \in Seq(Symbol) /\ Len(l) = Len(b) + Len(z)
        /\ \A i \in 1 .. Len(b) + Len(z) : l[i] = IF i <= Len(b) THEN b[i] ELSE z[i - Len(b)]
    BY <1>5, <1>8, <2>1, ConcatProperties
  <2>3. Len(b) + Len(z) = L + 9
    BY <1>3, <1>5, <1>8
  <2> QED
    BY <1>8, <2>2, <2>3
<1>11. \A i \in 1 .. 7 : l[i] = a[i]
  BY <1>3, <1>8, <1>10
<1>12. \A i \in 1 .. L : l[7 + i] = c[i]
  <2> TAKE i \in 1 .. L
  <2>1. 7 + i \in 1 .. 7 + L /\ 7 + i \in 1 .. L + 9 /\ ~ (7 + i <= 7) /\ (7 + i) - 7 = i
    BY <1>3
  <2> QED
    BY <1>8, <1>10, <2>1
<1>13. l[L + 8] = z[1] /\ l[L + 9] = z[2]
  BY <1>3, <1>10
<1>14. L \in 0 .. ContentLength
  BY <1>1, <1>2, <1>3, ReaderConstants
<1> QED
  BY <1>1, <1>2, <1>3, <1>4, <1>9, <1>10, <1>11, <1>12, <1>13, <1>14 DEF EditLines

GetLines(l, r) ==
    /\ r = Get(r.name) /\ r.name \in Symbol /\ r.name # Quote /\ r.name # Newline
    /\ l \in Seq(Symbol) /\ Len(l) = 6
    /\ l[1] = "GET" /\ l[2] = Space /\ l[3] = Quote /\ l[4] = r.name /\ l[5] = Quote /\ l[6] = Newline

LEMMA LinesOfGet ==
    ASSUME NEW r, WellFormed(r), r.type = "GET"
    PROVE  GetLines(Lines(r), r)
<1>1. r = Get(r.name) /\ r.name \in Symbol /\ r.name # Quote /\ r.name # Newline
  BY DEF WellFormed, Symbol
<1>2. Lines(r) = <<"GET", Space, Quote, r.name, Quote, Newline>>
  BY DEF Lines
<1> QED
  BY <1>1, <1>2 DEF GetLines, Symbol

AddLines(l, r) ==
    /\ r = AddId(r.id, r.size) /\ r.id \in Symbol /\ r.size \in Symbol
    /\ r.id # Space /\ r.id # Newline /\ r.size # Newline
    /\ l \in Seq(Symbol) /\ Len(l) = 6
    /\ l[1] = "ADD_SERVER" /\ l[2] = Space /\ l[3] = r.id /\ l[4] = Space /\ l[5] = r.size /\ l[6] = Newline

LEMMA LinesOfAdd ==
    ASSUME NEW r, WellFormed(r), r.type = "ADD_SERVER"
    PROVE  AddLines(Lines(r), r)
<1>1. r = AddId(r.id, r.size) /\ {r.id, r.size} \subseteq STRING \ {Space, Newline}
  BY DEF WellFormed, Symbol
<1>2. Lines(r) = <<"ADD_SERVER", Space, r.id, Space, r.size, Newline>>
  BY DEF Lines
<1> QED
  BY <1>1, <1>2 DEF AddLines, Symbol

RemoveLines(l, r) ==
    /\ r = RemoveId(r.id) /\ r.id \in Symbol /\ r.id # Newline
    /\ l \in Seq(Symbol) /\ Len(l) = 4
    /\ l[1] = "REMOVE_SERVER" /\ l[2] = Space /\ l[3] = r.id /\ l[4] = Newline

LEMMA LinesOfRemove ==
    ASSUME NEW r, WellFormed(r), r.type = "REMOVE_SERVER"
    PROVE  RemoveLines(Lines(r), r)
<1>1. r = RemoveId(r.id) /\ r.id \in Symbol /\ r.id # Newline
  BY DEF WellFormed, Symbol
<1>2. Lines(r) = <<"REMOVE_SERVER", Space, r.id, Newline>>
  BY DEF Lines
<1> QED
  BY <1>1, <1>2 DEF RemoveLines, Symbol

\* The first symbol is the word, the last one a newline.
LEMMA LinesOfRequest ==
    ASSUME NEW r, WellFormed(r)
    PROVE  /\ Lines(r) \in Seq(Symbol) /\ Len(Lines(r)) \in Nat /\ Len(Lines(r)) >= 1
           /\ Lines(r)[1] = r.type /\ Lines(r)[Len(Lines(r))] = Newline
<1>1. CASE r.type = "EDIT"
  BY <1>1, LinesOfEdit DEF EditLines
<1>2. CASE r.type = "GET"
  BY <1>2, LinesOfGet DEF GetLines
<1>3. CASE r.type = "ADD_SERVER"
  BY <1>3, LinesOfAdd DEF AddLines
<1>4. CASE r.type = "REMOVE_SERVER"
  BY <1>4, LinesOfRemove DEF RemoveLines
<1> QED
  BY <1>1, <1>2, <1>3, <1>4, RequestType

LEMMA SymbolsDiffer ==
    /\ Space # Quote /\ Space # Newline /\ Quote # Newline
    /\ \A t \in {"EDIT", "GET", "ADD_SERVER", "REMOVE_SERVER"} : t # Space /\ t # Quote /\ t # Newline
BY DEF Space, Quote, Newline

-----------------------------------------------------------------------------
(***************************************************************************)
(* The file, and the place of each request in it.  FlattenSeq joins the    *)
(* lines from the first request on.                                        *)
(***************************************************************************)
Joined(f, s, n) == f = [i \in 1 .. n |-> IF i = 1 THEN s[i] ELSE f[i - 1] \o s[i]]

LEMMA JoinedExists ==
    ASSUME NEW s, NEW n \in Nat
    PROVE  \E f : Joined(f, s, n)
<1> DEFINE Good(m) == \E f : Joined(f, s, m)
           T == {m \in Nat : ~ Good(m)}
<1> SUFFICES ASSUME T # {}
             PROVE  FALSE
  OBVIOUS
<1>1. PICK m \in T : \A k \in T : m <= k
  <2>1. T \in SUBSET Nat
    OBVIOUS
  <2> HIDE DEF T
  <2> QED
    BY <2>1, LeastNumber
<1>2. m # 0
  <2> DEFINE g == [i \in 1 .. 0 |-> s[i]]
  <2>1. Joined(g, s, 0)
    BY DEF Joined
  <2> QED
    BY <1>1, <2>1
<1>3. m - 1 \in Nat /\ m \in Nat \ {0} /\ ~ (m <= m - 1)
  BY <1>1, <1>2
<1>4. PICK f : Joined(f, s, m - 1)
  <2>1. m - 1 \notin T
    BY <1>1, <1>3
  <2> QED
    BY <1>3, <2>1
<1> DEFINE h == [i \in 1 .. m |-> IF i = m THEN IF m = 1 THEN s[m] ELSE f[m - 1] \o s[m] ELSE f[i]]
<1>5. \A i \in 1 .. m - 1 : h[i] = f[i] /\ f[i] = IF i = 1 THEN s[i] ELSE f[i - 1] \o s[i]
  <2> TAKE i \in 1 .. m - 1
  <2>1. i \in 1 .. m /\ i # m
    BY <1>3
  <2>2. f[i] = IF i = 1 THEN s[i] ELSE f[i - 1] \o s[i]
    BY <1>4 DEF Joined
  <2>3. h[i] = f[i]
    BY <2>1
  <2> QED
    BY <2>2, <2>3
<1>6. ASSUME NEW i \in 1 .. m
      PROVE  h[i] = IF i = 1 THEN s[i] ELSE h[i - 1] \o s[i]
  <2>1. CASE i = 1
    <3>1. CASE m = 1
      BY <2>1, <3>1
    <3>2. CASE m # 1
      <4>1. 1 \in 1 .. m - 1
        BY <1>3, <3>2
      <4>2. h[1] = s[1]
        BY <1>5, <4>1
      <4> QED
        BY <2>1, <4>2
    <3> QED
      BY <3>1, <3>2
  <2>2. CASE i # 1
    <3>1. i - 1 \in 1 .. m - 1 /\ (i # m => i \in 1 .. m - 1)
      BY <1>3, <2>2
    <3>2. h[i - 1] = f[i - 1]
      BY <1>5, <3>1
    <3> QED
      BY <1>3, <1>5, <2>2, <3>1, <3>2
  <2> QED
    BY <2>1, <2>2
<1> HIDE DEF h
<1>7. h = [i \in 1 .. m |-> h[i]]
  BY DEF h
<1>8. Joined(h, s, m)
  BY <1>6, <1>7 DEF Joined
<1> QED
  BY <1>1, <1>8

Before(f, i) == IF i = 1 THEN 0 ELSE Len(f[i - 1])

JoinedUpTo(f, s, m) ==
    /\ f[m] \in Seq(Symbol)
    /\ \A i \in 1 .. m :
        /\ Len(f[i]) \in Nat /\ Len(f[i]) <= Len(f[m])
        /\ Len(f[i]) = Before(f, i) + Len(s[i])
        /\ \A j \in 1 .. Len(s[i]) : f[m][Before(f, i) + j] = s[i][j]

LEMMA JoinedPlaces ==
    ASSUME NEW n \in Nat, NEW s, \A i \in 1 .. n : s[i] \in Seq(Symbol),
           NEW f, Joined(f, s, n), NEW m \in 1 .. n
    PROVE  JoinedUpTo(f, s, m)
<1> DEFINE T == {k \in 1 .. n : ~ JoinedUpTo(f, s, k)}
<1> SUFFICES ASSUME T # {}
             PROVE  FALSE
  OBVIOUS
<1>1. PICK k \in T : \A l \in T : k <= l
  <2>1. T \in SUBSET Nat
    OBVIOUS
  <2> HIDE DEF T
  <2> QED
    BY <2>1, LeastNumber
<1>2. \A i \in 1 .. n : f[i] = IF i = 1 THEN s[i] ELSE f[i - 1] \o s[i]
  BY DEF Joined
<1>3. CASE k = 1
  <2>1. f[1] = s[1] /\ s[1] \in Seq(Symbol)
    BY <1>1, <1>2, <1>3
  <2>2. Len(s[1]) \in Nat
    BY <2>1, LenProperties
  <2>3. JoinedUpTo(f, s, 1)
    <3> SUFFICES ASSUME NEW i \in 1 .. 1
                 PROVE  /\ Len(f[i]) \in Nat /\ Len(f[i]) <= Len(f[1])
                        /\ Len(f[i]) = Before(f, i) + Len(s[i])
                        /\ \A j \in 1 .. Len(s[i]) : f[1][Before(f, i) + j] = s[i][j]
      BY <2>1 DEF JoinedUpTo
    <3>1. i = 1 /\ Before(f, i) = 0
      BY DEF Before
    <3> QED
      BY <2>1, <2>2, <3>1
  <2> QED
    BY <1>1, <1>3, <2>3
<1>4. CASE k # 1
  <2>1. k - 1 \in 1 .. n /\ k \in 1 .. n /\ ~ (k <= k - 1)
    BY <1>1, <1>4
  <2>2. JoinedUpTo(f, s, k - 1)
    BY <1>1, <2>1
  <2>3. PICK a, b, c : a = f[k - 1] /\ b = s[k] /\ c = f[k]
    OBVIOUS
  <2>4. a \in Seq(Symbol) /\ b \in Seq(Symbol) /\ c = a \o b
    BY <1>2, <1>4, <2>1, <2>2, <2>3 DEF JoinedUpTo
  <2>5. Len(a) \in Nat /\ Len(b) \in Nat
    BY <2>4, LenProperties
  <2>6. /\ c \in Seq(Symbol) /\ Len(c) = Len(a) + Len(b)
        /\ \A i \in 1 .. Len(a) + Len(b) : c[i] = IF i <= Len(a) THEN a[i] ELSE b[i - Len(a)]
    BY <2>4, ConcatProperties
  <2>7. ASSUME NEW i \in 1 .. k
        PROVE  /\ Len(f[i]) \in Nat /\ Len(f[i]) <= Len(c)
               /\ Len(f[i]) = Before(f, i) + Len(s[i])
               /\ \A j \in 1 .. Len(s[i]) : c[Before(f, i) + j] = s[i][j]
    <3>1. CASE i = k
      <4>1. Before(f, i) = Len(a)
        BY <1>4, <2>3, <3>1 DEF Before
      <4>2. ASSUME NEW j \in 1 .. Len(b)
            PROVE  c[Len(a) + j] = b[j]
        <5>1. Len(a) + j \in 1 .. Len(a) + Len(b) /\ ~ (Len(a) + j <= Len(a)) /\ Len(a) + j - Len(a) = j
          BY <2>5
        <5> QED
          BY <2>6, <5>1
      <4>3. f[i] = c /\ s[i] = b
        BY <2>3, <3>1
      <4>4. Len(c) \in Nat /\ Len(c) = Before(f, i) + Len(b)
        BY <2>5, <2>6, <4>1
      <4>5. \A j \in 1 .. Len(b) : c[Before(f, i) + j] = b[j]
        BY <4>1, <4>2
      <4> QED
        BY <4>3, <4>4, <4>5
    <3>2. CASE i # k
      <4>1. i \in 1 .. k - 1
        BY <2>1, <3>2
      <4>2. /\ Len(f[i]) \in Nat /\ Len(f[i]) <= Len(a)
            /\ Len(f[i]) = Before(f, i) + Len(s[i])
            /\ \A j \in 1 .. Len(s[i]) : a[Before(f, i) + j] = s[i][j]
        BY <2>2, <2>3, <4>1 DEF JoinedUpTo
      <4>3. Before(f, i) \in Nat
        <5>1. i # 1 => i - 1 \in 1 .. k - 1
          BY <2>1, <4>1
        <5> QED
          BY <2>2, <5>1 DEF JoinedUpTo, Before
      <4>4. Len(s[i]) \in Nat
        <5>1. i \in 1 .. n
          BY <2>1
        <5> QED
          BY <5>1, LenProperties
      <4>5. PICK p : p = Before(f, i)
        OBVIOUS
      <4>6. ASSUME NEW j \in 1 .. Len(s[i])
            PROVE  c[p + j] = s[i][j]
        <5>1. p + j \in 1 .. Len(a)
          BY <2>5, <4>2, <4>3, <4>4, <4>5
        <5>2. p + j \in 1 .. Len(a) + Len(b) /\ p + j <= Len(a)
          BY <2>5, <5>1
        <5> QED
          BY <2>6, <4>2, <4>5, <5>2
      <4> QED
        BY <2>5, <2>6, <4>2, <4>5, <4>6
    <3> QED
      BY <3>1, <3>2
  <2>8. JoinedUpTo(f, s, k)
    BY <2>3, <2>6, <2>7 DEF JoinedUpTo
  <2> QED
    BY <1>1, <2>8
<1> QED
  BY <1>3, <1>4

\* P[i] is how many symbols precede the request behind the i-th in the file F.
ArePlaces(P, w, F) ==
    /\ F \in Seq(Symbol)
    /\ P \in [0 .. Len(w) -> 0 .. Len(F)]
    /\ P[0] = 0 /\ P[Len(w)] = Len(F)
    /\ \A i \in 1 .. Len(w) : P[i] = P[i - 1] + Len(Lines(w[i]))
    /\ \A i \in 1 .. Len(w) : \A j \in 1 .. Len(Lines(w[i])) : F[P[i - 1] + j] = Lines(w[i])[j]

LEMMA PlacesExist ==
    ASSUME NEW w, Len(w) \in Nat, DOMAIN w = 1 .. Len(w), \A i \in 1 .. Len(w) : WellFormed(w[i]),
           NEW F, F = FlattenSeq([i \in DOMAIN w |-> Lines(w[i])])
    PROVE  \E P : ArePlaces(P, w, F)
<1>1. PICK n, s : n = Len(w) /\ s = [i \in 1 .. n |-> Lines(w[i])]
  OBVIOUS
<1>2. n \in Nat /\ \A i \in 1 .. n : s[i] = Lines(w[i]) /\ s[i] \in Seq(Symbol)
  BY <1>1, LinesOfRequest
<1>3. Len(s) = n
  BY <1>1, <1>2
<1> DEFINE f == CHOOSE f : f = [i \in 1 .. n |-> IF i = 1 THEN s[i] ELSE f[i - 1] \o s[i]]
<1>4. Joined(f, s, n)
  <2>1. \E g : Joined(g, s, n)
    BY <1>2, JoinedExists
  <2> QED
    BY <2>1 DEF Joined
<1>5. F = IF n = 0 THEN s ELSE f[n]
  <2>1. F = FlattenSeq(s)
    BY <1>1
  <2> QED
    BY <1>3, <2>1 DEF FlattenSeq
<1> HIDE DEF f
<1>6. CASE n = 0
  <2>1. F = << >>
    BY <1>1, <1>5, <1>6
  <2>2. PICK P : P = [i \in 0 .. 0 |-> 0]
    OBVIOUS
  <2>3. P \in [0 .. 0 -> 0 .. 0] /\ P[0] = 0
    BY <2>2
  <2>4. F \in Seq(Symbol) /\ Len(F) = 0
    BY <2>1, EmptySeq
  <2>5. ArePlaces(P, w, F)
    BY <1>1, <1>6, <2>3, <2>4 DEF ArePlaces
  <2> QED
    BY <2>5
<1>7. CASE n # 0
  <2>1. F = f[n] /\ JoinedUpTo(f, s, n) /\ n \in 1 .. n
    BY <1>2, <1>4, <1>5, <1>7, JoinedPlaces
  <2>2. F \in Seq(Symbol) /\ Len(F) \in Nat
    BY <2>1, LenProperties DEF JoinedUpTo
  <2>3. PICK P : P = [i \in 0 .. n |-> IF i = 0 THEN 0 ELSE Len(f[i])]
    OBVIOUS
  <2>4. \A i \in 1 .. n : P[i] = Len(f[i]) /\ P[i] \in 0 .. Len(F)
    BY <2>1, <2>2, <2>3 DEF JoinedUpTo
  <2>5. P[0] = 0 /\ P[n] = Len(F)
    BY <1>2, <2>1, <2>3, <2>4
  <2>6. \A i \in 1 .. n : P[i - 1] = Before(f, i)
    <3> TAKE i \in 1 .. n
    <3>1. i # 1 => i - 1 \in 1 .. n
      BY <1>2
    <3> QED
      BY <2>4, <2>5, <3>1 DEF Before
  <2>7. \A i \in 1 .. n : P[i] = P[i - 1] + Len(s[i])
    BY <2>1, <2>4, <2>6 DEF JoinedUpTo
  <2>8. \A i \in 1 .. n : \A j \in 1 .. Len(s[i]) : F[P[i - 1] + j] = s[i][j]
    BY <2>1, <2>6 DEF JoinedUpTo
  <2>9. P \in [0 .. n -> 0 .. Len(F)]
    <3>1. \A i \in 0 .. n : P[i] \in 0 .. Len(F)
      <4> TAKE i \in 0 .. n
      <4>1. i = 0 \/ i \in 1 .. n
        BY <1>2
      <4>2. 0 \in 0 .. Len(F)
        BY <2>2
      <4> QED
        BY <2>4, <2>5, <4>1, <4>2
    <3>2. P = [i \in 0 .. n |-> P[i]]
      BY <2>3
    <3> QED
      BY <3>1, <3>2
  <2>10. ArePlaces(P, w, F)
    BY <1>1, <1>2, <2>2, <2>5, <2>7, <2>8, <2>9 DEF ArePlaces
  <2> QED
    BY <2>10
<1> QED
  BY <1>6, <1>7

-----------------------------------------------------------------------------
(***************************************************************************)
(* The invariant.  Only the last content of a file may be too long, and    *)
(* the reader then ends somewhere behind it.                               *)
(***************************************************************************)
File == FlattenSeq([i \in DOMAIN written |-> Lines(written[i])])

From(p) == SubSeq(File, p + 1, Len(File))

AnyRequest == Requests \union LastRequests

WrittenOK ==
    /\ written \in Seq(AnyRequest)
    /\ Len(written) \in Nat /\ DOMAIN written = 1 .. Len(written)
    /\ requestsNum \in Nat
    /\ \A i \in 1 .. Len(written) :
        /\ WellFormed(written[i])
        /\ written[i].type = "EDIT" =>
            IF i < Len(written) THEN Fits(written[i].content) ELSE AlmostFits(written[i].content)

\* The first k requests have been carried out.
IsCarriedOut(k) ==
    /\ k \in 0 .. Len(written) /\ Len(delivered) = k
    /\ delivered \in Seq(AnyRequest)
    /\ \A i \in 1 .. k : delivered[i] = written[i]

\* A content that does not fit has been read.
EndedLong(k) ==
    /\ phase = "request" /\ k = Len(written) /\ ~ AllFit
    /\ input = From(Len(File) - 1)

BetweenRequests(P, k) ==
    /\ phase = "request"
    /\ input = From(P[k])

\* The content c of the request has been read up to its j-th symbol.
ReadUpTo(P, k, c, j) ==
    /\ j \in 1 .. Len(c) /\ c[j] = Newline
    /\ content.text = SubSeq(c, 1, j)
    /\ input = From(P[k] + 7 + j)

WithinContent(P, k) ==
    /\ phase = "content" /\ wordStart # -1
    /\ k < Len(written) /\ written[k + 1].type = "EDIT"
    /\ content = [name |-> written[k + 1].name, text |-> content.text]
    /\ \/ \E j \in 1 .. Len(written[k + 1].content) : ReadUpTo(P, k, written[k + 1].content, j)
       \/ ~ AllFit /\ input = << >>

HasEnded(k) ==
    /\ phase \notin {"request", "content"}
    /\ DiesWithReason

ReaderIsAt(P, k) ==
    /\ ArePlaces(P, written, File)
    /\ IsCarriedOut(k)
    /\ BetweenRequests(P, k) \/ EndedLong(k) \/ WithinContent(P, k) \/ HasEnded(k)

\* ReaderInv: the reader has carried out a part of the file from its beginning,
\* and has read this part and perhaps some lines of the next request.
ReaderInv == WrittenOK /\ \E P, k : ReaderIsAt(P, k)

-----------------------------------------------------------------------------
LEMMA InitReader == Init => ReaderInv
<1> SUFFICES ASSUME Init
             PROVE  ReaderInv
  OBVIOUS
<1>1. WrittenOK
  <2>1. requestsNum \in Nat
    BY ReaderConstants DEF Init
  <2>2. CASE written = << >>
    BY <2>1, <2>2, EmptySeq DEF WrittenOK
  <2>3. CASE written # << >>
    <3>0. PICK w \in UNION {[1 .. n -> Requests] : n \in 0 .. MaxRequests - 1}, r \in LastRequests :
            written = Append(w, r)
      BY <2>3 DEF Init
    <3>1. PICK n \in 0 .. MaxRequests - 1 : w \in [1 .. n -> Requests]
      OBVIOUS
    <3>2. PICK S : S = AnyRequest
      OBVIOUS
    <3>3. n \in Nat /\ w \in Seq(S) /\ Len(w) = n /\ r \in S
      <4>1. n \in Nat
        BY ReaderConstants
      <4>2. w \in [1 .. n -> S]
        BY <3>1, <3>2 DEF AnyRequest
      <4> QED
        BY <3>2, <4>1, <4>2 DEF AnyRequest
    <3>4. /\ written \in Seq(S) /\ Len(written) = n + 1
          /\ \A i \in 1 .. n : written[i] = w[i]
          /\ written[n + 1] = r
      BY <3>0, <3>3, AppendProperties
    <3>5. DOMAIN written = 1 .. Len(written)
      BY <3>4, LenProperties
    <3>6. ASSUME NEW i \in 1 .. Len(written)
          PROVE  /\ WellFormed(written[i])
                 /\ written[i].type = "EDIT" =>
                      IF i < Len(written) THEN Fits(written[i].content) ELSE AlmostFits(written[i].content)
      <4>1. CASE i < Len(written)
        <5>1. i \in 1 .. n
          BY <3>3, <3>4, <4>1
        <5>2. written[i] \in Requests
          BY <3>1, <3>4, <5>1
        <5> QED
          BY <4>1, <5>2, ReaderConstants
      <4>2. CASE ~ (i < Len(written))
        <5>1. i = n + 1
          BY <3>3, <3>4, <4>2
        <5>2. written[i] \in LastRequests
          BY <3>1, <3>4, <5>1
        <5> QED
          BY <4>2, <5>2, ReaderConstants
      <4> QED
        BY <4>1, <4>2
    <3> QED
      BY <2>1, <3>2, <3>3, <3>4, <3>5, <3>6 DEF WrittenOK
  <2> QED
    BY <2>2, <2>3
<1>2. PICK P : ArePlaces(P, written, File)
  BY <1>1, PlacesExist DEF WrittenOK, File
<1>3. IsCarriedOut(0)
  <2>1. delivered = << >> /\ 0 \in 0 .. Len(written)
    <3>1. delivered = << >>
      BY DEF Init
    <3>2. Len(written) \in Nat
      BY <1>1 DEF WrittenOK
    <3> QED
      BY <3>1, <3>2
  <2>2. delivered \in Seq(AnyRequest) /\ Len(delivered) = 0
    BY <2>1, EmptySeq
  <2> QED
    BY <2>1, <2>2 DEF IsCarriedOut
<1>4. BetweenRequests(P, 0)
  <2>1. P[0] = 0 /\ File \in Seq(Symbol)
    BY <1>2 DEF ArePlaces
  <2>2. From(0) = File
    BY <2>1, SubSeqFull DEF From
  <2> QED
    BY <2>1, <2>2 DEF Init, BetweenRequests, File
<1>5. ReaderIsAt(P, 0)
  BY <1>2, <1>3, <1>4 DEF ReaderIsAt
<1> QED
  BY <1>1, <1>5 DEF ReaderInv

(***************************************************************************)
(* Reading from a place of the file on.                                    *)
(***************************************************************************)
InputAt(p) ==
    /\ input \in Seq(Symbol) /\ Len(input) \in Nat /\ Len(input) = Len(File) - p
    /\ \A i \in 1 .. Len(input) : input[i] = File[p + i]

LEMMA FromPlace ==
    ASSUME File \in Seq(Symbol), NEW p \in 0 .. Len(File), input = From(p)
    PROVE  InputAt(p)
<1>1. Len(File) \in Nat /\ \A i \in 1 .. Len(File) : File[i] \in Symbol
  BY LenProperties, ElementOfSeq
<1>2. \A i \in p + 1 .. Len(File) : File[i] \in Symbol
  BY <1>1
<1>3. /\ input \in Seq(Symbol)
      /\ Len(input) = IF p + 1 <= Len(File) THEN Len(File) - (p + 1) + 1 ELSE 0
      /\ \A i \in 1 .. Len(File) - (p + 1) + 1 : input[i] = File[(p + 1) + i - 1]
  <2>1. input = SubSeq(File, p + 1, Len(File)) /\ p + 1 \in Int /\ Len(File) \in Int
    BY <1>1 DEF From
  <2> QED
    BY <1>2, <2>1, SubSeqProperties
<1>4. Len(input) = Len(File) - p
  BY <1>1, <1>3
<1>5. ASSUME NEW i \in 1 .. Len(input)
      PROVE  input[i] = File[p + i]
  <2>1. i \in 1 .. Len(File) - (p + 1) + 1 /\ (p + 1) + i - 1 = p + i
    BY <1>1, <1>4
  <2> QED
    BY <1>3, <2>1
<1> QED
  BY <1>1, <1>3, <1>4, <1>5 DEF InputAt

LEMMA BehindLine ==
    ASSUME File \in Seq(Symbol), NEW p \in 0 .. Len(File), input = From(p),
           NEW e \in 0 .. Len(input), NEW line, LineIs(line, e)
    PROVE  Behind(line) = From(p + e)
<1>1. Len(File) \in Nat /\ \A i \in 1 .. Len(File) : File[i] \in Symbol
  BY LenProperties, ElementOfSeq
<1>2. InputAt(p)
  BY FromPlace
<1>3. PICK N, M : N = Len(File) /\ M = Len(input)
  OBVIOUS
<1>4. N \in Nat /\ M = N - p /\ e \in 0 .. M /\ p \in 0 .. N
  BY <1>1, <1>2, <1>3 DEF InputAt
<1>5. Behind(line) = SubSeq(input, e + 1, M) /\ From(p + e) = SubSeq(File, p + e + 1, N)
  BY <1>3 DEF Behind, LineIs, From
<1>6. PICK a, b : a = Behind(line) /\ b = From(p + e)
  OBVIOUS
<1>7. /\ a \in Seq(Symbol) /\ Len(a) = IF e + 1 <= M THEN M - (e + 1) + 1 ELSE 0
      /\ \A i \in 1 .. M - (e + 1) + 1 : a[i] = input[(e + 1) + i - 1]
  <2>1. \A i \in e + 1 .. M : input[i] \in Symbol
    BY <1>2, <1>3, <1>4, ElementOfSeq DEF InputAt
  <2>2. e + 1 \in Int /\ M \in Int
    BY <1>4
  <2> QED
    BY <1>5, <1>6, <2>1, <2>2, SubSeqProperties
<1>8. /\ b \in Seq(Symbol) /\ Len(b) = IF p + e + 1 <= N THEN N - (p + e + 1) + 1 ELSE 0
      /\ \A i \in 1 .. N - (p + e + 1) + 1 : b[i] = File[(p + e + 1) + i - 1]
  <2>1. PICK q : q = p + e + 1
    OBVIOUS
  <2>2. q \in Int /\ N \in Int /\ b = SubSeq(File, q, N)
    BY <1>4, <1>5, <1>6, <2>1
  <2>3. \A i \in q .. N : File[i] \in Symbol
    BY <1>1, <1>3, <1>4, <2>1
  <2>4. /\ b \in Seq(Symbol) /\ Len(b) = IF q <= N THEN N - q + 1 ELSE 0
        /\ \A i \in 1 .. N - q + 1 : b[i] = File[q + i - 1]
    BY <2>2, <2>3, SubSeqProperties
  <2> QED
    BY <2>1, <2>4
<1>9. Len(a) = M - e /\ Len(b) = M - e
  BY <1>4, <1>7, <1>8
<1>10. ASSUME NEW i \in 1 .. M - e
       PROVE  a[i] = b[i]
  <2>1. /\ i \in 1 .. M - (e + 1) + 1 /\ (e + 1) + i - 1 = e + i /\ e + i \in 1 .. M
        /\ i \in 1 .. N - (p + e + 1) + 1 /\ (p + e + 1) + i - 1 = p + (e + i)
    BY <1>4
  <2>2. input[e + i] = File[p + (e + i)]
    BY <1>2, <1>3, <2>1 DEF InputAt
  <2> QED
    BY <1>7, <1>8, <2>1, <2>2
<1>11. a = b
  BY <1>7, <1>8, <1>9, <1>10, SeqEqual
<1> QED
  BY <1>6, <1>11

\* Where the lines of the request behind the k-th are.
NextLines(P, k, l) ==
    /\ l \in Seq(Symbol) /\ Len(l) \in Nat /\ Len(l) >= 1
    /\ P[k] \in 0 .. Len(File) /\ Len(File) \in Nat
    /\ P[k + 1] = P[k] + Len(l) /\ P[k] + Len(l) <= Len(File)
    /\ \A j \in 1 .. Len(l) : File[P[k] + j] = l[j]

LEMMA LinesInFile ==
    ASSUME WrittenOK, NEW P, ArePlaces(P, written, File), NEW k \in 0 .. Len(written) - 1
    PROVE  /\ WellFormed(written[k + 1])
           /\ NextLines(P, k, Lines(written[k + 1]))
           /\ Lines(written[k + 1])[1] = written[k + 1].type
<1>1. k + 1 \in 1 .. Len(written) /\ k \in 0 .. Len(written) /\ k + 1 \in 0 .. Len(written) /\ (k + 1) - 1 = k
  BY DEF WrittenOK
<1>2. WellFormed(written[k + 1])
  BY <1>1 DEF WrittenOK
<1>3. PICK l : l = Lines(written[k + 1])
  OBVIOUS
<1>4. l \in Seq(Symbol) /\ Len(l) \in Nat /\ Len(l) >= 1 /\ l[1] = written[k + 1].type
  BY <1>2, <1>3, LinesOfRequest
<1>5. P[k] \in 0 .. Len(File) /\ P[k + 1] \in 0 .. Len(File) /\ File \in Seq(Symbol)
  BY <1>1 DEF ArePlaces
<1>6. Len(File) \in Nat
  BY <1>5, LenProperties
<1>7. P[k + 1] = P[k] + Len(l) /\ \A j \in 1 .. Len(l) : File[P[k] + j] = l[j]
  BY <1>1, <1>3 DEF ArePlaces
<1>8. P[k] + Len(l) <= Len(File)
  BY <1>5, <1>6, <1>7
<1> QED
  BY <1>2, <1>3, <1>4, <1>5, <1>6, <1>7, <1>8 DEF NextLines

\* A line that lies within those of the request.
PartOf(line, l, q, e) ==
    /\ line \in Seq(Symbol) /\ Len(line) = e
    /\ \A i \in 1 .. e : line[i] = l[q + i]

\* Where such a line ends, with a buffer for n symbols.
PartEnds(l, q, e, n) ==
    /\ n \in Nat /\ q \in 0 .. Len(l) /\ e \in 1 .. Len(l) - q /\ e <= n
    /\ \A i \in 1 .. e - 1 : l[q + i] # Newline
    /\ e = n \/ l[q + e] = Newline

LEMMA PartRead ==
    ASSUME File \in Seq(Symbol), NEW P, NEW k, NEW l, NextLines(P, k, l),
           NEW q, NEW e, NEW n, PartEnds(l, q, e, n), input = From(P[k] + q)
    PROVE  PartOf(Line(n), l, q, e) /\ Behind(Line(n)) = From(P[k] + q + e)
<1>0. n \in Nat /\ q \in 0 .. Len(l) /\ e \in 1 .. Len(l) - q /\ e <= n
  BY DEF PartEnds
<1>1. PICK p, N, L : p = P[k] /\ N = Len(File) /\ L = Len(l)
  OBVIOUS
<1>2. p \in 0 .. N /\ N \in Nat /\ L \in Nat /\ p + L <= N /\ \A j \in 1 .. L : File[p + j] = l[j]
  BY <1>0, <1>1 DEF NextLines
<1>3. InputAt(p + q) /\ p + q \in 0 .. N
  <2>1. p + q \in 0 .. N
    BY <1>0, <1>1, <1>2
  <2> QED
    BY <1>0, <1>1, <2>1, FromPlace
<1>4. input \in Seq(Symbol) /\ Len(input) = N - (p + q) /\ e \in 0 .. Len(input)
  <2>1. input \in Seq(Symbol) /\ Len(input) = Len(File) - (p + q)
    BY <1>3 DEF InputAt
  <2>2. Len(input) = N - (p + q)
    BY <1>1, <2>1
  <2>3. q \in Nat /\ e \in Nat /\ L \in Nat /\ q + e <= L /\ p \in Nat /\ N \in Nat /\ p + L <= N
    BY <1>0, <1>1, <1>2
  <2>4. e \in 0 .. N - (p + q)
    BY <2>3
  <2> QED
    BY <2>1, <2>2, <2>4
<1>5. ASSUME NEW i \in 1 .. e
      PROVE  input[i] = l[q + i]
  <2>1. i \in 1 .. Len(input) /\ q + i \in 1 .. L /\ (p + q) + i = p + (q + i)
    <3>1. q \in Nat /\ i \in Nat /\ 1 <= i /\ i <= e /\ q + e <= L /\ p \in Nat
      BY <1>0, <1>1, <1>2
    <3> QED
      BY <1>2, <1>4, <3>1
  <2>2. input[i] = File[(p + q) + i]
    BY <1>0, <1>3, <2>1 DEF InputAt
  <2> QED
    BY <1>0, <1>2, <2>1, <2>2
<1>6. LineEnds(n, e)
  <2>1. \A i \in 1 .. e - 1 : input[i] # Newline
    <3>1. \A i \in 1 .. e - 1 : l[q + i] # Newline
      BY DEF PartEnds
    <3>2. \A i \in 1 .. e - 1 : i \in 1 .. e
      BY <1>0
    <3> QED
      BY <1>5, <3>1, <3>2
  <2>2. e = n \/ input[e] = Newline
    BY <1>0, <1>5 DEF PartEnds
  <2> QED
    BY <1>0, <1>4, <2>1, <2>2 DEF LineEnds
<1>7. LineIs(Line(n), e)
  BY <1>0, <1>4, <1>6, LineRead
<1>8. PartOf(Line(n), l, q, e)
  BY <1>0, <1>5, <1>7 DEF LineIs, PartOf
<1>9. Behind(Line(n)) = From(p + q + e)
  BY <1>0, <1>1, <1>3, <1>4, <1>7, BehindLine
<1> QED
  BY <1>0, <1>1, <1>8, <1>9

\* The whole of a request of one line.
LEMMA RequestRead ==
    ASSUME File \in Seq(Symbol), NEW P, NEW k, NEW l, NextLines(P, k, l),
           input = From(P[k]), NEW n \in Nat, Len(l) <= n,
           \A i \in 1 .. Len(l) - 1 : l[i] # Newline, l[Len(l)] = Newline
    PROVE  Line(n) = l /\ Behind(Line(n)) = From(P[k + 1])
<1>1. l \in Seq(Symbol) /\ Len(l) \in 1 .. Len(l) - 0 /\ Len(l) \in Nat /\ P[k] \in Nat /\ P[k + 1] = P[k] + Len(l)
  BY DEF NextLines
<1>2. PICK p, L : p = P[k] /\ L = Len(l)
  OBVIOUS
<1>3. p + 0 = p /\ p + 0 + L = p + L /\ \A i \in Int : 0 + i = i
  BY <1>1, <1>2
<1>4. PartOf(Line(n), l, 0, L) /\ Behind(Line(n)) = From(p + 0 + L)
  <2>1. \A i \in 1 .. L - 1 : l[0 + i] # Newline
    BY <1>1, <1>2, <1>3
  <2>2. l[0 + L] = Newline /\ 0 \in 0 .. Len(l) /\ input = From(p + 0) /\ L \in 1 .. Len(l) - 0 /\ L <= n
    BY <1>1, <1>2, <1>3
  <2> QED
    <3>1. PartEnds(l, 0, L, n)
      BY <1>1, <1>2, <2>1, <2>2 DEF PartEnds
    <3> QED
      BY <1>2, <2>2, <3>1, PartRead
<1>5. Line(n) = l
  <2>1. \A i \in 1 .. L : Line(n)[i] = l[i]
    BY <1>3, <1>4 DEF PartOf
  <2> QED
    BY <1>1, <1>2, <1>4, <2>1, SeqEqual DEF PartOf
<1> QED
  BY <1>1, <1>2, <1>3, <1>4, <1>5

\* The reader is at the beginning of a request, or all have been read.
LEMMA NextRequest ==
    ASSUME WrittenOK, NEW P, ArePlaces(P, written, File), NEW k \in 0 .. Len(written),
           BetweenRequests(P, k)
    PROVE  /\ input = << >> => k = Len(written)
           /\ input # << >> => k \in 0 .. Len(written) - 1 /\ Head(input) = written[k + 1].type
<1>1. File \in Seq(Symbol) /\ P[k] \in 0 .. Len(File) /\ P[Len(written)] = Len(File) /\ Len(written) \in Nat
  BY DEF ArePlaces, WrittenOK
<1>2. InputAt(P[k])
  BY <1>1, FromPlace DEF BetweenRequests
<1>3. CASE k = Len(written)
  <2>1. Len(input) = 0 /\ input \in Seq(Symbol)
    BY <1>1, <1>2, <1>3 DEF InputAt
  <2>2. input = << >>
    BY <2>1, EmptySeq
  <2> QED
    BY <1>3, <2>2
<1>4. CASE k # Len(written)
  <2>1. k \in 0 .. Len(written) - 1
    BY <1>1, <1>4
  <2>2. PICK l : l = Lines(written[k + 1])
    OBVIOUS
  <2>3. NextLines(P, k, l) /\ l[1] = written[k + 1].type
    BY <2>1, <2>2, LinesInFile
  <2>4. 1 \in 1 .. Len(input) /\ 1 \in 1 .. Len(l)
    BY <1>2, <2>3 DEF NextLines, InputAt
  <2>5. input[1] = l[1]
    BY <1>2, <2>3, <2>4 DEF NextLines, InputAt
  <2>6. input # << >> /\ Head(input) = input[1]
    BY <1>2, <2>4 DEF InputAt
  <2> QED
    BY <2>1, <2>3, <2>5, <2>6
<1> QED
  BY <1>3, <1>4

\* The rest of a content that was too long.
LEMMA RestOfLong ==
    ASSUME WrittenOK, NEW P, ArePlaces(P, written, File), NEW k, EndedLong(k)
    PROVE  input # << >> /\ Head(input) = Newline
<1>1. PICK n : n = Len(written)
  OBVIOUS
<1>2. n \in Nat /\ n # 0
  BY <1>1 DEF WrittenOK, EndedLong, AllFit
<1>3. n - 1 \in 0 .. Len(written) - 1 /\ (n - 1) + 1 = n
  BY <1>1, <1>2
<1>4. PICK l : l = Lines(written[n])
  OBVIOUS
<1>5. WellFormed(written[n]) /\ NextLines(P, n - 1, l)
  BY <1>3, <1>4, LinesInFile
<1>6. l[Len(l)] = Newline
  BY <1>4, <1>5, LinesOfRequest
<1>7. PICK p, L, N : p = P[n - 1] /\ L = Len(l) /\ N = Len(File)
  OBVIOUS
<1>8. p \in Nat /\ L \in Nat /\ L >= 1 /\ N = p + L /\ N \in Nat /\ File[p + L] = l[L]
  <2>1. P[n] = N
    BY <1>1, <1>7 DEF ArePlaces
  <2>2. P[n] = p + L /\ p \in Nat /\ L \in Nat /\ L >= 1 /\ N \in Nat
    BY <1>3, <1>5, <1>7 DEF NextLines
  <2>3. L \in 1 .. L
    BY <2>2
  <2> QED
    BY <1>5, <1>7, <2>1, <2>2, <2>3 DEF NextLines
<1>9. File \in Seq(Symbol) /\ N - 1 \in 0 .. N
  BY <1>8 DEF ArePlaces
<1>10. InputAt(N - 1)
  BY <1>7, <1>9, FromPlace DEF EndedLong
<1>11. Len(input) = 1 /\ input \in Seq(Symbol) /\ \A i \in 1 .. Len(input) : input[i] = File[(N - 1) + i]
  <2>1. N - (N - 1) = 1
    BY <1>8
  <2> QED
    BY <1>7, <1>10, <2>1 DEF InputAt
<1>12. input[1] = File[N]
  <2>1. (N - 1) + 1 = N /\ 1 \in 1 .. Len(input)
    BY <1>8, <1>11
  <2> QED
    BY <1>11, <2>1
<1>13. input[1] = Newline
  BY <1>6, <1>7, <1>8, <1>12
<1> QED
  BY <1>11, <1>13

-----------------------------------------------------------------------------
(***************************************************************************)
(* The parts of a line.                                                    *)
(***************************************************************************)
LEMMA PartIs ==
    ASSUME NEW s \in Seq(Symbol), NEW m \in Int, m >= 1, NEW n \in Int, n <= Len(s)
    PROVE  /\ SubSeq(s, m, n) \in Seq(Symbol)
           /\ Len(SubSeq(s, m, n)) = IF m <= n THEN n - m + 1 ELSE 0
           /\ \A i \in 1 .. n - m + 1 : SubSeq(s, m, n)[i] = s[m + i - 1]
<1>1. Len(s) \in Nat
  BY LenProperties
<1>2. \A i \in m .. n : s[i] \in Symbol
  <2> TAKE i \in m .. n
  <2>1. i \in 1 .. Len(s)
    BY <1>1
  <2> QED
    BY <2>1, ElementOfSeq
<1> QED
  BY <1>2, SubSeqProperties

QuotedName(line) ==
    /\ line \in Seq(Symbol) /\ Len(line) \in Nat /\ Len(line) >= 5
    /\ line[1] # Quote /\ line[2] # Quote /\ line[4] # Quote
    /\ line[3] = Quote /\ line[5] = Quote

LEMMA NameFound ==
    ASSUME NEW line, QuotedName(line), NEW word, word = ReadQuoted(line, RequestLength, -1)
    PROVE  word.end = 4 /\ NameIn(line, word) = line[4]
<1> DEFINE quotes == QuotesIn(line, RequestLength)
<1>1. /\ quotes \in SUBSET Int /\ 2 \in quotes /\ 4 \in quotes
      /\ \A i \in quotes : i = 2 \/ i >= 4
  <2>1. RequestLength \in Nat /\ RequestLength >= 11
    BY ReaderConstants
  <2>2. \A i \in quotes : i \in 0 .. RequestLength - 1 /\ line[i + 1] = Quote
    BY DEF QuotesIn
  <2>3. \A i \in quotes : i # 0 /\ i # 1 /\ i # 3
    BY <2>2 DEF QuotedName
  <2>4. \A i \in quotes : i \in Nat
    BY <2>1, <2>2
  <2> QED
    BY <2>1, <2>3, <2>4 DEF QuotesIn, QuotedName
<1> HIDE DEF quotes
<1>2. FirstOf(quotes) = 2
  BY <1>1, FirstIndex
<1>3. FirstOf(quotes \ {2}) = 4
  <2>1. quotes \ {2} \in SUBSET Int /\ 4 \in quotes \ {2} /\ \A i \in quotes \ {2} : 4 <= i
    BY <1>1
  <2> QED
    BY <2>1, FirstIndex
<1>4. word = [start |-> 2, end |-> 4]
  BY <1>2, <1>3 DEF ReadQuoted, quotes
<1>5. word.start = 2 /\ word.end = 4
  BY <1>4
<1>6. NameIn(line, word) = SubSeq(line, 4, 4)[1]
  BY <1>5 DEF NameIn, Between
<1>7. SubSeq(line, 4, 4)[1] = line[4]
  <2>1. \A i \in 1 .. 4 - 4 + 1 : SubSeq(line, 4, 4)[i] = line[4 + i - 1]
    BY PartIs DEF QuotedName
  <2> QED
    BY <2>1
<1> QED
  BY <1>5, <1>6, <1>7

LEMMA SizeFound ==
    ASSUME NEW l, NEW r, AddLines(l, r)
    PROVE  SizeIn(l) = r.size
<1>1. PICK s : s = SubSeq(l, 3, Len(l))
  OBVIOUS
<1>2. Len(s) = 4 /\ s[1] = l[3] /\ s[2] = l[4]
  <2>1. Len(s) = 4 /\ \A i \in 1 .. 4 : s[i] = l[3 + i - 1]
    <3>1. l \in Seq(Symbol) /\ Len(l) = 6
      BY DEF AddLines
    <3>2. Len(s) = (IF 3 <= 6 THEN 6 - 3 + 1 ELSE 0) /\ \A i \in 1 .. 6 - 3 + 1 : s[i] = l[3 + i - 1]
      BY <1>1, <3>1, PartIs
    <3> QED
      BY <3>2
  <2> QED
    BY <2>1
<1> DEFINE I == {i \in 1 .. Len(s) : s[i] = Space}
<1>3. 2 \in I /\ \A i \in I : 2 <= i /\ (i <= 2 => i = 2)
  BY <1>2 DEF AddLines
<1>4. SelectInSeq(s, LAMBDA c : c = Space) = 2
  BY <1>3 DEF SelectInSeq, Min
<1>5. SizeIn(l) = l[2 + 3]
  BY <1>1, <1>4 DEF SizeIn
<1> QED
  BY <1>5 DEF AddLines

(***************************************************************************)
(* The line of an EDIT.  A quote in it behind the one that opens the       *)
(* content ends the content, if it is among the symbols that are searched. *)
(***************************************************************************)
OpensContent(line) ==
    /\ QuotedName(line) /\ Len(line) >= 7
    /\ line[6] # Quote /\ line[7] = Quote

TextIs(text, line, n) ==
    /\ text \in Seq(Symbol) /\ Len(text) = n
    /\ \A i \in 1 .. n : text[i] = line[7 + i]

EditRead(edit, line) ==
    /\ edit.name = line[4] /\ edit.start = 1
    /\ \/ /\ ~ edit.complete
          /\ \A i \in 8 .. Len(line) : i <= ContentLength + 5 => line[i] # Quote
          /\ TextIs(edit.text, line, Len(line) - 7)
       \/ /\ edit.complete
          /\ \E t \in 8 .. Len(line) :
              /\ t <= ContentLength + 5 /\ line[t] = Quote /\ \A i \in 8 .. t - 1 : line[i] # Quote
              /\ TextIs(edit.text, line, t - 8)

LEMMA TextFound ==
    ASSUME NEW line, OpensContent(line), NEW tmp, tmp = SubSeq(line, 6, Len(line)),
           NEW to \in 2 .. Len(line) - 5, NEW s, s = Between(tmp, 1, to)
    PROVE  TextIs(s, line, to - 2)
<1>1. PICK N : N = Len(line)
  OBVIOUS
<1>2. line \in Seq(Symbol) /\ N \in Nat /\ N >= 7 /\ to \in 2 .. N - 5
  BY <1>1 DEF OpensContent, QuotedName
<1>3. /\ tmp \in Seq(Symbol) /\ Len(tmp) = N - 5
      /\ \A i \in 1 .. N - 5 : tmp[i] = line[5 + i]
  <2>1. /\ tmp \in Seq(Symbol) /\ Len(tmp) = IF 6 <= N THEN N - 6 + 1 ELSE 0
        /\ \A i \in 1 .. N - 6 + 1 : tmp[i] = line[6 + i - 1]
    BY <1>1, <1>2, PartIs
  <2> QED
    BY <1>2, <2>1
<1>4. /\ s \in Seq(Symbol) /\ Len(s) = IF 3 <= to THEN to - 3 + 1 ELSE 0
      /\ \A i \in 1 .. to - 3 + 1 : s[i] = tmp[3 + i - 1]
  <2>1. PICK m : m = 3
    OBVIOUS
  <2>2. s = SubSeq(tmp, m, to) /\ m \in Int /\ m >= 1 /\ to \in Int /\ to <= Len(tmp)
    BY <1>2, <1>3, <2>1 DEF Between
  <2>3. /\ s \in Seq(Symbol) /\ Len(s) = IF m <= to THEN to - m + 1 ELSE 0
        /\ \A i \in 1 .. to - m + 1 : s[i] = tmp[m + i - 1]
    <3>1. tmp \in Seq(Symbol) /\ m \in Int /\ m >= 1 /\ to \in Int /\ to <= Len(tmp)
      BY <1>3, <2>2
    <3>2. /\ SubSeq(tmp, m, to) \in Seq(Symbol)
          /\ Len(SubSeq(tmp, m, to)) = IF m <= to THEN to - m + 1 ELSE 0
          /\ \A i \in 1 .. to - m + 1 : SubSeq(tmp, m, to)[i] = tmp[m + i - 1]
      BY ONLY <3>1, PartIs
    <3> QED
      BY <2>2, <3>2
  <2> QED
    BY <2>1, <2>3
<1>5. Len(s) = to - 2
  BY <1>2, <1>4
<1>6. ASSUME NEW i \in 1 .. to - 2
      PROVE  s[i] = line[7 + i]
  <2>1. i \in 1 .. to - 3 + 1 /\ 3 + i - 1 = 2 + i /\ 2 + i \in 1 .. N - 5 /\ 5 + (2 + i) = 7 + i
    BY <1>2
  <2> QED
    BY <1>3, <1>4, <2>1
<1> QED
  BY <1>4, <1>5, <1>6 DEF TextIs

LEMMA EditLine ==
    ASSUME NEW line, OpensContent(line), NEW edit, edit = EditIn(line)
    PROVE  EditRead(edit, line)
<1>1. PICK word, tmp, N :
        /\ word = ReadQuoted(line, RequestLength, -1)
        /\ tmp = SubSeq(line, 6, Len(line)) /\ N = Len(line)
  OBVIOUS
<1>2. word.end = 4 /\ NameIn(line, word) = line[4]
  BY <1>1, NameFound DEF OpensContent
<1>3. PICK text : text = ReadQuoted(tmp, ContentLength, -1)
  OBVIOUS
<1>4. PICK end : end = IF text.end = -1 THEN Len(tmp) ELSE text.end
  OBVIOUS
<1>4a. /\ edit.name = line[4] /\ edit.text = Between(tmp, text.start, end)
       /\ edit.start = text.start
       /\ edit.complete <=> text.end # -1
  <2>1. SubSeq(line, word.end + 2, Len(line)) = tmp
    BY <1>1, <1>2
  <2>2. PICK name, s, start, complete :
          /\ name = line[4] /\ s = Between(tmp, text.start, end)
          /\ start = text.start /\ complete = (text.end # -1)
    OBVIOUS
  <2>3. edit = [name |-> name, text |-> s, start |-> start, complete |-> complete]
    BY <1>1, <1>2, <1>3, <1>4, <2>1, <2>2 DEF EditIn
  <2>4. edit.name = name /\ edit.text = s /\ edit.start = start /\ edit.complete = complete
    BY <2>3
  <2> QED
    BY <2>2, <2>4
<1>5. line \in Seq(Symbol) /\ N \in Nat /\ N >= 7
  BY <1>1 DEF OpensContent, QuotedName
<1>6. Len(tmp) = N - 5 /\ \A i \in 1 .. N - 5 : tmp[i] = line[5 + i]
  <2>1. /\ Len(tmp) = IF 6 <= N THEN N - 6 + 1 ELSE 0
        /\ \A i \in 1 .. N - 6 + 1 : tmp[i] = line[6 + i - 1]
    BY <1>1, <1>5, PartIs
  <2> QED
    BY <1>5, <2>1
<1> DEFINE quotes == QuotesIn(tmp, ContentLength)
<1>7. \A i \in quotes : i \in 0 .. ContentLength - 1 /\ i < N - 5 /\ line[6 + i] = Quote
  <2> TAKE i \in quotes
  <2>1. i \in 0 .. ContentLength - 1 /\ i < N - 5 /\ tmp[i + 1] = Quote
    BY <1>6 DEF QuotesIn
  <2>2. i + 1 \in 1 .. N - 5 /\ 5 + (i + 1) = 6 + i
    BY <1>5, <2>1, ReaderConstants
  <2> QED
    BY <1>6, <2>1, <2>2
<1>8. \A i \in 0 .. ContentLength - 1 : i < N - 5 /\ line[6 + i] = Quote => i \in quotes
  <2> TAKE i \in 0 .. ContentLength - 1
  <2> HAVE i < N - 5 /\ line[6 + i] = Quote
  <2>1. i + 1 \in 1 .. N - 5 /\ 5 + (i + 1) = 6 + i
    BY <1>5, ReaderConstants
  <2>2. tmp[i + 1] = Quote
    BY <1>6, <2>1
  <2> QED
    BY <1>6, <2>2 DEF QuotesIn
<1> HIDE DEF quotes
<1>9. /\ quotes \in SUBSET Int /\ 1 \in quotes
      /\ \A i \in quotes : i >= 1
  <2>1. 1 \in quotes
    <3>1. 1 \in 0 .. ContentLength - 1 /\ 1 < N - 5
      BY <1>5, ReaderConstants
    <3> QED
      BY <1>8, <3>1 DEF OpensContent
  <2>2. \A i \in quotes : i \in Nat /\ i # 0
    BY <1>7, ReaderConstants DEF OpensContent
  <2> QED
    BY <2>1, <2>2
<1>10. FirstOf(quotes) = 1
  BY <1>9, FirstIndex
<1>11. text.start = 1 /\ text.end = FirstOf(quotes \ {1})
  BY <1>3, <1>10 DEF ReadQuoted, quotes
<1>12. CASE quotes \ {1} = {}
  <2>1. text.end = -1
    BY <1>11, <1>12, NoIndex
  <2>2. /\ edit.name = line[4] /\ edit.start = 1 /\ ~ edit.complete
        /\ edit.text = Between(tmp, 1, N - 5)
    BY <1>4, <1>4a, <1>6, <1>11, <2>1
  <2>3. TextIs(edit.text, line, (N - 5) - 2)
    <3>1. N - 5 \in 2 .. N - 5
      BY <1>5
    <3> QED
      BY <1>1, <2>2, <3>1, TextFound
  <2>4. (N - 5) - 2 = N - 7
    BY <1>5
  <2>5. ASSUME NEW i \in 8 .. N, i <= ContentLength + 5, line[i] = Quote
        PROVE  FALSE
    <3>1. i - 6 \in 0 .. ContentLength - 1 /\ i - 6 < N - 5 /\ 6 + (i - 6) = i /\ i - 6 # 1
      BY <1>5, <2>5, ReaderConstants
    <3>2. i - 6 \in quotes \ {1}
      BY <1>8, <2>5, <3>1
    <3> QED
      BY <1>12, <3>2
  <2> QED
    BY <1>1, <2>2, <2>3, <2>4, <2>5 DEF EditRead
<1>13. CASE quotes \ {1} # {}
  <2>1. PICK q \in quotes \ {1} : \A i \in quotes \ {1} : q <= i
    <3>1. quotes \ {1} \in SUBSET Nat
      BY <1>7, ReaderConstants
    <3> QED
      BY <1>13, <3>1, LeastNumber
  <2>2. q \in 2 .. ContentLength - 1 /\ q < N - 5 /\ line[6 + q] = Quote
    BY <1>7, <1>9, <2>1, ReaderConstants
  <2>3. text.end = q /\ q # -1
    <3>1. quotes \ {1} \in SUBSET Int
      BY <1>9
    <3> QED
      BY <1>11, <2>1, <2>2, <3>1, FirstIndex
  <2>4. /\ edit.name = line[4] /\ edit.start = 1 /\ edit.complete
        /\ edit.text = Between(tmp, 1, q)
    BY <1>4, <1>4a, <1>11, <2>3
  <2>5. PICK t : t = q + 6
    OBVIOUS
  <2>6. t \in 8 .. N /\ t <= ContentLength + 5 /\ line[t] = Quote /\ t - 8 = q - 2
    <3>1. 6 + q = t
      BY <2>2, <2>5
    <3> QED
      BY <1>5, <2>2, <2>5, <3>1, ReaderConstants
  <2>7. TextIs(edit.text, line, t - 8)
    <3>1. q \in 2 .. N - 5
      BY <1>5, <2>2
    <3> QED
      BY <1>1, <2>4, <2>6, <3>1, TextFound
  <2>8. ASSUME NEW i \in 8 .. t - 1, line[i] = Quote
        PROVE  FALSE
    <3>1. /\ i - 6 \in 0 .. ContentLength - 1 /\ i - 6 < N - 5 /\ 6 + (i - 6) = i
          /\ i - 6 # 1 /\ ~ (q <= i - 6)
      BY <1>5, <2>2, <2>5, ReaderConstants
    <3>2. i - 6 \in quotes \ {1}
      BY <1>8, <2>8, <3>1
    <3> QED
      BY <2>1, <3>1, <3>2
  <2> QED
    BY <1>1, <2>4, <2>6, <2>7, <2>8 DEF EditRead
<1> QED
  BY <1>12, <1>13

-----------------------------------------------------------------------------
(***************************************************************************)
(* The steps.                                                              *)
(***************************************************************************)
LEMMA FileKept ==
    ASSUME WrittenOK, UNCHANGED <<written, requestsNum>>
    PROVE  /\ WrittenOK' /\ File' = File
           /\ \A p : From(p)' = From(p)
           /\ \A P : ArePlaces(P, written, File) => ArePlaces(P, written, File)'
           /\ AllFit' <=> AllFit
<1>1. written' = written /\ requestsNum' = requestsNum
  OBVIOUS
<1>2. File' = File
  BY <1>1 DEF File
<1> QED
  BY <1>1, <1>2 DEF WrittenOK, From, ArePlaces, AllFit

LEMMA NextDelivered ==
    ASSUME WrittenOK, UNCHANGED <<written, requestsNum>>,
           NEW k \in 0 .. Len(written) - 1, IsCarriedOut(k), Deliver(written[k + 1])
    PROVE  IsCarriedOut(k + 1)' /\ phase' = "request"
<1>1. PICK S, n, r : S = AnyRequest /\ n = Len(written) /\ r = written[k + 1]
  OBVIOUS
<1>2. n \in Nat /\ k \in 0 .. n - 1 /\ k + 1 \in 1 .. n
  BY <1>1 DEF WrittenOK
<1>3. r \in S
  BY <1>1, <1>2, ElementOfSeq DEF WrittenOK
<1>4. delivered \in Seq(S) /\ Len(delivered) = k /\ delivered' = Append(delivered, r)
  BY <1>1 DEF IsCarriedOut, Deliver
<1>5. /\ delivered' \in Seq(S) /\ Len(delivered') = k + 1
      /\ \A i \in 1 .. k : delivered'[i] = delivered[i]
      /\ delivered'[k + 1] = r
  BY <1>3, <1>4, AppendProperties
<1>6. \A i \in 1 .. k + 1 : delivered'[i] = written[i]
  <2> TAKE i \in 1 .. k + 1
  <2>1. i = k + 1 \/ i \in 1 .. k
    BY <1>2
  <2> QED
    BY <1>1, <1>5, <2>1 DEF IsCarriedOut
<1>7. k + 1 \in 0 .. Len(written)
  BY <1>1, <1>2
<1>8. written' = written /\ phase' = "request"
  BY DEF Deliver
<1> QED
  BY <1>1, <1>5, <1>6, <1>7, <1>8 DEF IsCarriedOut

\* A request has been carried out and all of it has been read.
LEMMA RequestDone ==
    ASSUME WrittenOK, UNCHANGED <<written, requestsNum>>,
           NEW P, ArePlaces(P, written, File),
           NEW k \in 0 .. Len(written) - 1, IsCarriedOut(k), Deliver(written[k + 1]),
           input' = From(P[k + 1])
    PROVE  ReaderInv'
<1>1. WrittenOK' /\ ArePlaces(P, written, File)' /\ From(P[k + 1])' = From(P[k + 1])
  BY FileKept
<1>2. IsCarriedOut(k + 1)' /\ phase' = "request"
  BY NextDelivered
<1>3. BetweenRequests(P, k + 1)'
  BY <1>1, <1>2 DEF BetweenRequests
<1>4. ReaderIsAt(P, k + 1)'
  BY <1>1, <1>2, <1>3 DEF ReaderIsAt
<1> QED
  BY <1>1, <1>4 DEF ReaderInv

LEMMA WordRead ==
    ASSUME WrittenOK, NEW P, NEW k, ReaderIsAt(P, k),
           NEW type \in {"EDIT", "GET", "ADD_SERVER", "REMOVE_SERVER"}, Reads(type)
    PROVE  /\ BetweenRequests(P, k)
           /\ k \in 0 .. Len(written) - 1 /\ written[k + 1].type = type
<1>1. phase = "request" /\ input # << >> /\ Head(input) = type
  BY DEF Reads, MoreToRead
<1>2. ArePlaces(P, written, File) /\ k \in 0 .. Len(written)
  BY DEF ReaderIsAt, IsCarriedOut
<1>3. ~ EndedLong(k)
  BY <1>1, <1>2, RestOfLong, SymbolsDiffer
<1>4. ~ WithinContent(P, k) /\ ~ HasEnded(k)
  BY <1>1 DEF WithinContent, HasEnded
<1>5. BetweenRequests(P, k)
  BY <1>3, <1>4 DEF ReaderIsAt
<1> QED
  BY <1>1, <1>2, <1>5, NextRequest

\* The line of an ADD_SERVER, whether or not its size is accepted.
LEMMA AddRead ==
    ASSUME WrittenOK, NEW P, NEW k, ReaderIsAt(P, k), Reads("ADD_SERVER")
    PROVE  /\ BetweenRequests(P, k) /\ k \in 0 .. Len(written) - 1
           /\ written[k + 1].type = "ADD_SERVER"
           /\ ArePlaces(P, written, File) /\ IsCarriedOut(k)
           /\ \E l : /\ l = Lines(written[k + 1])
                     /\ NextLines(P, k, l) /\ AddLines(l, written[k + 1])
                     /\ Line(RequestLength) = l /\ Behind(Line(RequestLength)) = From(P[k + 1])
                     /\ SizeIn(l) = written[k + 1].size
<1>1. BetweenRequests(P, k) /\ k \in 0 .. Len(written) - 1 /\ written[k + 1].type = "ADD_SERVER"
  BY WordRead
<1>2. ArePlaces(P, written, File) /\ IsCarriedOut(k)
  BY DEF ReaderIsAt
<1>3. PICK r, l : r = written[k + 1] /\ l = Lines(r)
  OBVIOUS
<1>4. NextLines(P, k, l) /\ AddLines(l, r)
  BY <1>1, <1>2, <1>3, LinesInFile, LinesOfAdd
<1>5. Line(RequestLength) = l /\ Behind(Line(RequestLength)) = From(P[k + 1])
  <2>1. \A i \in 1 .. Len(l) - 1 : l[i] # Newline
    <3>1. Len(l) = 6 /\ \A i \in 1 .. 5 : i \in {1, 2, 3, 4, 5}
      BY <1>4 DEF AddLines
    <3> QED
      BY <1>4, <3>1, SymbolsDiffer DEF AddLines
  <2>2. RequestLength \in Nat /\ Len(l) <= RequestLength /\ l[Len(l)] = Newline
    BY <1>4, ReaderConstants DEF AddLines
  <2>3. File \in Seq(Symbol) /\ input = From(P[k])
    BY <1>1, <1>2 DEF ArePlaces, BetweenRequests
  <2> QED
    BY <1>4, <2>1, <2>2, <2>3, RequestRead
<1>6. SizeIn(l) = r.size
  BY <1>4, SizeFound
<1> QED
  BY <1>1, <1>2, <1>3, <1>4, <1>5, <1>6

LEMMA ReadAddKeeps ==
    ASSUME WrittenOK, NEW P, NEW k, ReaderIsAt(P, k), ReadAdd
    PROVE  ReaderInv'
<1>1. Reads("ADD_SERVER") /\ UNCHANGED <<written, requestsNum>>
  BY DEF ReadAdd
<1>2. /\ BetweenRequests(P, k) /\ k \in 0 .. Len(written) - 1
      /\ ArePlaces(P, written, File) /\ IsCarriedOut(k)
  BY <1>1, AddRead
<1>3. PICK r : r = written[k + 1]
  OBVIOUS
<1>4. PICK l : /\ l = Lines(r) /\ NextLines(P, k, l) /\ AddLines(l, r) /\ SizeIn(l) = r.size
               /\ Line(RequestLength) = l /\ Behind(Line(RequestLength)) = From(P[k + 1])
  BY <1>1, <1>3, AddRead
<1>5. Deliver(AddId(l[3], SizeIn(l))) /\ input' = From(P[k + 1])
  BY <1>4 DEF ReadAdd
<1>6. AddId(l[3], SizeIn(l)) = r
  BY <1>4 DEF AddLines
<1> QED
  BY <1>1, <1>2, <1>3, <1>4, <1>5, <1>6, RequestDone

\* A negative size ends the program with the server's request as the first that
\* has not been carried out.
LEMMA RefuseSizeKeeps ==
    ASSUME WrittenOK, NEW P, NEW k, ReaderIsAt(P, k), RefuseSize
    PROVE  ReaderInv'
<1>1. /\ Reads("ADD_SERVER") /\ SizeIn(Line(RequestLength)) \in NegativeSize
      /\ phase' = "cache size must be positive"
      /\ written' = written /\ requestsNum' = requestsNum /\ delivered' = delivered
  BY DEF RefuseSize
<1>2. /\ k \in 0 .. Len(written) - 1 /\ written[k + 1].type = "ADD_SERVER"
      /\ ArePlaces(P, written, File) /\ IsCarriedOut(k)
      /\ SizeIn(Line(RequestLength)) = written[k + 1].size
  BY <1>1, AddRead
<1>3. WrittenOK' /\ ArePlaces(P, written, File)'
  BY <1>1, <1>2, FileKept
<1>4. IsCarriedOut(k)'
  BY <1>1, <1>2 DEF IsCarriedOut
<1>5. HasNegativeSize(written[k + 1])
  BY <1>1, <1>2 DEF HasNegativeSize
<1>6. Len(delivered) = k /\ k < Len(written)
  BY <1>2 DEF IsCarriedOut, WrittenOK
<1>7. DiesWithReason'
  BY <1>1, <1>5, <1>6 DEF DiesWithReason, HasNegativeSize
<1>8. HasEnded(k)'
  BY <1>1, <1>7 DEF HasEnded
<1> QED
  BY <1>3, <1>4, <1>8 DEF ReaderIsAt, ReaderInv

LEMMA ReadRemoveKeeps ==
    ASSUME WrittenOK, NEW P, NEW k, ReaderIsAt(P, k), ReadRemove
    PROVE  ReaderInv'
<1>1. Reads("REMOVE_SERVER") /\ UNCHANGED <<written, requestsNum>>
  BY DEF ReadRemove
<1>2. BetweenRequests(P, k) /\ k \in 0 .. Len(written) - 1 /\ written[k + 1].type = "REMOVE_SERVER"
  BY <1>1, WordRead
<1>3. ArePlaces(P, written, File) /\ IsCarriedOut(k)
  BY DEF ReaderIsAt
<1>4. PICK r, l : r = written[k + 1] /\ l = Lines(r)
  OBVIOUS
<1>5. NextLines(P, k, l) /\ RemoveLines(l, r)
  BY <1>2, <1>3, <1>4, LinesInFile, LinesOfRemove
<1>6. Line(RequestLength) = l /\ Behind(Line(RequestLength)) = From(P[k + 1])
  <2>1. \A i \in 1 .. Len(l) - 1 : l[i] # Newline
    <3>1. Len(l) = 4 /\ \A i \in 1 .. 3 : i \in {1, 2, 3}
      BY <1>5 DEF RemoveLines
    <3> QED
      BY <1>5, <3>1, SymbolsDiffer DEF RemoveLines
  <2>2. RequestLength \in Nat /\ Len(l) <= RequestLength /\ l[Len(l)] = Newline
    BY <1>5, ReaderConstants DEF RemoveLines
  <2>3. File \in Seq(Symbol) /\ input = From(P[k])
    BY <1>2, <1>3 DEF ArePlaces, BetweenRequests
  <2> QED
    BY <1>5, <2>1, <2>2, <2>3, RequestRead
<1>7. Deliver(RemoveId(l[3])) /\ input' = From(P[k + 1])
  BY <1>6 DEF ReadRemove
<1>8. RemoveId(l[3]) = r
  BY <1>5 DEF RemoveLines
<1> QED
  BY <1>1, <1>2, <1>3, <1>4, <1>7, <1>8, RequestDone

LEMMA ReadGetKeeps ==
    ASSUME WrittenOK, NEW P, NEW k, ReaderIsAt(P, k), ReadGet
    PROVE  ReaderInv'
<1>1. Reads("GET") /\ UNCHANGED <<written, requestsNum>>
  BY DEF ReadGet
<1>2. BetweenRequests(P, k) /\ k \in 0 .. Len(written) - 1 /\ written[k + 1].type = "GET"
  BY <1>1, WordRead
<1>3. ArePlaces(P, written, File) /\ IsCarriedOut(k)
  BY DEF ReaderIsAt
<1>4. PICK r, l : r = written[k + 1] /\ l = Lines(r)
  OBVIOUS
<1>5. NextLines(P, k, l) /\ GetLines(l, r)
  BY <1>2, <1>3, <1>4, LinesInFile, LinesOfGet
<1>6. Line(RequestLength) = l /\ Behind(Line(RequestLength)) = From(P[k + 1])
  <2>1. \A i \in 1 .. Len(l) - 1 : l[i] # Newline
    <3>1. Len(l) = 6 /\ \A i \in 1 .. 5 : i \in {1, 2, 3, 4, 5}
      BY <1>5 DEF GetLines
    <3> QED
      BY <1>5, <3>1, SymbolsDiffer DEF GetLines
  <2>2. RequestLength \in Nat /\ Len(l) <= RequestLength /\ l[Len(l)] = Newline
    BY <1>5, ReaderConstants DEF GetLines
  <2>3. File \in Seq(Symbol) /\ input = From(P[k])
    BY <1>2, <1>3 DEF ArePlaces, BetweenRequests
  <2> QED
    BY <1>5, <2>1, <2>2, <2>3, RequestRead
<1>7. PICK word : word = ReadQuoted(l, RequestLength, -1)
  OBVIOUS
<1>8. Deliver(Get(NameIn(l, word))) /\ input' = From(P[k + 1])
  BY <1>6, <1>7 DEF ReadGet
<1>9. Get(NameIn(l, word)) = r
  <2>1. QuotedName(l)
    BY <1>5, SymbolsDiffer DEF GetLines, QuotedName
  <2> QED
    BY <1>5, <1>7, <2>1, NameFound DEF GetLines
<1> QED
  BY <1>1, <1>2, <1>3, <1>4, <1>8, <1>9, RequestDone

\* Some lines of a content have been read.
LEMMA ContentBegun ==
    ASSUME WrittenOK, UNCHANGED <<written, requestsNum, delivered>>,
           NEW P, ArePlaces(P, written, File),
           NEW k \in 0 .. Len(written) - 1, IsCarriedOut(k),
           NEW r, r = written[k + 1], r.type = "EDIT",
           phase' = "content", wordStart' # -1, content' = [name |-> r.name, text |-> content'.text],
           \/ ~ AllFit /\ input' = << >>
           \/ \E j \in 1 .. Len(r.content) :
                /\ r.content[j] = Newline /\ content'.text = SubSeq(r.content, 1, j)
                /\ input' = From(P[k] + 7 + j)
    PROVE  ReaderInv'
<1>1. /\ WrittenOK' /\ ArePlaces(P, written, File)' /\ (AllFit' <=> AllFit)
      /\ \A p : From(p)' = From(p)
  BY FileKept
<1>2. written' = written /\ delivered' = delivered
  OBVIOUS
<1>3. IsCarriedOut(k)'
  BY <1>2 DEF IsCarriedOut
<1>4. k < Len(written)
  BY DEF WrittenOK
<1>5. WithinContent(P, k)'
  <2>1. CASE ~ AllFit /\ input' = << >>
    BY <1>1, <1>2, <1>4, <2>1 DEF WithinContent
  <2>2. ASSUME NEW j \in 1 .. Len(r.content),
               r.content[j] = Newline, content'.text = SubSeq(r.content, 1, j),
               input' = From(P[k] + 7 + j)
        PROVE  WithinContent(P, k)'
    <3>1. From(P[k] + 7 + j)' = From(P[k] + 7 + j)
      BY <1>1
    <3>2. ReadUpTo(P, k, r.content, j)'
      BY <2>2, <3>1 DEF ReadUpTo
    <3>3. r.content = written'[k + 1].content /\ r = written'[k + 1]
      BY <1>2
    <3> QED
      BY <1>2, <1>4, <3>2, <3>3 DEF WithinContent
  <2> QED
    BY <2>1, <2>2
<1>6. ReaderIsAt(P, k)'
  BY <1>1, <1>3, <1>5 DEF ReaderIsAt
<1> QED
  BY <1>1, <1>6 DEF ReaderInv

\* A content that is too long for the search is the last of the file.
LEMMA LongIsLast ==
    ASSUME WrittenOK, NEW k \in 0 .. Len(written) - 1,
           written[k + 1].type = "EDIT", ~ Fits(written[k + 1].content)
    PROVE  k + 1 = Len(written) /\ ~ AllFit
<1>1. PICK n : n = Len(written)
  OBVIOUS
<1>2. n \in Nat /\ k + 1 \in 1 .. n /\ DOMAIN written = 1 .. n
  BY <1>1 DEF WrittenOK
<1>3. ~ (k + 1 < n)
  BY <1>1, <1>2 DEF WrittenOK
<1>4. ~ AllFit
  BY <1>2 DEF AllFit
<1> QED
  BY <1>1, <1>2, <1>3, <1>4

LEMMA NothingBehind ==
    ASSUME WrittenOK, NEW P, ArePlaces(P, written, File)
    PROVE  From(P[Len(written)]) = << >>
<1>1. File \in Seq(Symbol) /\ P[Len(written)] = Len(File)
  BY DEF ArePlaces
<1>2. Len(File) \in Nat
  BY <1>1, LenProperties
<1> QED
  BY <1>1, <1>2, SubSeqEmpty DEF From

EditAt(P, k, r, l) ==
    /\ BetweenRequests(P, k) /\ k \in 0 .. Len(written) - 1
    /\ r = written[k + 1] /\ r.type = "EDIT"
    /\ ArePlaces(P, written, File) /\ IsCarriedOut(k)
    /\ NextLines(P, k, l) /\ EditLines(l, r)

\* The line of the EDIT, up to its e-th symbol.
LEMMA EditOpens ==
    ASSUME NEW l, NEW r, EditLines(l, r), NEW line \in Seq(Symbol),
           NEW e \in 7 .. Len(l), Len(line) = e, \A i \in 1 .. e : line[i] = l[i]
    PROVE  OpensContent(line)
<1>1. Len(r.content) \in Nat /\ Len(l) = Len(r.content) + 9
  BY ReaderConstants DEF EditLines
<1>2. e \in Nat /\ e >= 7
  BY <1>1
<1>3. \A i \in {1, 2, 3, 4, 5, 6, 7} : line[i] = l[i]
  BY <1>2
<1>4. line[1] = "EDIT" /\ line[2] = Space /\ line[4] = r.name /\ line[6] = Space
  BY <1>3 DEF EditLines
<1>5. line[3] = Quote /\ line[5] = Quote /\ line[7] = Quote
  BY <1>3 DEF EditLines
<1>6. "EDIT" # Quote /\ Space # Quote /\ r.name # Quote
  BY SymbolsDiffer DEF EditLines
<1> QED
  BY <1>2, <1>4, <1>5, <1>6 DEF OpensContent, QuotedName

LEMMA ReadEditOfOneLine ==
    ASSUME WrittenOK, NEW P, NEW k, NEW r, NEW l, EditAt(P, k, r, l), ReadEdit,
           \A i \in 1 .. Len(r.content) : r.content[i] # Newline
    PROVE  ReaderInv'
<1>1. PICK c, L : c = r.content /\ L = Len(c)
  OBVIOUS
<1>2. /\ L \in Nat /\ L <= ContentLength /\ c \in Seq(Symbol)
      /\ l \in Seq(Symbol) /\ Len(l) = L + 9
  BY <1>1, ReaderConstants DEF EditAt, EditLines
<1>3. \A i \in 1 .. L : l[7 + i] = c[i] /\ c[i] # Quote /\ c[i] # Newline
  BY <1>1 DEF EditAt, EditLines
<1>4. l[L + 8] = Quote /\ l[L + 9] = Newline
  BY <1>1 DEF EditAt, EditLines
<1>5. Line(RequestLength) = l /\ Behind(Line(RequestLength)) = From(P[k + 1])
  <2>1. ASSUME NEW i \in 1 .. Len(l) - 1
        PROVE  l[i] # Newline
    <3>1. CASE i \in {1, 2, 3, 4, 5, 6, 7}
      BY <3>1, SymbolsDiffer DEF EditAt, EditLines
    <3>2. CASE i = L + 8
      BY <1>4, <3>2, SymbolsDiffer
    <3>3. CASE i \notin {1, 2, 3, 4, 5, 6, 7} /\ i # L + 8
      <4>1. i - 7 \in 1 .. L /\ 7 + (i - 7) = i
        BY <1>2, <3>3
      <4> QED
        BY <1>3, <4>1
    <3> QED
      BY <3>1, <3>2, <3>3
  <2>2. RequestLength \in Nat /\ Len(l) <= RequestLength /\ l[Len(l)] = Newline
    BY <1>2, <1>4, ReaderConstants
  <2>3. File \in Seq(Symbol) /\ input = From(P[k]) /\ NextLines(P, k, l)
    BY DEF EditAt, ArePlaces, BetweenRequests
  <2> QED
    BY <2>1, <2>2, <2>3, RequestRead
<1>6. PICK edit : edit = EditIn(l)
  OBVIOUS
<1>7. /\ input' = From(P[k + 1]) /\ UNCHANGED <<written, requestsNum>>
      /\ \/ edit.complete /\ Deliver(Edit(edit.name, edit.text))
         \/ /\ ~ edit.complete
            /\ phase' = "content"
            /\ content' = [name |-> edit.name, text |-> edit.text]
            /\ wordStart' = edit.start
            /\ UNCHANGED delivered
  BY <1>5, <1>6 DEF ReadEdit
<1>8. EditRead(edit, l)
  <2>1. OpensContent(l)
    BY <1>2, EditOpens DEF EditAt
  <2> QED
    BY <1>6, <2>1, EditLine
<1>9. edit.name = r.name /\ edit.start = 1
  BY <1>8 DEF EditRead, EditAt, EditLines
<1>10. CASE edit.complete
  <2>1. PICK t \in 8 .. Len(l) :
          /\ l[t] = Quote /\ \A i \in 8 .. t - 1 : l[i] # Quote
          /\ TextIs(edit.text, l, t - 8)
    BY <1>8, <1>10 DEF EditRead
  <2>2. t = L + 8
    <3>1. ~ (t < L + 8)
      <4>1. ASSUME t < L + 8
            PROVE  t - 7 \in 1 .. L /\ 7 + (t - 7) = t
        BY <1>2, <4>1
      <4> QED
        BY <1>3, <2>1, <4>1
    <3>2. ~ (t > L + 8)
      <4>1. ASSUME t > L + 8
            PROVE  L + 8 \in 8 .. t - 1
        BY <1>2, <4>1
      <4> QED
        BY <1>4, <2>1, <4>1
    <3> QED
      BY <1>2, <3>1, <3>2
  <2>3. edit.text = c
    <3>1. edit.text \in Seq(Symbol) /\ Len(edit.text) = L /\ \A i \in 1 .. L : edit.text[i] = l[7 + i]
      <4>1. t - 8 = L
        BY <1>2, <2>2
      <4> QED
        BY <2>1, <4>1 DEF TextIs
    <3>2. \A i \in 1 .. L : edit.text[i] = c[i]
      BY <1>3, <3>1
    <3> QED
      BY <1>1, <1>2, <3>1, <3>2, SeqEqual
  <2>4. Edit(edit.name, edit.text) = r
    BY <1>1, <1>9, <2>3 DEF EditAt, EditLines
  <2>5. Deliver(written[k + 1])
    BY <1>7, <1>10, <2>4 DEF EditAt
  <2> QED
    BY <1>7, <2>5, RequestDone DEF EditAt
<1>11. CASE ~ edit.complete
  <2>1. L + 8 > ContentLength + 5
    <3>1. L + 8 \in 8 .. Len(l)
      BY <1>2
    <3>2. L + 8 <= ContentLength + 5 => l[L + 8] # Quote
      BY <1>8, <1>11, <3>1 DEF EditRead
    <3> QED
      BY <1>2, <1>4, <3>2, ReaderConstants
  <2>2. ~ Fits(c)
    <3>1. LastLine(c) = L - 0 /\ ~ Contains(c, Newline)
      BY <1>1, NoNewlineIn DEF LastLine
    <3>2. ~ (L - 0 <= ContentLength - 3)
      BY <1>2, <2>1, ReaderConstants
    <3> QED
      BY <3>1, <3>2 DEF Fits
  <2>3. k + 1 = Len(written) /\ ~ AllFit
    BY <1>1, <2>2, LongIsLast DEF EditAt
  <2>4. input' = << >>
    BY <1>7, <2>3, NothingBehind DEF EditAt
  <2>5. /\ phase' = "content" /\ wordStart' # -1
       /\ content' = [name |-> r.name, text |-> content'.text]
        /\ UNCHANGED <<written, requestsNum, delivered>>
    BY <1>7, <1>9, <1>11
  <2> QED
    BY <2>3, <2>4, <2>5, ContentBegun DEF EditAt
<1> QED
  BY <1>10, <1>11

\* The newline of a content that comes next.
LEMMA NextNewline ==
    ASSUME NEW c, Len(c) \in Nat, NEW j \in 0 .. Len(c), NEW i \in j + 1 .. Len(c), c[i] = Newline
    PROVE  \E m \in j + 1 .. Len(c) : c[m] = Newline /\ \A h \in j + 1 .. m - 1 : c[h] # Newline
<1> DEFINE I == {h \in j + 1 .. Len(c) : c[h] = Newline}
<1>1. PICK m \in I : \A h \in I : m <= h
  <2>1. i \in I /\ I \in SUBSET Nat
    OBVIOUS
  <2> HIDE DEF I
  <2> QED
    BY <2>1, LeastNumber
<1>2. \A h \in j + 1 .. m - 1 : h \in j + 1 .. Len(c) /\ ~ (m <= h)
  BY <1>1
<1> QED
  BY <1>1, <1>2

LEMMA ReadEditOfLines ==
    ASSUME WrittenOK, NEW P, NEW k, NEW r, NEW l, EditAt(P, k, r, l), ReadEdit,
           NEW i \in 1 .. Len(r.content), r.content[i] = Newline
    PROVE  ReaderInv'
<1>1. PICK c, L : c = r.content /\ L = Len(c)
  OBVIOUS
<1>2. /\ L \in Nat /\ L <= ContentLength /\ c \in Seq(Symbol)
      /\ l \in Seq(Symbol) /\ Len(l) = L + 9
  BY <1>1, ReaderConstants DEF EditAt, EditLines
<1>3. \A h \in 1 .. L : l[7 + h] = c[h] /\ c[h] # Quote
  BY <1>1 DEF EditAt, EditLines
<1>4. PICK m \in 1 .. L : c[m] = Newline /\ \A h \in 1 .. m - 1 : c[h] # Newline
  <2>1. 0 \in 0 .. Len(c) /\ 0 + 1 = 1 /\ i \in 1 .. Len(c) /\ c[i] = Newline
    BY <1>1, <1>2
  <2>2. \E m \in 0 + 1 .. Len(c) : c[m] = Newline /\ \A h \in 0 + 1 .. m - 1 : c[h] # Newline
    BY <1>1, <1>2, <2>1, NextNewline
  <2> QED
    BY <1>1, <2>1, <2>2
<1>5. PICK e, p : e = 7 + m /\ p = P[k]
  OBVIOUS
<1>6. e \in 7 .. Len(l) /\ e \in 1 .. Len(l) - 0 /\ e <= RequestLength /\ e = m + 7
  BY <1>2, <1>4, <1>5, ReaderConstants
<1>7. PICK line : line = Line(RequestLength)
  OBVIOUS
<1>8. p \in Nat /\ p + 0 = p /\ p + 0 + e = p + e /\ \A h \in Int : 0 + h = h
  BY <1>2, <1>5 DEF EditAt, NextLines
<1>9. PartOf(line, l, 0, e) /\ Behind(line) = From(p + 0 + e)
  <2>1. ASSUME NEW h \in 1 .. e - 1
        PROVE  l[0 + h] # Newline
    <3>1. 0 + h = h
      OBVIOUS
    <3>2. l[h] # Newline
      <4>1. CASE h \in {1, 2, 3, 4, 5, 6, 7}
        BY <4>1, SymbolsDiffer DEF EditAt, EditLines
      <4>2. CASE h \notin {1, 2, 3, 4, 5, 6, 7}
        <5>1. h - 7 \in 1 .. m - 1 /\ h - 7 \in 1 .. L /\ 7 + (h - 7) = h
          BY <1>2, <1>4, <1>6, <4>2
        <5> QED
          BY <1>3, <1>4, <5>1
      <4> QED
        BY <4>1, <4>2
    <3> QED
      BY <3>1, <3>2
  <2>2. l[0 + e] = Newline
    <3>1. 0 + e = 7 + m
      BY <1>5, <1>6
    <3> QED
      BY <1>3, <1>4, <3>1
  <2>3. File \in Seq(Symbol) /\ NextLines(P, k, l) /\ input = From(p + 0) /\ 0 \in 0 .. Len(l) /\ RequestLength \in Nat
    BY <1>2, <1>5, <1>8, ReaderConstants DEF EditAt, ArePlaces, BetweenRequests
  <2> QED
    <3>1. PartEnds(l, 0, e, RequestLength)
      BY <1>6, <2>1, <2>2, <2>3 DEF PartEnds
    <3> QED
      BY <1>5, <1>7, <2>3, <3>1, PartRead
<1>10. line \in Seq(Symbol) /\ Len(line) = e /\ \A h \in 1 .. e : line[h] = l[h]
  BY <1>8, <1>9 DEF PartOf
<1>11. OpensContent(line) /\ line[4] = r.name
  <2>1. OpensContent(line)
    BY <1>6, <1>10, EditOpens DEF EditAt
  <2>2. 4 \in 1 .. e
    BY <1>6
  <2>3. line[4] = l[4]
    BY <1>10, <2>2
  <2> QED
    BY <2>1, <2>3 DEF EditAt, EditLines
<1>12. PICK edit : edit = EditIn(line)
  OBVIOUS
<1>13. EditRead(edit, line)
  BY <1>11, <1>12, EditLine
<1>14. ASSUME NEW t \in 8 .. Len(line), line[t] = Quote
       PROVE  FALSE
  <2>1. t - 7 \in 1 .. L /\ 7 + (t - 7) = t /\ t \in 1 .. e
    BY <1>2, <1>4, <1>6, <1>10
  <2> QED
    BY <1>3, <1>10, <1>14, <2>1
<1>15. /\ edit.name = r.name /\ edit.start = 1 /\ ~ edit.complete
       /\ TextIs(edit.text, line, Len(line) - 7)
  BY <1>11, <1>13, <1>14 DEF EditRead
<1>16. edit.text = SubSeq(c, 1, m)
  <2>1. PICK a, b : a = edit.text /\ b = SubSeq(c, 1, m)
    OBVIOUS
  <2>2. b \in Seq(Symbol) /\ Len(b) = m /\ \A h \in 1 .. m : b[h] = c[h]
    <3>1. m \in Int /\ m <= Len(c) /\ 1 <= m
      BY <1>1, <1>2, <1>4
    <3>2. /\ b \in Seq(Symbol) /\ Len(b) = IF 1 <= m THEN m - 1 + 1 ELSE 0
          /\ \A h \in 1 .. m - 1 + 1 : b[h] = c[1 + h - 1]
      BY <1>2, <2>1, <3>1, PartIs
    <3>3. m - 1 + 1 = m /\ \A h \in 1 .. m : 1 + h - 1 = h
      BY <3>1
    <3> QED
      BY <3>1, <3>2, <3>3
  <2>3. a \in Seq(Symbol) /\ Len(a) = m /\ \A h \in 1 .. m : a[h] = line[7 + h]
    <3>1. Len(line) - 7 = m
      BY <1>4, <1>6, <1>10
    <3> QED
      BY <1>15, <2>1, <3>1 DEF TextIs
  <2>4. ASSUME NEW h \in 1 .. m
        PROVE  a[h] = b[h]
    <3>1. 7 + h \in 1 .. e /\ h \in 1 .. L
      BY <1>2, <1>4, <1>6
    <3> QED
      BY <1>3, <1>10, <2>2, <2>3, <3>1
  <2> QED
    BY <2>1, <2>2, <2>3, <2>4, SeqEqual
<1>17. /\ input' = From(p + e)
       /\ phase' = "content" /\ wordStart' # -1
       /\ content' = [name |-> r.name, text |-> content'.text]
       /\ content'.text = SubSeq(c, 1, m)
       /\ UNCHANGED <<written, requestsNum, delivered>>
  <2>1. /\ input' = Behind(line) /\ UNCHANGED <<written, requestsNum>>
        /\ \/ edit.complete
           \/ /\ phase' = "content"
              /\ content' = [name |-> edit.name, text |-> edit.text]
              /\ wordStart' = edit.start
              /\ UNCHANGED delivered
    BY <1>7, <1>12 DEF ReadEdit
  <2> QED
    BY <1>8, <1>9, <1>15, <1>16, <2>1
<1>18. p + e = P[k] + 7 + m
  <2>1. m \in Nat
    BY <1>2, <1>4
  <2>2. p + (7 + m) = p + 7 + m
    BY <1>8, <2>1
  <2> QED
    BY <1>5, <2>2
<1> QED
  BY <1>1, <1>4, <1>17, <1>18, ContentBegun DEF EditAt

LEMMA ReadEditKeeps ==
    ASSUME WrittenOK, NEW P, NEW k, ReaderIsAt(P, k), ReadEdit
    PROVE  ReaderInv'
<1>1. BetweenRequests(P, k) /\ k \in 0 .. Len(written) - 1 /\ written[k + 1].type = "EDIT"
  BY WordRead DEF ReadEdit
<1>2. PICK r, l : r = written[k + 1] /\ l = Lines(r)
  OBVIOUS
<1>3. EditAt(P, k, r, l)
  BY <1>1, <1>2, LinesInFile, LinesOfEdit DEF EditAt, ReaderIsAt
<1> QED
  BY <1>3, ReadEditOfOneLine, ReadEditOfLines

\* Within a content no opening quote is looked for.
LEMMA NextQuote ==
    ASSUME NEW line, NEW start, start # -1, NEW word, word = ReadQuoted(line, ContentLength, start)
    PROVE  word.start = start /\ word.end = FirstOf(QuotesIn(line, ContentLength))
BY DEF ReadQuoted

ContentAt(P, k, r, l, j) ==
    /\ phase = "content" /\ wordStart # -1 /\ k \in 0 .. Len(written) - 1
    /\ r = written[k + 1] /\ r.type = "EDIT"
    /\ content = [name |-> r.name, text |-> content.text]
    /\ ReadUpTo(P, k, r.content, j)
    /\ ArePlaces(P, written, File) /\ IsCarriedOut(k)
    /\ NextLines(P, k, l) /\ EditLines(l, r)

\* What has been read of a content, and a line of it.
LEMMA LineAppended ==
    ASSUME NEW c \in Seq(Symbol), NEW j \in 1 .. Len(c), NEW m \in j .. Len(c),
           NEW s \in Seq(Symbol), Len(s) = m - j, \A i \in 1 .. m - j : s[i] = c[j + i]
    PROVE  SubSeq(c, 1, j) \o s = SubSeq(c, 1, m)
<1>1. Len(c) \in Nat
  BY LenProperties
<1>2. PICK a, b, d : a = SubSeq(c, 1, j) /\ b = SubSeq(c, 1, m) /\ d = a \o s
  OBVIOUS
<1>3. \A n \in 1 .. Len(c) :
        /\ SubSeq(c, 1, n) \in Seq(Symbol) /\ Len(SubSeq(c, 1, n)) = n
        /\ \A i \in 1 .. n : SubSeq(c, 1, n)[i] = c[i]
  <2> TAKE n \in 1 .. Len(c)
  <2>1. PICK t : t = SubSeq(c, 1, n)
    OBVIOUS
  <2>2. n \in Int /\ n <= Len(c) /\ 1 <= n /\ n - 1 + 1 = n /\ \A i \in 1 .. n : 1 + i - 1 = i
    BY <1>1
  <2>3. /\ t \in Seq(Symbol) /\ Len(t) = IF 1 <= n THEN n - 1 + 1 ELSE 0
        /\ \A i \in 1 .. n - 1 + 1 : t[i] = c[1 + i - 1]
    BY <2>1, <2>2, PartIs
  <2> QED
    BY <2>1, <2>2, <2>3
<1>4. a \in Seq(Symbol) /\ Len(a) = j /\ \A i \in 1 .. j : a[i] = c[i]
  BY <1>1, <1>2, <1>3
<1>5. b \in Seq(Symbol) /\ Len(b) = m /\ \A i \in 1 .. m : b[i] = c[i]
  <2>1. m \in 1 .. Len(c)
    BY <1>1
  <2> QED
    BY <1>2, <1>3, <2>1
<1>6. /\ d \in Seq(Symbol) /\ Len(d) = j + (m - j)
      /\ \A i \in 1 .. j + (m - j) : d[i] = IF i <= j THEN a[i] ELSE s[i - j]
  BY <1>2, <1>4, ConcatProperties
<1>7. j + (m - j) = m
  BY <1>1
<1>8. ASSUME NEW i \in 1 .. m
      PROVE  d[i] = b[i]
  <2>1. CASE i <= j
    <3>1. i \in 1 .. j /\ i \in 1 .. j + (m - j)
      BY <1>1, <1>7, <2>1
    <3>2. d[i] = a[i]
      BY <1>6, <2>1, <3>1
    <3> QED
      BY <1>4, <1>5, <3>1, <3>2
  <2>2. CASE ~ (i <= j)
    <3>1. i - j \in 1 .. m - j /\ j + (i - j) = i
      BY <1>1, <2>2
    <3> QED
      BY <1>5, <1>6, <1>7, <2>2, <3>1
  <2> QED
    BY <2>1, <2>2
<1> QED
  BY <1>2, <1>5, <1>6, <1>7, <1>8, SeqEqual

\* A line of the content that is not the last one.
LEMMA ContinueWithin ==
    ASSUME WrittenOK, NEW P, NEW k, NEW r, NEW l, NEW j, ContentAt(P, k, r, l, j), ContinueContent,
           NEW i \in j + 1 .. Len(r.content), r.content[i] = Newline
    PROVE  ReaderInv'
<1>1. PICK c, L, p : c = r.content /\ L = Len(c) /\ p = P[k]
  OBVIOUS
<1>2. /\ L \in Nat /\ L <= ContentLength /\ c \in Seq(Symbol)
      /\ l \in Seq(Symbol) /\ Len(l) = L + 9 /\ p \in Nat
  <2>1. p \in Nat
    BY <1>1 DEF ContentAt, NextLines
  <2>2. L \in 0 .. ContentLength /\ c \in Seq(Symbol) /\ l \in Seq(Symbol) /\ Len(l) = L + 9
    BY <1>1 DEF ContentAt, EditLines
  <2> QED
    BY <2>1, <2>2, ReaderConstants
<1>3. \A h \in 1 .. L : l[7 + h] = c[h] /\ c[h] # Quote
  BY <1>1 DEF ContentAt, EditLines
<1>4. j \in 1 .. L /\ content.text = SubSeq(c, 1, j) /\ input = From(p + 7 + j)
  BY <1>1 DEF ContentAt, ReadUpTo
<1>5. PICK m \in j + 1 .. L : c[m] = Newline /\ \A h \in j + 1 .. m - 1 : c[h] # Newline
  <2>1. j \in 0 .. L
    BY <1>2, <1>4
  <2> QED
    BY <1>1, <1>2, <2>1, NextNewline
<1>6. PICK q, e, line : q = 7 + j /\ e = m - j /\ line = Line(ContentLength)
  OBVIOUS
<1>7. /\ q \in 0 .. Len(l) /\ e \in 1 .. Len(l) - q /\ e <= ContentLength /\ ContentLength \in Nat
      /\ p + q = p + 7 + j /\ p + q + e = p + 7 + m /\ m \in 1 .. L /\ m \in j .. L
  BY <1>2, <1>4, <1>5, <1>6, ReaderConstants
<1>8. ASSUME NEW h \in 1 .. e
      PROVE  l[q + h] = c[j + h] /\ j + h \in 1 .. L /\ (h <= e - 1 => j + h \in j + 1 .. m - 1)
  <2>0. j \in Nat /\ m \in Nat /\ m <= L /\ h \in Nat /\ h >= 1 /\ h <= m - j
    BY <1>2, <1>4, <1>5, <1>6
  <2>1. j + h \in 1 .. L /\ 7 + (j + h) = q + h /\ (h <= e - 1 => j + h \in j + 1 .. m - 1)
    BY <1>2, <1>6, <2>0
  <2> QED
    BY <1>3, <2>1
<1>9. PartOf(line, l, q, e) /\ Behind(line) = From(p + q + e)
  <2>1. ASSUME NEW h \in 1 .. e - 1
        PROVE  l[q + h] # Newline
    <3>1. h \in 1 .. e /\ h <= e - 1
      BY <1>7
    <3> QED
      BY <1>5, <1>8, <3>1
  <2>2. l[q + e] = Newline
    <3>1. e \in 1 .. e /\ j + e = m
      BY <1>2, <1>4, <1>5, <1>6, <1>7
    <3>2. l[q + e] = c[j + e]
      BY <1>8, <3>1
    <3> QED
      BY <1>5, <3>1, <3>2
  <2>3. File \in Seq(Symbol) /\ NextLines(P, k, l)
    BY DEF ContentAt, ArePlaces
  <2>4. input = From(P[k] + q)
    BY <1>1, <1>4, <1>7
  <2>5. PartOf(Line(ContentLength), l, q, e) /\ Behind(Line(ContentLength)) = From(P[k] + q + e)
    <3>1. PartEnds(l, q, e, ContentLength)
      BY <1>7, <2>1, <2>2 DEF PartEnds
    <3> QED
      BY <2>3, <2>4, <3>1, PartRead
  <2> QED
    BY <1>1, <1>6, <2>5
<1>10. line \in Seq(Symbol) /\ Len(line) = m - j /\ \A h \in 1 .. m - j : line[h] = c[j + h]
  BY <1>6, <1>8, <1>9 DEF PartOf
<1>11. PICK word : word = ReadQuoted(line, ContentLength, wordStart)
  OBVIOUS
<1>12. QuotesIn(line, ContentLength) = {}
  <2>1. ASSUME NEW h \in QuotesIn(line, ContentLength)
        PROVE  FALSE
    <3>1. h \in 0 .. ContentLength - 1 /\ h < e /\ line[h + 1] = Quote
      BY <1>6, <1>10 DEF QuotesIn
    <3>2. h + 1 \in 1 .. e
      BY <1>7, <3>1
    <3> QED
      BY <1>3, <1>6, <1>8, <1>10, <3>1, <3>2
  <2> QED
    BY <2>1
<1>13. word.end = -1 /\ word.start = wordStart
  <2>1. wordStart # -1
    BY DEF ContentAt
  <2>2. word.start = wordStart /\ word.end = FirstOf(QuotesIn(line, ContentLength))
    BY <1>11, <2>1, NextQuote
  <2> QED
    BY <1>12, <2>2, NoIndex
<1>14. /\ input' = Behind(line) /\ UNCHANGED <<written, requestsNum>>
       /\ content' = [content EXCEPT !.text = content.text \o line]
       /\ wordStart' = word.start /\ UNCHANGED <<phase, delivered>>
  BY <1>6, <1>11, <1>13 DEF ContinueContent
<1>15. content' = [name |-> r.name, text |-> content.text \o line]
  <2>1. PICK t, u, name : t = content.text /\ u = content.text \o line /\ name = r.name
    OBVIOUS
  <2>2. content = [name |-> name, text |-> t]
    BY <2>1 DEF ContentAt
  <2>3. content' = [content EXCEPT !.text = u]
    BY <1>14, <2>1
  <2>4. content' = [name |-> name, text |-> u]
    BY <2>2, <2>3
  <2> QED
    BY <2>1, <2>4
<1>16. content'.text = SubSeq(c, 1, m) /\ content' = [name |-> r.name, text |-> content'.text]
  <2>1. content.text \o line = SubSeq(c, 1, m)
    <3>1. j \in 1 .. Len(c) /\ m \in j .. Len(c)
      BY <1>1, <1>4, <1>7
    <3>2. SubSeq(c, 1, j) \o line = SubSeq(c, 1, m)
      BY <1>2, <1>10, <3>1, LineAppended
    <3> QED
      BY <1>4, <3>2
  <2> QED
    BY <1>15, <2>1
<1>17. phase' = "content" /\ wordStart' # -1 /\ UNCHANGED <<written, requestsNum, delivered>>
  BY <1>13, <1>14 DEF ContentAt
<1>18. input' = From(P[k] + 7 + m)
  BY <1>1, <1>7, <1>9, <1>14
<1> QED
  BY <1>1, <1>5, <1>7, <1>16, <1>17, <1>18, ContentBegun DEF ContentAt

\* A line that is the last one of the content, as far as its quote or its newline.
IsLastLine(line, l, r, j, e) ==
    /\ EditLines(l, r) /\ j \in 1 .. Len(r.content)
    /\ e = Len(r.content) - j + 1 \/ e = Len(r.content) - j + 2
    /\ PartOf(line, l, 7 + j, e)

EndsContent(line, end, c, j) == end # -1 /\ SubSeq(c, 1, j) \o SubSeq(line, 1, end) = c

LEMMA LastLineRead ==
    ASSUME NEW l, NEW r, NEW j, NEW e, NEW line, IsLastLine(line, l, r, j, e),
           NEW start, start # -1, NEW word, word = ReadQuoted(line, ContentLength, start)
    PROVE  EndsContent(line, word.end, r.content, j)
<1>1. PICK c, L, q : c = r.content /\ L = Len(c) /\ q = L - j
  OBVIOUS
<1>2. /\ L \in Nat /\ L <= ContentLength /\ c \in Seq(Symbol) /\ j \in 1 .. L /\ q \in Nat
      /\ q <= ContentLength - 1 /\ e \in {q + 1, q + 2} /\ e \in Nat
  <2>1. L \in Nat /\ L <= ContentLength /\ c \in Seq(Symbol) /\ j \in 1 .. L
    BY <1>1, ReaderConstants DEF EditLines, IsLastLine
  <2>2. q \in Nat /\ q <= ContentLength - 1
    BY <1>1, <2>1, ReaderConstants
  <2>3. e = q + 1 \/ e = q + 2
    BY <1>1 DEF IsLastLine
  <2> QED
    BY <2>1, <2>2, <2>3
<1>3. line \in Seq(Symbol) /\ Len(line) = e /\ \A h \in 1 .. e : line[h] = l[7 + j + h]
  BY DEF PartOf, IsLastLine
<1>4. ASSUME NEW h \in 1 .. q
      PROVE  line[h] = c[j + h] /\ line[h] # Quote
  <2>1. h \in 1 .. e /\ j + h \in 1 .. L /\ 7 + (j + h) = 7 + j + h
    BY <1>1, <1>2
  <2>2. l[7 + (j + h)] = c[j + h] /\ c[j + h] # Quote
    BY <1>1, <2>1 DEF EditLines, IsLastLine
  <2> QED
    BY <1>3, <2>1, <2>2
<1>5. line[q + 1] = Quote
  <2>1. q + 1 \in 1 .. e /\ 7 + j + (q + 1) = L + 8
    <3>1. j \in Nat /\ j + q = L
      BY <1>1, <1>2
    <3>2. 7 + j + (q + 1) = L + 8
      BY <1>2, <3>1
    <3> QED
      BY <1>2, <3>2
  <2>2. l[L + 8] = Quote
    BY <1>1 DEF EditLines, IsLastLine
  <2> QED
    BY <1>3, <2>1, <2>2
<1> DEFINE quotes == QuotesIn(line, ContentLength)
<1>6. q \in quotes
  <2>1. q \in 0 .. ContentLength - 1 /\ q < e
    BY <1>2, ReaderConstants
  <2> QED
    BY <1>3, <1>5, <2>1 DEF QuotesIn
<1>7. ASSUME NEW h \in quotes
      PROVE  h \in Int /\ q <= h
  <2>1. h \in 0 .. ContentLength - 1 /\ line[h + 1] = Quote
    BY DEF QuotesIn
  <2>2. h \in Nat /\ (~ (q <= h) => h + 1 \in 1 .. q)
    BY <1>2, <2>1, ReaderConstants
  <2> QED
    BY <1>4, <2>1, <2>2
<1>8. FirstOf(quotes) = q
  <2> HIDE DEF quotes
  <2>1. quotes \in SUBSET Int /\ \A h \in quotes : q <= h
    BY <1>7
  <2> QED
    BY <1>6, <2>1, FirstIndex
<1>9. word.end = q /\ q # -1
  BY <1>2, <1>8, NextQuote
<1>10. PICK s : s = SubSeq(line, 1, q)
  OBVIOUS
<1>11. s \in Seq(Symbol) /\ Len(s) = q /\ \A h \in 1 .. q : s[h] = c[j + h]
  <2>1. q \in Int /\ q <= Len(line)
    BY <1>2, <1>3
  <2>2. /\ s \in Seq(Symbol) /\ Len(s) = IF 1 <= q THEN q - 1 + 1 ELSE 0
        /\ \A h \in 1 .. q - 1 + 1 : s[h] = line[1 + h - 1]
    BY <1>3, <1>10, <2>1, PartIs
  <2>3. (IF 1 <= q THEN q - 1 + 1 ELSE 0) = q /\ q - 1 + 1 = q /\ \A h \in 1 .. q : 1 + h - 1 = h
    BY <1>2
  <2> QED
    BY <1>4, <2>2, <2>3
<1>12. SubSeq(c, 1, j) \o s = SubSeq(c, 1, L)
  <2>1. L \in j .. Len(c) /\ j \in 1 .. Len(c)
    BY <1>1, <1>2
  <2> QED
    BY <1>1, <1>2, <1>11, <2>1, LineAppended
<1>13. SubSeq(c, 1, L) = c
  BY <1>1, <1>2, SubSeqFull
<1> QED
  BY <1>1, <1>9, <1>10, <1>12, <1>13 DEF EndsContent

\* A content that is too long has been carried out, and a part of it not read.
LEMMA LongDone ==
    ASSUME WrittenOK, UNCHANGED <<written, requestsNum>>,
           NEW P, ArePlaces(P, written, File),
           NEW k \in 0 .. Len(written) - 1, IsCarriedOut(k), Deliver(written[k + 1]),
           k + 1 = Len(written), ~ AllFit, input' = From(Len(File) - 1)
    PROVE  ReaderInv'
<1>1. /\ WrittenOK' /\ ArePlaces(P, written, File)' /\ (AllFit' <=> AllFit) /\ File' = File
      /\ \A p : From(p)' = From(p)
  BY FileKept
<1>2. IsCarriedOut(k + 1)' /\ phase' = "request" /\ written' = written
  BY NextDelivered
<1>3. input' = From(Len(File) - 1)'
  BY <1>1
<1>4. EndedLong(k + 1)'
  BY <1>1, <1>2, <1>3 DEF EndedLong
<1>5. ReaderIsAt(P, k + 1)'
  BY <1>1, <1>2, <1>4 DEF ReaderIsAt
<1> QED
  BY <1>1, <1>5 DEF ReaderInv

LEMMA ContinueLast ==
    ASSUME WrittenOK, NEW P, NEW k, NEW r, NEW l, NEW j, ContentAt(P, k, r, l, j), ContinueContent,
           \A i \in j + 1 .. Len(r.content) : r.content[i] # Newline
    PROVE  ReaderInv'
<1>1. PICK c, L, p : c = r.content /\ L = Len(c) /\ p = P[k]
  OBVIOUS
<1>2. /\ L \in Nat /\ L <= ContentLength /\ c \in Seq(Symbol)
      /\ l \in Seq(Symbol) /\ Len(l) = L + 9 /\ p \in Nat
  <2>1. p \in Nat
    BY <1>1 DEF ContentAt, NextLines
  <2>2. L \in 0 .. ContentLength /\ c \in Seq(Symbol) /\ l \in Seq(Symbol) /\ Len(l) = L + 9
    BY <1>1 DEF ContentAt, EditLines
  <2> QED
    BY <2>1, <2>2, ReaderConstants
<1>3. \A h \in 1 .. L : l[7 + h] = c[h]
  BY <1>1 DEF ContentAt, EditLines
<1>4. /\ j \in 1 .. L /\ content.text = SubSeq(c, 1, j) /\ input = From(p + 7 + j)
      /\ c[j] = Newline /\ \A h \in j + 1 .. L : c[h] # Newline
  BY <1>1 DEF ContentAt, ReadUpTo
<1>5. PICK q, e, line :
        /\ q = 7 + j /\ line = Line(ContentLength)
        /\ e = IF L - j + 2 <= ContentLength THEN L - j + 2 ELSE ContentLength
  OBVIOUS
<1>6. /\ j \in Nat /\ ContentLength \in Nat /\ e \in Nat /\ q \in Nat /\ e <= ContentLength
      /\ e = L - j + 2 \/ (e = L - j + 1 /\ e = ContentLength /\ L - j = ContentLength - 1)
      /\ L - j \in Nat /\ L = j + (L - j)
  <2>1. j \in Nat /\ ContentLength \in Nat /\ L - j \in Nat /\ L - j <= ContentLength - 1 /\ L = j + (L - j)
    BY <1>2, <1>4, ReaderConstants
  <2>2. CASE L - j + 2 <= ContentLength
    BY <1>5, <2>1, <2>2
  <2>3. CASE ~ (L - j + 2 <= ContentLength)
    <3>1. e = ContentLength /\ L - j = ContentLength - 1
      BY <1>5, <2>1, <2>3
    <3> QED
      BY <1>5, <2>1, <3>1
  <2> QED
    BY <2>2, <2>3
<1>7. PartEnds(l, q, e, ContentLength)
  <2>1. q \in 0 .. Len(l) /\ e \in 1 .. Len(l) - q
    <3>1. PICK d : d = L - j
      OBVIOUS
    <3>2. d \in Nat /\ L = j + d /\ j \in Nat /\ (e = d + 2 \/ e = d + 1)
      BY <1>6, <3>1
    <3>3. q = 7 + j /\ Len(l) = (j + d) + 9
      BY <1>2, <1>5, <3>2
    <3> QED
      BY <3>2, <3>3
  <2>2. ASSUME NEW h \in 1 .. e - 1
        PROVE  l[q + h] # Newline
    <3>1. CASE h <= L - j
      <4>1. j + h \in j + 1 .. L /\ j + h \in 1 .. L /\ 7 + (j + h) = q + h
        BY <1>2, <1>5, <1>6, <3>1
      <4> QED
        BY <1>3, <1>4, <4>1
    <3>2. CASE ~ (h <= L - j)
      <4>1. h = L - j + 1
        BY <1>2, <1>6, <3>2
      <4>2. q + h = L + 8
        <5>1. PICK d : d = L - j
          OBVIOUS
        <5>2. d \in Nat /\ L = j + d /\ h = d + 1 /\ j \in Nat
          BY <1>6, <4>1, <5>1
        <5> QED
          BY <1>5, <5>2
      <4> QED
        BY <1>1, <4>2, SymbolsDiffer DEF ContentAt, EditLines
    <3> QED
      BY <3>1, <3>2
  <2>3. e = ContentLength \/ l[q + e] = Newline
    <3>1. e = L - j + 2 => q + e = L + 9
      BY <1>2, <1>5, <1>6
    <3>2. l[L + 9] = Newline
      BY <1>1 DEF ContentAt, EditLines
    <3> QED
      BY <1>6, <3>1, <3>2
  <2> QED
    BY <1>6, <2>1, <2>2, <2>3 DEF PartEnds
<1>8. PartOf(line, l, q, e) /\ Behind(line) = From(p + q + e)
  <2>1. File \in Seq(Symbol) /\ NextLines(P, k, l)
    BY DEF ContentAt, ArePlaces
  <2>2. input = From(P[k] + q)
    <3>1. p + 7 + j = p + q
      BY <1>2, <1>5, <1>6
    <3> QED
      BY <1>1, <1>4, <3>1
  <2>3. PartOf(Line(ContentLength), l, q, e) /\ Behind(Line(ContentLength)) = From(P[k] + q + e)
    BY <1>7, <2>1, <2>2, PartRead
  <2> QED
    BY <1>1, <1>5, <2>3
<1>9. PICK word : word = ReadQuoted(line, ContentLength, wordStart)
  OBVIOUS
<1>10. word.end # -1 /\ SubSeq(c, 1, j) \o SubSeq(line, 1, word.end) = c
  <2>1. IsLastLine(line, l, r, j, e)
    BY <1>1, <1>4, <1>5, <1>6, <1>8 DEF IsLastLine, ContentAt
  <2>2. wordStart # -1
    BY DEF ContentAt
  <2>3. EndsContent(line, word.end, r.content, j)
    BY <1>9, <2>1, <2>2, LastLineRead
  <2> QED
    BY <1>1, <2>3 DEF EndsContent
<1>11. /\ input' = Behind(line) /\ UNCHANGED <<written, requestsNum>>
       /\ Deliver(Edit(content.name, content.text \o SubSeq(line, 1, word.end)))
  BY <1>5, <1>9, <1>10 DEF ContinueContent
<1>12. Deliver(written[k + 1])
  <2>1. content.text \o SubSeq(line, 1, word.end) = c
    BY <1>4, <1>10
  <2>2. content.name = r.name
    <3>1. PICK t, name : t = content.text /\ name = r.name
      OBVIOUS
    <3>2. content = [name |-> name, text |-> t]
      BY <3>1 DEF ContentAt
    <3> QED
      BY <3>1, <3>2
  <2>3. r = Edit(r.name, c) /\ r = written[k + 1]
    BY <1>1 DEF ContentAt, EditLines
  <2> QED
    BY <1>11, <2>1, <2>2, <2>3
<1>13. P[k + 1] = p + (L + 9)
  BY <1>1, <1>2 DEF ContentAt, NextLines
<1>14. CASE e = L - j + 2
  <2>1. p + q + e = p + (L + 9)
    BY <1>2, <1>5, <1>6, <1>14
  <2>2. input' = From(P[k + 1])
    BY <1>8, <1>11, <1>13, <2>1
  <2> QED
    BY <1>11, <1>12, <2>2, RequestDone DEF ContentAt
<1>15. CASE e = L - j + 1 /\ L - j = ContentLength - 1
  <2>1. ~ Fits(c)
    <3>1. LastLine(c) = L - j /\ Contains(c, Newline)
      <4>1. Len(c) \in Nat /\ j \in 1 .. Len(c) /\ c[j] = Newline /\ \A h \in j + 1 .. Len(c) : c[h] # Newline
        BY <1>1, <1>2, <1>4
      <4> QED
        BY <1>1, <4>1, LastNewlineIs DEF LastLine
    <3>2. ~ (L - j <= ContentLength - 2)
      BY <1>6, <1>15
    <3> QED
      BY <3>1, <3>2 DEF Fits
  <2>2. k + 1 = Len(written) /\ ~ AllFit
    BY <1>1, <2>1, LongIsLast DEF ContentAt
  <2>3. P[k + 1] = Len(File)
    BY <2>2 DEF ContentAt, ArePlaces
  <2>4. p + q + e = p + (L + 9) - 1
    BY <1>2, <1>5, <1>6, <1>15
  <2>5. input' = From(Len(File) - 1)
    <3>1. (p + (L + 9)) - 1 = Len(File) - 1
      BY <1>13, <2>3
    <3>2. p + q + e = Len(File) - 1
      BY <1>2, <2>4, <3>1
    <3> QED
      BY <1>8, <1>11, <3>2
  <2> QED
    BY <1>11, <1>12, <2>2, <2>5, LongDone DEF ContentAt
<1> QED
  BY <1>6, <1>14, <1>15

\* A content that has been read in part, when there is more to read.
LEMMA ContentRead ==
    ASSUME WrittenOK, NEW P, NEW k, ReaderIsAt(P, k), phase = "content"
    PROVE  \/ ~ AllFit /\ input = << >>
           \/ /\ input # << >>
              /\ \E r, l, j : ContentAt(P, k, r, l, j)
<1>1. WithinContent(P, k) /\ ArePlaces(P, written, File) /\ IsCarriedOut(k)
  BY DEF ReaderIsAt, BetweenRequests, EndedLong, HasEnded
<1>2. PICK r, l : r = written[k + 1] /\ l = Lines(r)
  OBVIOUS
<1>3. k \in 0 .. Len(written) - 1
  BY <1>1 DEF WithinContent, IsCarriedOut, WrittenOK
<1>4. ASSUME NEW j \in 1 .. Len(r.content), ReadUpTo(P, k, r.content, j)
      PROVE  input # << >> /\ ContentAt(P, k, r, l, j)
  <2>1. r.type = "EDIT" /\ content = [name |-> r.name, text |-> content.text] /\ wordStart # -1
    BY <1>1, <1>2 DEF WithinContent
  <2>2. NextLines(P, k, l) /\ EditLines(l, r)
    BY <1>1, <1>2, <1>3, <2>1, LinesInFile, LinesOfEdit
  <2>3. ContentAt(P, k, r, l, j)
    BY <1>1, <1>2, <1>3, <1>4, <2>1, <2>2 DEF ContentAt
  <2>4. PICK p, L, N : p = P[k] /\ L = Len(r.content) /\ N = Len(File)
    OBVIOUS
  <2>5. p \in Nat /\ N \in Nat /\ L \in Nat /\ j \in 1 .. L /\ p + (L + 9) <= N
    BY <2>2, <2>4, ReaderConstants DEF NextLines, EditLines
  <2>6. p + 7 + j \in 0 .. N /\ N - (p + 7 + j) # 0
    BY <2>5
  <2>7. InputAt(p + 7 + j)
    <3>1. input = From(p + 7 + j)
      BY <1>4, <2>4 DEF ReadUpTo
    <3>2. File \in Seq(Symbol)
      BY <1>1 DEF ArePlaces
    <3> QED
      BY <2>4, <2>6, <3>1, <3>2, FromPlace
  <2>8. Len(input) # 0
    BY <2>4, <2>6, <2>7 DEF InputAt
  <2>9. input # << >>
    BY <2>8
  <2> QED
    BY <2>3, <2>9
<1> QED
  BY <1>1, <1>2, <1>4 DEF WithinContent

LEMMA ContinueContentKeeps ==
    ASSUME WrittenOK, NEW P, NEW k, ReaderIsAt(P, k), ContinueContent
    PROVE  ReaderInv'
<1>1. phase = "content" /\ input # << >>
  BY DEF ContinueContent
<1>2. PICK r, l, j : ContentAt(P, k, r, l, j)
  BY <1>1, ContentRead
<1> QED
  BY <1>2, ContinueWithin, ContinueLast

LEMMA Died ==
    ASSUME WrittenOK, NEW P, NEW k, ReaderIsAt(P, k), NEW message, Die(message),
           message \notin {"request", "content"}, DiesWithReason'
    PROVE  ReaderInv'
<1>1. UNCHANGED <<written, requestsNum>> /\ delivered' = delivered /\ phase' = message
  BY DEF Die
<1>2. WrittenOK' /\ ArePlaces(P, written, File)'
  BY <1>1, FileKept DEF ReaderIsAt
<1>3. IsCarriedOut(k)'
  BY <1>1 DEF IsCarriedOut, ReaderIsAt
<1>4. HasEnded(k)'
  BY <1>1 DEF HasEnded
<1>5. ReaderIsAt(P, k)'
  BY <1>2, <1>3, <1>4 DEF ReaderIsAt
<1> QED
  BY <1>2, <1>5 DEF ReaderInv

LEMMA UnknownRequestKeeps ==
    ASSUME WrittenOK, NEW P, NEW k, ReaderIsAt(P, k), UnknownRequest
    PROVE  ReaderInv'
<1>1. /\ phase = "request" /\ input # << >>
      /\ Head(input) \notin {"ADD_SERVER", "REMOVE_SERVER", "GET", "EDIT"}
      /\ Die("unknown request type")
  BY DEF UnknownRequest, MoreToRead
<1>2. ArePlaces(P, written, File) /\ k \in 0 .. Len(written)
  BY DEF ReaderIsAt, IsCarriedOut
<1>3. ~ BetweenRequests(P, k)
  <2>1. ASSUME BetweenRequests(P, k)
        PROVE  FALSE
    <3>1. k \in 0 .. Len(written) - 1 /\ Head(input) = written[k + 1].type
      BY <1>1, <1>2, <2>1, NextRequest
    <3>2. written[k + 1].type \in {"EDIT", "GET", "ADD_SERVER", "REMOVE_SERVER"}
      BY <1>2, <3>1, LinesInFile, RequestType
    <3> QED
      BY <1>1, <3>1, <3>2
  <2> QED
    BY <2>1
<1>4. ~ AllFit
  BY <1>1, <1>3 DEF ReaderIsAt, EndedLong, WithinContent, HasEnded
<1>5. ~ AllFit'
  BY <1>1, <1>4, FileKept DEF Die
<1>6. DiesWithReason'
  BY <1>5 DEF DiesWithReason
<1> QED
  BY <1>1, <1>6, Died

LEMMA EndOfFileKeeps ==
    ASSUME WrittenOK, NEW P, NEW k, ReaderIsAt(P, k), EndOfFile
    PROVE  ReaderInv'
<1>1. /\ phase = "request" /\ Len(delivered) < requestsNum /\ input = << >>
      /\ Die("insufficient requests")
  BY DEF EndOfFile, MoreToRead
<1>2. ArePlaces(P, written, File) /\ IsCarriedOut(k) /\ k \in 0 .. Len(written)
  BY DEF ReaderIsAt, IsCarriedOut
<1>3. BetweenRequests(P, k)
  BY <1>1, <1>2, RestOfLong DEF ReaderIsAt, WithinContent, HasEnded
<1>4. k = Len(written)
  BY <1>1, <1>2, <1>3, NextRequest
<1>5. delivered = written
  BY <1>2, <1>4, SeqEqual DEF IsCarriedOut, WrittenOK
<1>6. requestsNum > Len(written)
  BY <1>1, <1>5 DEF WrittenOK
<1>7. DiesWithReason'
  BY <1>1, <1>5, <1>6 DEF DiesWithReason, Die
<1> QED
  BY <1>1, <1>7, Died

LEMMA EndOfFileInContentKeeps ==
    ASSUME WrittenOK, NEW P, NEW k, ReaderIsAt(P, k), EndOfFileInContent
    PROVE  ReaderInv'
<1>1. phase = "content" /\ input = << >> /\ Die("not properly quoted")
  BY DEF EndOfFileInContent
<1>2. ~ AllFit
  BY <1>1, ContentRead
<1>3. ~ AllFit'
  BY <1>1, <1>2, FileKept DEF Die
<1>4. DiesWithReason'
  BY <1>3 DEF DiesWithReason
<1> QED
  BY <1>1, <1>4, Died

LEMMA ReturnKeeps ==
    ASSUME WrittenOK, NEW P, NEW k, ReaderIsAt(P, k), Return
    PROVE  ReaderInv'
<1>1. Die("done") /\ phase' = "done"
  BY DEF Return, Die
<1>2. DiesWithReason'
  BY <1>1 DEF DiesWithReason
<1> QED
  BY <1>1, <1>2, Died

LEMMA StutterKeeps ==
    ASSUME ReaderInv, UNCHANGED readerVars
    PROVE  ReaderInv'
<1>1. PICK P, k : ReaderIsAt(P, k)
  BY DEF ReaderInv
<1>2. /\ written' = written /\ requestsNum' = requestsNum /\ input' = input /\ phase' = phase
      /\ content' = content /\ wordStart' = wordStart /\ delivered' = delivered
  BY DEF readerVars
<1>3. /\ WrittenOK' /\ ArePlaces(P, written, File)' /\ (AllFit' <=> AllFit) /\ File' = File
      /\ \A p : From(p)' = From(p)
  BY <1>1, <1>2, FileKept DEF ReaderInv, ReaderIsAt
<1>4. IsCarriedOut(k)'
  BY <1>1, <1>2 DEF ReaderIsAt, IsCarriedOut
<1>5. CASE BetweenRequests(P, k)
  <2>1. BetweenRequests(P, k)'
    BY <1>2, <1>3, <1>5 DEF BetweenRequests
  <2> QED
    BY <1>3, <1>4, <2>1 DEF ReaderIsAt, ReaderInv
<1>6. CASE EndedLong(k)
  <2>1. EndedLong(k)'
    BY <1>2, <1>3, <1>6 DEF EndedLong
  <2> QED
    BY <1>3, <1>4, <2>1 DEF ReaderIsAt, ReaderInv
<1>7. CASE WithinContent(P, k)
  <2>1. WithinContent(P, k)'
    BY <1>2, <1>3, <1>7 DEF WithinContent, ReadUpTo
  <2> QED
    BY <1>3, <1>4, <2>1 DEF ReaderIsAt, ReaderInv
<1>8. CASE HasEnded(k)
  <2>1. HasEnded(k)'
    BY <1>2, <1>3, <1>8 DEF HasEnded, DiesWithReason
  <2> QED
    BY <1>3, <1>4, <2>1 DEF ReaderIsAt, ReaderInv
<1> QED
  BY <1>1, <1>5, <1>6, <1>7, <1>8 DEF ReaderIsAt

LEMMA ReaderStep == ReaderInv /\ [Next]_readerVars => ReaderInv'
<1> SUFFICES ASSUME ReaderInv, [Next]_readerVars
             PROVE  ReaderInv'
  OBVIOUS
<1>1. WrittenOK
  BY DEF ReaderInv
<1>2. PICK P, k : ReaderIsAt(P, k)
  BY DEF ReaderInv
<1>3. CASE ReadAdd
  BY <1>1, <1>2, <1>3, ReadAddKeeps
<1>4. CASE ReadRemove
  BY <1>1, <1>2, <1>4, ReadRemoveKeeps
<1>5. CASE ReadGet
  BY <1>1, <1>2, <1>5, ReadGetKeeps
<1>6. CASE ReadEdit
  BY <1>1, <1>2, <1>6, ReadEditKeeps
<1>7. CASE ContinueContent
  BY <1>1, <1>2, <1>7, ContinueContentKeeps
<1>8. CASE UnknownRequest
  BY <1>1, <1>2, <1>8, UnknownRequestKeeps
<1>9. CASE EndOfFile
  BY <1>1, <1>2, <1>9, EndOfFileKeeps
<1>10. CASE EndOfFileInContent
  BY <1>1, <1>2, <1>10, EndOfFileInContentKeeps
<1>11. CASE Return
  BY <1>1, <1>2, <1>11, ReturnKeeps
<1>12. CASE Ended \/ UNCHANGED readerVars
  BY <1>12, StutterKeeps DEF Ended
<1>13. CASE RefuseSize
  BY <1>1, <1>2, <1>13, RefuseSizeKeeps
<1> QED
  BY <1>3, <1>4, <1>5, <1>6, <1>7, <1>8, <1>9, <1>10, <1>11, <1>12, <1>13 DEF Next

\* ReaderInv holds of every behaviour, whatever the file contains.
THEOREM ReaderInvariant == Spec => []ReaderInv
<1>1. Init => ReaderInv
  BY InitReader
<1>2. ReaderInv /\ [Next]_readerVars => ReaderInv'
  BY ReaderStep
<1> QED
  BY <1>1, <1>2, PTL DEF Spec

LEMMA PrefixCarriedOut == ReaderInv => DeliversWhatIsWritten
<1> SUFFICES ASSUME ReaderInv
             PROVE  DeliversWhatIsWritten
  OBVIOUS
<1>1. PICK P, k : ReaderIsAt(P, k)
  BY DEF ReaderInv
<1>2. PICK n, d, w : n = Len(written) /\ d = delivered /\ w = written
  OBVIOUS
<1>3. /\ n \in Nat /\ w \in Seq(AnyRequest) /\ k \in 0 .. n /\ Len(d) = k
      /\ d \in Seq(AnyRequest) /\ \A i \in 1 .. k : d[i] = w[i]
  BY <1>1, <1>2 DEF ReaderInv, WrittenOK, ReaderIsAt, IsCarriedOut
<1>4. SubSeq(d, 1, k) = SubSeq(w, 1, k)
  <2>1. PICK a, b : a = SubSeq(d, 1, k) /\ b = SubSeq(w, 1, k)
    OBVIOUS
  <2>2. \A i \in 1 .. k : d[i] \in AnyRequest /\ w[i] \in AnyRequest
    <3>1. \A i \in 1 .. k : i \in 1 .. Len(d)
      BY <1>3
    <3>2. \A i \in 1 .. k : d[i] \in AnyRequest
      BY <1>3, <3>1, ElementOfSeq
    <3> QED
      BY <1>3, <3>2
  <2>3. /\ a \in Seq(AnyRequest) /\ Len(a) = IF 1 <= k THEN k - 1 + 1 ELSE 0
        /\ \A i \in 1 .. k - 1 + 1 : a[i] = d[1 + i - 1]
    BY <1>3, <2>1, <2>2, SubSeqProperties
  <2>4. /\ b \in Seq(AnyRequest) /\ Len(b) = IF 1 <= k THEN k - 1 + 1 ELSE 0
        /\ \A i \in 1 .. k - 1 + 1 : b[i] = w[1 + i - 1]
    BY <1>3, <2>1, <2>2, SubSeqProperties
  <2>5. /\ (IF 1 <= k THEN k - 1 + 1 ELSE 0) = k /\ k - 1 + 1 = k
        /\ \A i \in 1 .. k : 1 + i - 1 = i
    BY <1>3
  <2>6. \A i \in 1 .. k : a[i] = b[i]
    BY <1>3, <2>3, <2>4, <2>5
  <2> QED
    BY <2>1, <2>3, <2>4, <2>5, <2>6, SeqEqual
<1>5. Len(delivered) = k /\ k <= Len(written)
  BY <1>2, <1>3
<1> QED
  BY <1>2, <1>4, <1>5 DEF DeliversWhatIsWritten, IsPrefix

\* What apply_requests carries out is what the file says, in its order, with
\* contents of any length over any number of lines.
THEOREM CarriesOutTheFile == Spec => []DeliversWhatIsWritten
<1>1. Spec => []ReaderInv
  BY ReaderInvariant
<1>2. ReaderInv => DeliversWhatIsWritten
  BY PrefixCarriedOut
<1> QED
  BY <1>1, <1>2, PTL

\* A file whose contents fit the buffers is refused only for announcing more
\* requests than it contains, and then after all of them, or at the request that
\* would add a server with a negative size, and then after all before it.
THEOREM RefusesWithReason == Spec => []DiesWithReason
<1>1. Spec => []ReaderInv
  BY ReaderInvariant
<1>2. ReaderInv => DiesWithReason
  <2> SUFFICES ASSUME ReaderInv
               PROVE  DiesWithReason
    OBVIOUS
  <2>1. PICK P, k : ReaderIsAt(P, k)
    BY DEF ReaderInv
  <2> QED
    BY <2>1 DEF ReaderIsAt, BetweenRequests, EndedLong, WithinContent, HasEnded, DiesWithReason
<1> QED
  BY <1>1, <1>2, PTL

=============================================================================
