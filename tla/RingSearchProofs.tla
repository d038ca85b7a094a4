-------------------------- MODULE RingSearchProofs --------------------------
(***************************************************************************)
(* The scans of get_next_replica and get_server_replica_executor return    *)
(* what HashRing says, for every list of servers and all hashes.           *)
(***************************************************************************)
EXTENDS RingSearch, SequenceTheorems, WellFoundedInduction, TLAPS

\* A label is named by the position of its server in the list and its index.
Labels == (1 .. Len(servers)) \X Replica

HashOf(l) == labelHash[servers[l[1]]][l[2]]

IdOf(l) == servers[l[1]]

ScannedBefore(l, m) == l[1] < m[1] \/ (l[1] = m[1] /\ l[2] < m[2])

\* The whole order in which the scan prefers labels: what Beats leaves open,
\* the order of the scan decides.
Preferred(l, m) ==
    \/ HashOf(l) < HashOf(m)
    \/ /\ HashOf(l) = HashOf(m)
       /\ \/ IdOf(l) < IdOf(m)
          \/ (IdOf(l) = IdOf(m) /\ ScannedBefore(l, m))

IsBest(labels, l) == l \in labels /\ \A m \in labels : ~ Preferred(m, l)

HigherLabels(labels) == {l \in labels : hash < HashOf(l)}

Scanned == {l \in Labels : ScannedBefore(l, <<position, replica>>)}

\* What a running minimum records of a label.
RecordOf(l) == [hash |-> HashOf(l), id |-> IdOf(l), server |-> l[1], replica |-> l[2]]

\* The running minima are the minima of the labels scanned so far.
LowestIsBest ==
    IF Scanned = {} THEN lowest = NothingLowest
    ELSE \E l \in Labels : IsBest(Scanned, l) /\ lowest = RecordOf(l)

AboveIsBest ==
    IF HigherLabels(Scanned) = {} THEN above = NothingAbove
    ELSE \E l \in Labels : IsBest(HigherLabels(Scanned), l) /\ above = [found |-> TRUE, best |-> RecordOf(l)]

\* What get_next_replica returned, before the list is changed.
AnswerIsBest ==
    Answered =>
        LET l == <<answer.server, answer.replica>>
        IN  IsBest(IF HigherLabels(Labels) # {} THEN HigherLabels(Labels) ELSE Labels, l)

OwnHash(i) == labelHash[servers[answer.server]][i]

\* The minima inside the server found, of its labels below replica.
OwnAboveIsBest ==
    IF own.found
    THEN /\ own.replica \in 0 .. replica - 1
         /\ own.hash = OwnHash(own.replica)
         /\ hash < own.hash /\ own.hash < HashMax
         /\ \A i \in 0 .. replica - 1 :
                hash < OwnHash(i) =>
                    own.hash < OwnHash(i) \/ (own.hash = OwnHash(i) /\ own.replica <= i)
    ELSE /\ own.hash = HashMax
         /\ \A i \in 0 .. replica - 1 : ~ (hash < OwnHash(i) /\ OwnHash(i) < HashMax)

OwnLowestIsBest ==
    /\ \A i \in 0 .. replica - 1 : own.lowestHash <= OwnHash(i)
    /\ IF own.lowestHash < HashMax
       THEN /\ own.lowestReplica \in 0 .. replica - 1
            /\ own.lowestHash = OwnHash(own.lowestReplica)
            /\ \A i \in 0 .. own.lowestReplica - 1 : own.lowestHash < OwnHash(i)
       ELSE own.lowestReplica = 0

OwnType ==
    own \in [found : BOOLEAN, hash : 0 .. HashMax, replica : Replica,
             lowestHash : 0 .. HashMax, lowestReplica : Replica]

SearchTypeOK ==
    /\ servers \in Seq(Server)
    /\ labelHash \in [Server -> [Replica -> 0 .. HashMax]]
    /\ phase \in {"none", "ring", "own"}
    /\ hash \in 0 .. HashMax
    /\ position \in 1 .. Len(servers) + 1
    /\ replica \in 0 .. NumReplicas
    /\ answer \in [server : Nat, replica : Nat]
    /\ executor \in Replica

(***************************************************************************)
(* The invariant: each phase starts from initial minima, and the minima    *)
(* are right at every label.                                               *)
(***************************************************************************)
SearchInv ==
    /\ SearchTypeOK
    /\ phase = "ring" =>
         /\ replica \in Replica
         /\ position > Len(servers) => replica = 0
         /\ LowestIsBest /\ AboveIsBest
         /\ answer = NoPoint
    /\ phase # "ring" =>
         /\ position = 1
         /\ lowest = NothingLowest /\ above = NothingAbove
         /\ AnswerIsBest
    /\ phase = "own" => Answered /\ OwnType /\ OwnAboveIsBest /\ OwnLowestIsBest
    /\ phase # "own" => own = NothingOwn
    /\ phase = "none" => replica = 0 /\ FindsExecutor

-----------------------------------------------------------------------------
\* Hashes, ids and indices are natural numbers.
LEMMA LabelTypes ==
    ASSUME SearchTypeOK, NEW l \in Labels
    PROVE  /\ HashOf(l) \in 0 .. HashMax /\ HashOf(l) \in Nat
           /\ IdOf(l) \in Server /\ IdOf(l) \in Nat /\ IdOf(l) < IdMax
           /\ l[1] \in 1 .. Len(servers) /\ l[1] \in Nat
           /\ l[2] \in Replica /\ l[2] \in Nat /\ l[2] < NumReplicas
           /\ l = <<l[1], l[2]>>
<1>1. /\ l[1] \in 1 .. Len(servers) /\ l[2] \in Replica /\ l = <<l[1], l[2]>>
      /\ Len(servers) \in Nat
  BY LenProperties DEF Labels, SearchTypeOK
<1>2. IdOf(l) \in Server
  BY <1>1, ElementOfSeq DEF IdOf, SearchTypeOK
<1>3. HashOf(l) \in 0 .. HashMax
  BY <1>1, <1>2 DEF HashOf, IdOf, SearchTypeOK
<1>4. Server \subseteq 0 .. IdMax - 1 /\ IdMax \in Nat /\ HashMax \in Nat /\ NumReplicas \in Nat
  BY SearchConstants
<1> QED
  BY <1>1, <1>2, <1>3, <1>4 DEF Replica

\* Preferred is a strict total order.
LEMMA PreferredOrder ==
    ASSUME SearchTypeOK, NEW l \in Labels, NEW m \in Labels, NEW n \in Labels
    PROVE  /\ ~ Preferred(l, l)
           /\ Preferred(l, m) /\ Preferred(m, n) => Preferred(l, n)
           /\ ~ Preferred(l, m) /\ ~ Preferred(m, l) => l = m
<1>1. /\ HashOf(l) \in Nat /\ HashOf(m) \in Nat /\ HashOf(n) \in Nat
      /\ IdOf(l) \in Nat /\ IdOf(m) \in Nat /\ IdOf(n) \in Nat
      /\ l[1] \in Nat /\ m[1] \in Nat /\ n[1] \in Nat
      /\ l[2] \in Nat /\ m[2] \in Nat /\ n[2] \in Nat
      /\ l = <<l[1], l[2]>> /\ m = <<m[1], m[2]>>
  BY LabelTypes
<1>2. ~ Preferred(l, l)
  BY <1>1 DEF Preferred, ScannedBefore
<1>3. Preferred(l, m) /\ Preferred(m, n) => Preferred(l, n)
  BY <1>1 DEF Preferred, ScannedBefore
<1>4. ~ Preferred(l, m) /\ ~ Preferred(m, l) => l = m
  BY <1>1 DEF Preferred, ScannedBefore
<1> QED
  BY <1>2, <1>3, <1>4

\* A running minimum stays right when one more label is scanned: it changes
\* if and only if the new label beats the one recorded.
LEMMA BestOfOneMore ==
    ASSUME SearchTypeOK, NEW L \in SUBSET Labels, NEW c \in Labels, NEW l, IsBest(L, l)
    PROVE  IsBest(L \union {c}, IF Preferred(c, l) THEN c ELSE l)
<1>1. l \in Labels /\ \A m \in L : m \in Labels
  BY DEF IsBest
<1>2. CASE Preferred(c, l)
  <2>1. ASSUME NEW m \in L, Preferred(m, c)
        PROVE  FALSE
    BY <1>1, <1>2, <2>1, PreferredOrder DEF IsBest
  <2> QED
    BY <1>2, <2>1, PreferredOrder DEF IsBest
<1>3. CASE ~ Preferred(c, l)
  BY <1>3 DEF IsBest
<1> QED
  BY <1>2, <1>3

\* The first label that is scanned is the best of those scanned.
LEMMA BestOfOne ==
    ASSUME SearchTypeOK, NEW c \in Labels
    PROVE  IsBest({c}, c)
BY PreferredOrder DEF IsBest

LEMMA RingUnchanged ==
    ASSUME UNCHANGED ringVars
    PROVE  /\ Labels' = Labels
           /\ \A l : HashOf(l)' = HashOf(l) /\ IdOf(l)' = IdOf(l)
           /\ \A l, m : Preferred(l, m)' = Preferred(l, m)
           /\ \A L, l : IsBest(L, l)' = IsBest(L, l)
           /\ \A l : RecordOf(l)' = RecordOf(l)
<1>1. Labels' = Labels
  BY DEF ringVars, Labels
<1>2. ASSUME NEW l
      PROVE  HashOf(l)' = HashOf(l) /\ IdOf(l)' = IdOf(l)
  BY DEF ringVars, HashOf, IdOf
<1>3. ASSUME NEW l, NEW m
      PROVE  Preferred(l, m)' = Preferred(l, m)
  BY <1>2 DEF Preferred, ScannedBefore
<1>4. ASSUME NEW L, NEW l
      PROVE  IsBest(L, l)' = IsBest(L, l)
  BY <1>3 DEF IsBest
<1>5. ASSUME NEW l
      PROVE  RecordOf(l)' = RecordOf(l)
  BY <1>2 DEF RecordOf
<1> QED
  BY <1>1, <1>2, <1>3, <1>4, <1>5

\* The inner loop counts modulo the number of labels.
LEMMA NextIndex ==
    ASSUME NEW i \in Replica
    PROVE  (i + 1) % NumReplicas = IF i + 1 = NumReplicas THEN 0 ELSE i + 1
<1>1. NumReplicas \in Nat /\ NumReplicas > 0 /\ i \in Nat /\ i < NumReplicas
  BY SearchConstants DEF Replica
<1> QED
  BY <1>1

\* One pass through the inner loop scans the current label.
LEMMA OneMoreScanned ==
    ASSUME SearchTypeOK, replica \in Replica, ScanLabel
    PROVE  /\ <<position, replica>> \in Labels \ Scanned
           /\ Scanned' = Scanned \union {<<position, replica>>}
           /\ replica' \in Replica
           /\ position' \in 1 .. Len(servers) + 1
           /\ position' > Len(servers) => replica' = 0
<1> DEFINE c == <<position, replica>>
<1>1. /\ position \in 1 .. Len(servers) /\ Len(servers) \in Nat
      /\ NumReplicas \in Nat /\ NumReplicas > 0
      /\ replica \in Nat /\ replica < NumReplicas
  BY LenProperties, SearchConstants DEF SearchTypeOK, ScanLabel, Replica
<1>2. c \in Labels \ Scanned
  BY <1>1 DEF Labels, Scanned, ScannedBefore
<1>3. /\ replica' = IF replica + 1 = NumReplicas THEN 0 ELSE replica + 1
      /\ position' = IF replica + 1 = NumReplicas THEN position + 1 ELSE position
  BY NextIndex DEF ScanLabel
<1>4. /\ replica' \in Replica
      /\ position' \in 1 .. Len(servers) + 1
      /\ position' > Len(servers) => replica' = 0
  BY <1>1, <1>3 DEF Replica
<1>5. ASSUME NEW l \in Labels
      PROVE  ScannedBefore(l, <<position', replica'>>) <=> ScannedBefore(l, c) \/ l = c
  <2>1. l[1] \in Nat /\ l[2] \in Nat /\ l[2] < NumReplicas /\ l = <<l[1], l[2]>>
    BY LabelTypes
  <2>2. CASE replica + 1 = NumReplicas
    BY <1>1, <1>3, <2>1, <2>2 DEF ScannedBefore
  <2>3. CASE replica + 1 # NumReplicas
    BY <1>1, <1>3, <2>1, <2>3 DEF ScannedBefore
  <2> QED
    BY <2>2, <2>3
<1>6. Labels' = Labels
  BY RingUnchanged DEF ScanLabel
<1>7. Scanned' = Scanned \union {c}
  BY <1>2, <1>5, <1>6 DEF Scanned
<1> QED
  BY <1>2, <1>4, <1>7

\* Among labels of which the last is scanned now, Beats decides as Preferred.
LEMMA BeatsIsPreferred ==
    ASSUME SearchTypeOK, NEW c \in Labels, NEW l \in Labels, ScannedBefore(l, c),
           NEW p, p.hash = HashOf(c), p.id = IdOf(c),
           NEW q, q.hash = HashOf(l), q.id = IdOf(l)
    PROVE  Beats(p, q) <=> Preferred(c, l)
<1>1. /\ HashOf(l) \in Nat /\ HashOf(c) \in Nat /\ IdOf(l) \in Nat /\ IdOf(c) \in Nat
      /\ l[1] \in Nat /\ c[1] \in Nat /\ l[2] \in Nat /\ c[2] \in Nat
  BY LabelTypes
<1>2. ~ ScannedBefore(c, l)
  BY <1>1 DEF ScannedBefore
<1> QED
  BY <1>1, <1>2 DEF Beats, Preferred

\* The initial values of the minima are beaten by every label.
LEMMA NothingIsBeaten ==
    ASSUME SearchTypeOK, NEW c \in Labels, NEW p, p.hash = HashOf(c), p.id = IdOf(c)
    PROVE  Beats(p, NothingLowest)
<1>1. HashOf(c) \in Nat /\ HashOf(c) \in 0 .. HashMax /\ IdOf(c) \in Nat /\ IdOf(c) < IdMax
  BY LabelTypes
<1>2. HashMax \in Nat
  BY SearchConstants
<1> QED
  BY <1>1, <1>2 DEF Beats, NothingLowest

\* The record that ScanLabel compares is that of the label under the scan.
LEMMA CurrentLabel == Current = RecordOf(<<position, replica>>)
<1> DEFINE c == <<position, replica>>
<1>1. c[1] = position /\ c[2] = replica
  OBVIOUS
<1> QED
  BY <1>1 DEF Current, RecordOf, HashOf, IdOf

\* ScanLabel keeps the minimum of all labels.
LEMMA ScanKeepsLowest ==
    ASSUME SearchTypeOK, replica \in Replica, ScanLabel, LowestIsBest
    PROVE  LowestIsBest'
<1>1. PICK c : c = <<position, replica>>
  OBVIOUS
<1>2. c \in Labels /\ Scanned' = Scanned \union {c} /\ Scanned \subseteq Labels
  BY <1>1, OneMoreScanned DEF Scanned
<1>3. /\ Current = RecordOf(c)
      /\ Current.hash = HashOf(c) /\ Current.id = IdOf(c)
  BY <1>1, CurrentLabel DEF RecordOf
<1>4. lowest' = IF Beats(Current, lowest) THEN Current ELSE lowest
  BY DEF ScanLabel
<1>5. SUFFICES \E l \in Labels : IsBest(Scanned', l) /\ lowest' = RecordOf(l)
  <2>1. PICK l \in Labels : IsBest(Scanned', l) /\ lowest' = RecordOf(l)
    BY <1>5
  <2>2. l \in Labels' /\ IsBest(Scanned, l)' /\ lowest' = RecordOf(l)'
    BY <2>1, RingUnchanged DEF ScanLabel
  <2> QED
    BY <1>2, <2>2 DEF LowestIsBest
<1>6. CASE Scanned = {}
  <2>1. lowest' = RecordOf(c)
    BY <1>2, <1>3, <1>4, <1>6, NothingIsBeaten DEF LowestIsBest
  <2>2. IsBest(Scanned', c)
    BY <1>2, <1>6, BestOfOne
  <2> QED
    BY <1>2, <2>1, <2>2
<1>7. CASE Scanned # {}
  <2>1. PICK l \in Labels : IsBest(Scanned, l) /\ lowest = RecordOf(l)
    BY <1>7 DEF LowestIsBest
  <2>2. ScannedBefore(l, c)
    BY <1>1, <2>1 DEF IsBest, Scanned
  <2>3. lowest.hash = HashOf(l) /\ lowest.id = IdOf(l)
    BY <2>1 DEF RecordOf
  <2>4. Beats(Current, lowest) <=> Preferred(c, l)
    BY <1>2, <1>3, <2>2, <2>3, BeatsIsPreferred
  <2> QED
    BY <1>2, <1>3, <1>4, <2>1, <2>4, BestOfOneMore
<1> QED
  BY <1>6, <1>7

\* ScanLabel keeps the minimum of the labels above the hash that is searched.
LEMMA ScanKeepsAbove ==
    ASSUME SearchTypeOK, replica \in Replica, ScanLabel, AboveIsBest
    PROVE  AboveIsBest'
<1>1. PICK c : c = <<position, replica>>
  OBVIOUS
<1>2. c \in Labels /\ Scanned' = Scanned \union {c} /\ Scanned \subseteq Labels
  BY <1>1, OneMoreScanned DEF Scanned
<1>3. /\ Current = RecordOf(c)
      /\ Current.hash = HashOf(c) /\ Current.id = IdOf(c)
  BY <1>1, CurrentLabel DEF RecordOf
<1>4. /\ above' = IF IsAbove(Current) /\ (~ above.found \/ Beats(Current, above.best))
                  THEN [found |-> TRUE, best |-> Current] ELSE above
      /\ UNCHANGED <<ringVars, hash>>
  BY DEF ScanLabel
<1>5. IsAbove(Current) <=> hash < HashOf(c)
  BY <1>3 DEF IsAbove
<1>6. HigherLabels(Scanned)' =
        HigherLabels(Scanned) \union (IF hash < HashOf(c) THEN {c} ELSE {})
  <2>1. /\ \A l : HashOf(l)' = HashOf(l)
        /\ hash' = hash
    BY <1>4, RingUnchanged
  <2> QED
    BY <1>2, <2>1 DEF HigherLabels
<1>7. HigherLabels(Scanned) \in SUBSET Labels
  BY <1>2 DEF HigherLabels
<1>8. CASE ~ (hash < HashOf(c))
  <2>1. above' = above /\ HigherLabels(Scanned)' = HigherLabels(Scanned)
    BY <1>4, <1>5, <1>6, <1>8
  <2>2. /\ Labels' = Labels
        /\ \A L, l : IsBest(L, l)' = IsBest(L, l)
        /\ \A l : RecordOf(l)' = RecordOf(l)
    BY <1>4, RingUnchanged
  <2> QED
    BY <2>1, <2>2 DEF AboveIsBest, NothingAbove, NothingLowest
<1>9. CASE hash < HashOf(c)
  <2>1. SUFFICES \E l \in Labels :
                    IsBest(HigherLabels(Scanned)', l) /\ above' = [found |-> TRUE, best |-> RecordOf(l)]
    <3>1. PICK l \in Labels :
             IsBest(HigherLabels(Scanned)', l) /\ above' = [found |-> TRUE, best |-> RecordOf(l)]
      BY <2>1
    <3>2. l \in Labels' /\ IsBest(HigherLabels(Scanned), l)' /\ RecordOf(l)' = RecordOf(l)
      BY <1>4, <3>1, RingUnchanged
    <3>3. HigherLabels(Scanned)' # {}
      BY <1>6, <1>9
    <3> QED
      BY <3>1, <3>2, <3>3 DEF AboveIsBest
  <2>2. CASE HigherLabels(Scanned) = {}
    <3>1. above' = [found |-> TRUE, best |-> RecordOf(c)]
      BY <1>3, <1>4, <1>5, <1>9, <2>2 DEF AboveIsBest, NothingAbove
    <3>2. IsBest(HigherLabels(Scanned)', c)
      BY <1>2, <1>6, <1>9, <2>2, BestOfOne
    <3> QED
      BY <1>2, <3>1, <3>2
  <2>3. CASE HigherLabels(Scanned) # {}
    <3>1. PICK l \in Labels :
             IsBest(HigherLabels(Scanned), l) /\ above = [found |-> TRUE, best |-> RecordOf(l)]
      BY <2>3 DEF AboveIsBest
    <3>2. ScannedBefore(l, c)
      BY <1>1, <3>1 DEF IsBest, HigherLabels, Scanned
    <3>3. above.found /\ above.best = RecordOf(l) /\ above.best.hash = HashOf(l) /\ above.best.id = IdOf(l)
      BY <3>1 DEF RecordOf
    <3>4. Beats(Current, above.best) <=> Preferred(c, l)
      BY <1>2, <1>3, <3>2, <3>3, BeatsIsPreferred
    <3>5. IsBest(HigherLabels(Scanned)', IF Preferred(c, l) THEN c ELSE l)
      BY <1>2, <1>6, <1>7, <1>9, <3>1, BestOfOneMore
    <3> QED
      BY <1>2, <1>3, <1>4, <1>5, <1>9, <3>1, <3>3, <3>4, <3>5
  <2> QED
    BY <2>2, <2>3
<1> QED
  BY <1>8, <1>9

-----------------------------------------------------------------------------
\* When the last label was scanned, all were; on an empty list none.
LEMMA AllScanned ==
    ASSUME SearchTypeOK, position > Len(servers)
    PROVE  Scanned = Labels
<1>1. position \in Nat /\ Len(servers) \in Nat
  BY LenProperties DEF SearchTypeOK
<1>2. ASSUME NEW l \in Labels
      PROVE  ScannedBefore(l, <<position, replica>>)
  BY <1>1, LabelTypes DEF ScannedBefore
<1> QED
  BY <1>2 DEF Scanned

\* A server on the list has a label.
LEMMA SomeLabel ==
    ASSUME SearchTypeOK, servers # << >>
    PROVE  Labels # {}
<1>1. Len(servers) \in Nat /\ Len(servers) # 0
  BY LenProperties, EmptySeq DEF SearchTypeOK
<1>2. 1 \in 1 .. Len(servers) /\ 0 \in Replica
  BY <1>1, SearchConstants DEF Replica
<1>3. <<1, 0>> \in Labels
  BY <1>2 DEF Labels
<1> QED
  BY <1>3

\* get_next_replica returns the best label, and no server only if there is none.
LEMMA EndSearchAnswers ==
    ASSUME SearchTypeOK, LowestIsBest, AboveIsBest, EndSearch
    PROVE  /\ AnswerIsBest'
           /\ phase' = "own" => Answered'
           /\ phase' = "none" => ~ Answered'
           /\ answer' \in [server : Nat, replica : Nat]
<1>1. Scanned = Labels
  BY AllScanned DEF EndSearch
<1>2. /\ Labels' = Labels
      /\ HigherLabels(Labels)' = HigherLabels(Labels)
      /\ \A L, l : IsBest(L, l)' = IsBest(L, l)
  <2>1. /\ Labels' = Labels
        /\ \A L, l : IsBest(L, l)' = IsBest(L, l)
        /\ \A l : HashOf(l)' = HashOf(l)
        /\ hash' = hash
    BY RingUnchanged DEF EndSearch
  <2> QED
    BY <2>1 DEF HigherLabels
<1>3. PICK best : best = IF above.found THEN above.best ELSE lowest
  OBVIOUS
<1>4. /\ answer' = [server |-> best.server, replica |-> best.replica]
      /\ phase' = IF best.server = Nobody THEN "none" ELSE "own"
  BY <1>3 DEF EndSearch
<1>5. PICK found : found = IF HigherLabels(Labels) # {} THEN HigherLabels(Labels) ELSE Labels
  OBVIOUS
<1>6. CASE Labels = {}
  <2>1. best = NothingLowest
    BY <1>1, <1>3, <1>6 DEF LowestIsBest, AboveIsBest, HigherLabels, NothingAbove
  <2>2. answer' = NoPoint /\ phase' = "none"
    BY <1>4, <2>1 DEF NothingLowest, NoPoint
  <2> QED
    BY <2>2 DEF AnswerIsBest, Answered, NoPoint, Nobody
<1>7. CASE Labels # {}
  <2>1. PICK l \in Labels : IsBest(found, l) /\ best = RecordOf(l)
    BY <1>1, <1>3, <1>5, <1>7 DEF LowestIsBest, AboveIsBest, HigherLabels, NothingAbove
  <2>2. l[1] \in Nat /\ l[1] # 0 /\ l[2] \in Nat /\ l = <<l[1], l[2]>>
    BY LabelTypes, LenProperties DEF SearchTypeOK
  <2>3. answer' = [server |-> l[1], replica |-> l[2]] /\ phase' = "own"
    BY <1>4, <2>1, <2>2 DEF RecordOf, Nobody
  <2>4. answer'.server = l[1] /\ answer'.replica = l[2] /\ answer' # NoPoint
    BY <2>2, <2>3 DEF NoPoint, Nobody
  <2>5. <<answer.server, answer.replica>>' = l
    BY <2>2, <2>4
  <2>6. AnswerIsBest'
    BY <1>2, <1>5, <2>1, <2>5 DEF AnswerIsBest
  <2> QED
    BY <2>2, <2>3, <2>4, <2>6 DEF Answered, NoPoint
<1> QED
  BY <1>6, <1>7

\* The answer names a label on the list.
LEMMA AnswerIsLabel ==
    ASSUME SearchTypeOK, AnswerIsBest, Answered
    PROVE  /\ <<answer.server, answer.replica>> \in Labels
           /\ answer.server \in 1 .. Len(servers) /\ answer.replica \in Replica
           /\ servers[answer.server] \in Server
<1>1. <<answer.server, answer.replica>> \in Labels
  BY DEF AnswerIsBest, IsBest, HigherLabels
<1> QED
  BY <1>1, LabelTypes DEF IdOf

LEMMA OwnHashType ==
    ASSUME SearchTypeOK, AnswerIsBest, Answered, NEW i \in Replica
    PROVE  OwnHash(i) \in 0 .. HashMax
BY AnswerIsLabel DEF OwnHash, SearchTypeOK

\* One pass of get_server_replica_executor keeps its two minima.
LEMMA ScanOwnKeeps ==
    ASSUME SearchTypeOK, AnswerIsBest, Answered, OwnType, OwnAboveIsBest, OwnLowestIsBest,
           ScanOwnLabel
    PROVE  /\ replica' \in 0 .. NumReplicas
           /\ OwnType' /\ OwnAboveIsBest' /\ OwnLowestIsBest'
<1>1. /\ replica \in Replica /\ replica' = replica + 1 /\ replica \in Nat
      /\ NumReplicas \in Nat /\ replica < NumReplicas
      /\ HashMax \in Nat /\ hash \in Nat
  BY SearchConstants DEF ScanOwnLabel, SearchTypeOK, Replica
<1>2. \A i : OwnHash(i)' = OwnHash(i)
  BY DEF ScanOwnLabel, OwnHash, ringVars
<1>3. PICK h : h = OwnHash(replica)
  OBVIOUS
<1>4. /\ \A i \in 0 .. replica : OwnHash(i) \in Nat
      /\ h \in 0 .. HashMax /\ h \in Nat
  BY <1>1, <1>3, OwnHashType DEF Replica
<1>5. own' = Consider(own, replica, h) /\ hash' = hash
  BY <1>3 DEF ScanOwnLabel, OwnHash
<1>6. /\ own.found \in BOOLEAN
      /\ own.hash \in 0 .. HashMax /\ own.hash \in Nat /\ own.replica \in Replica
      /\ own.lowestHash \in 0 .. HashMax /\ own.lowestHash \in Nat /\ own.lowestReplica \in Replica
  BY <1>1 DEF OwnType
<1>7. /\ own'.found = (own.found \/ (hash < h /\ h < own.hash))
      /\ own'.hash = IF hash < h /\ h < own.hash THEN h ELSE own.hash
      /\ own'.replica = IF hash < h /\ h < own.hash THEN replica ELSE own.replica
      /\ own'.lowestHash = IF h < own.lowestHash THEN h ELSE own.lowestHash
      /\ own'.lowestReplica = IF h < own.lowestHash THEN replica ELSE own.lowestReplica
  BY <1>5 DEF Consider
<1>8. OwnType'
  BY <1>1, <1>4, <1>5, <1>6 DEF OwnType, Consider
<1>9. 0 .. replica' - 1 = (0 .. replica - 1) \union {replica}
  BY <1>1
<1>10. OwnAboveIsBest'
  <2>1. CASE hash < h /\ h < own.hash
    <3>1. own'.found /\ own'.hash = h /\ own'.replica = replica
      BY <1>7, <2>1
    <3>2. own'.replica \in 0 .. replica' - 1 /\ h = OwnHash(replica) /\ h < HashMax
      BY <1>1, <1>3, <1>4, <1>6, <2>1, <3>1
    <3>3. ASSUME NEW i \in 0 .. replica - 1, hash < OwnHash(i)
          PROVE  h < OwnHash(i)
      <4>1. OwnHash(i) \in Nat
        BY <1>1, <1>4, <3>3
      <4> QED
        BY <1>1, <1>4, <1>6, <2>1, <3>3, <4>1 DEF OwnAboveIsBest
    <3> QED
      BY <1>1, <1>2, <1>3, <1>4, <1>5, <1>9, <2>1, <3>1, <3>2, <3>3 DEF OwnAboveIsBest
  <2>2. CASE ~ (hash < h /\ h < own.hash)
    <3>1. own'.found = own.found /\ own'.hash = own.hash /\ own'.replica = own.replica
      BY <1>6, <1>7, <2>2
    <3>2. CASE own.found
      <4>1. /\ own.replica \in 0 .. replica - 1 /\ own.hash = OwnHash(own.replica)
            /\ hash < own.hash /\ own.hash < HashMax
            /\ \A i \in 0 .. replica - 1 :
                   hash < OwnHash(i) =>
                       own.hash < OwnHash(i) \/ (own.hash = OwnHash(i) /\ own.replica <= i)
        BY <3>2 DEF OwnAboveIsBest
      <4>2. hash < h => own.hash < h \/ (own.hash = h /\ own.replica <= replica)
        BY <1>1, <1>4, <1>6, <2>2, <4>1
      <4>3. own'.replica \in 0 .. replica' - 1
        BY <1>9, <3>1, <4>1
      <4> QED
        BY <1>2, <1>3, <1>5, <1>9, <3>1, <3>2, <4>1, <4>2, <4>3 DEF OwnAboveIsBest
    <3>3. CASE ~ own.found
      <4>1. /\ own.hash = HashMax
            /\ \A i \in 0 .. replica - 1 : ~ (hash < OwnHash(i) /\ OwnHash(i) < HashMax)
        BY <3>3 DEF OwnAboveIsBest
      <4> QED
        BY <1>2, <1>3, <1>5, <1>9, <2>2, <3>1, <3>3, <4>1 DEF OwnAboveIsBest
    <3> QED
      BY <3>2, <3>3
  <2> QED
    BY <2>1, <2>2
<1>11. OwnLowestIsBest'
  <2>1. /\ \A i \in 0 .. replica - 1 : own.lowestHash <= OwnHash(i) /\ OwnHash(i) \in Nat
        /\ own.lowestHash < HashMax =>
              /\ own.lowestReplica \in 0 .. replica - 1
              /\ own.lowestHash = OwnHash(own.lowestReplica)
              /\ \A i \in 0 .. own.lowestReplica - 1 : own.lowestHash < OwnHash(i)
        /\ ~ (own.lowestHash < HashMax) => own.lowestReplica = 0
    BY <1>1, <1>4 DEF OwnLowestIsBest
  <2>2. CASE h < own.lowestHash
    <3>1. own'.lowestHash = h /\ own'.lowestReplica = replica /\ h < HashMax
      BY <1>1, <1>4, <1>6, <1>7, <2>2
    <3>2. \A i \in 0 .. replica - 1 : h < OwnHash(i)
      BY <1>4, <1>6, <2>1, <2>2
    <3>3. \A i \in 0 .. replica' - 1 : h <= OwnHash(i)
      BY <1>3, <1>4, <1>9, <2>1, <3>2
    <3>4. replica \in 0 .. replica' - 1
      BY <1>1
    <3> QED
      BY <1>2, <1>3, <3>1, <3>2, <3>3, <3>4 DEF OwnLowestIsBest
  <2>3. CASE ~ (h < own.lowestHash)
    <3>1. own'.lowestHash = own.lowestHash /\ own'.lowestReplica = own.lowestReplica
      BY <1>7, <2>3
    <3>2. \A i \in 0 .. replica' - 1 : own.lowestHash <= OwnHash(i)
      BY <1>3, <1>4, <1>6, <1>9, <2>1, <2>3
    <3> QED
      BY <1>2, <1>9, <2>1, <3>1, <3>2 DEF OwnLowestIsBest
  <2> QED
    BY <2>2, <2>3
<1>12. replica' \in 0 .. NumReplicas
  BY <1>1
<1> QED
  BY <1>8, <1>10, <1>11, <1>12

\* The points of one server, and what IsFirst says of them.
LEMMA OwnPoints ==
    ASSUME SearchTypeOK, NEW s \in Server
    PROVE  /\ \A i \in Replica :
                /\ [server |-> s, replica |-> i] \in Ring!Points({s})
                /\ Ring!PointHash([server |-> s, replica |-> i]) = labelHash[s][i]
           /\ \A q \in Ring!Points({s}) :
                /\ q.server = s /\ q.replica \in Replica
                /\ q = [server |-> s, replica |-> q.replica]
                /\ Ring!PointHash(q) = labelHash[s][q.replica]
<1>1. ASSUME NEW i \in Replica
      PROVE  /\ [server |-> s, replica |-> i] \in Ring!Points({s})
             /\ Ring!PointHash([server |-> s, replica |-> i]) = labelHash[s][i]
  BY DEF Ring!Points, Ring!PointHash, Replica, Ring!Replica
<1>2. ASSUME NEW q \in Ring!Points({s})
      PROVE  /\ q.server = s /\ q.replica \in Replica
             /\ q = [server |-> s, replica |-> q.replica]
             /\ Ring!PointHash(q) = labelHash[s][q.replica]
  BY DEF Ring!Points, Ring!PointHash, Replica, Ring!Replica
<1> QED
  BY <1>1, <1>2

\* When all labels were scanned, the minima are what HashRing describes.
LEMMA OwnScanFinds ==
    ASSUME SearchTypeOK, AnswerIsBest, Answered, OwnType, OwnAboveIsBest, OwnLowestIsBest,
           replica = NumReplicas
    PROVE  Ring!IsReplicaExecutor(servers[answer.server], hash,
                                  IF own.found THEN own.replica ELSE own.lowestReplica)
<1>1. PICK s \in Server : s = servers[answer.server]
  BY AnswerIsLabel
<1>2. /\ Replica = 0 .. replica - 1
      /\ \A i \in Replica : i \in Nat /\ OwnHash(i) = labelHash[s][i] /\ labelHash[s][i] \in Nat
      /\ \A i \in Replica : labelHash[s][i] <= HashMax
      /\ s \in Nat /\ HashMax \in Nat /\ hash \in Nat
  <2>1. s \in Nat /\ HashMax \in Nat /\ hash \in Nat /\ NumReplicas \in Nat
    BY SearchConstants DEF SearchTypeOK
  <2>2. Replica = 0 .. replica - 1
    BY DEF Replica
  <2>3. ASSUME NEW i \in Replica
        PROVE  /\ i \in Nat /\ OwnHash(i) = labelHash[s][i]
               /\ labelHash[s][i] \in Nat /\ labelHash[s][i] <= HashMax
    <3>1. OwnHash(i) = labelHash[s][i] /\ OwnHash(i) \in 0 .. HashMax
      BY <1>1, OwnHashType DEF OwnHash
    <3> QED
      BY <2>1, <3>1 DEF Replica
  <2> QED
    BY <2>1, <2>2, <2>3
<1>3. PICK found : found = {p \in Ring!Above(Ring!Points({s}), hash) : Ring!PointHash(p) < HashMax}
  OBVIOUS
<1>4. \A q : q \in found <=> /\ q \in Ring!Points({s})
                             /\ hash < labelHash[s][q.replica] /\ labelHash[s][q.replica] < HashMax
  BY <1>3, OwnPoints DEF Ring!Above
<1>5. \A q, p \in Ring!Points({s}) :
        Ring!Before(q, p) <=>
            \/ labelHash[s][q.replica] < labelHash[s][p.replica]
            \/ labelHash[s][q.replica] = labelHash[s][p.replica] /\ q.replica < p.replica
  BY <1>2, OwnPoints DEF Ring!Before
<1>6. CASE own.found
  <2>1. /\ own.replica \in Replica
        /\ hash < labelHash[s][own.replica] /\ labelHash[s][own.replica] < HashMax
        /\ \A i \in Replica :
               hash < labelHash[s][i] =>
                   \/ labelHash[s][own.replica] < labelHash[s][i]
                   \/ labelHash[s][own.replica] = labelHash[s][i] /\ own.replica <= i
    BY <1>2, <1>6 DEF OwnAboveIsBest
  <2>2. PICK p : p = [server |-> s, replica |-> own.replica]
    OBVIOUS
  <2>3. p \in Ring!Points({s}) /\ p.replica = own.replica /\ p \in found
    BY <1>4, <2>1, <2>2, OwnPoints
  <2>4. ASSUME NEW q \in found
        PROVE  ~ Ring!Before(q, p)
    <3>1. q \in Ring!Points({s}) /\ q.replica \in Replica /\ hash < labelHash[s][q.replica]
      BY <1>4, OwnPoints
    <3>2. ~ (\/ labelHash[s][q.replica] < labelHash[s][p.replica]
             \/ labelHash[s][q.replica] = labelHash[s][p.replica] /\ q.replica < p.replica)
      BY <1>2, <2>1, <2>3, <3>1
    <3> QED
      BY <1>5, <2>3, <3>1, <3>2
  <2> QED
    BY <1>1, <1>3, <1>6, <2>2, <2>3, <2>4 DEF Ring!IsReplicaExecutor, Ring!IsFirst
<1>7. CASE ~ own.found
  <2>1. found = {}
    <3>1. ASSUME NEW q \in found
          PROVE  FALSE
      BY <1>2, <1>4, <1>7, OwnPoints DEF OwnAboveIsBest
    <3> QED
      BY <3>1
  <2>2. /\ own.lowestReplica \in Replica /\ own.lowestHash \in Nat /\ own.lowestHash <= HashMax
        /\ \A i \in Replica : own.lowestHash <= labelHash[s][i]
    BY <1>2 DEF OwnLowestIsBest, OwnType
  <2>3. \A i \in Replica :
            \/ labelHash[s][own.lowestReplica] < labelHash[s][i]
            \/ labelHash[s][own.lowestReplica] = labelHash[s][i] /\ own.lowestReplica <= i
    <3>1. CASE own.lowestHash < HashMax
      <4>1. /\ own.lowestHash = labelHash[s][own.lowestReplica]
            /\ \A i \in 0 .. own.lowestReplica - 1 : own.lowestHash < OwnHash(i)
        BY <1>2, <2>2, <3>1 DEF OwnLowestIsBest
      <4>2. ASSUME NEW i \in Replica, i < own.lowestReplica
            PROVE  own.lowestHash < labelHash[s][i]
        BY <1>2, <2>2, <4>1, <4>2
      <4> QED
        BY <1>2, <2>2, <4>1, <4>2
    <3>2. CASE ~ (own.lowestHash < HashMax)
      <4>1. own.lowestReplica = 0
        BY <3>2 DEF OwnLowestIsBest
      <4> QED
        BY <1>2, <2>2, <3>2, <4>1
    <3> QED
      BY <3>1, <3>2
  <2>4. PICK p : p = [server |-> s, replica |-> own.lowestReplica]
    OBVIOUS
  <2>5. p \in Ring!Points({s}) /\ p.replica = own.lowestReplica
    BY <2>2, <2>4, OwnPoints
  <2>6. ASSUME NEW q \in Ring!Points({s})
        PROVE  ~ Ring!Before(q, p)
    <3>1. q.replica \in Replica
      BY OwnPoints
    <3>2. ~ (\/ labelHash[s][q.replica] < labelHash[s][p.replica]
             \/ labelHash[s][q.replica] = labelHash[s][p.replica] /\ q.replica < p.replica)
      BY <1>2, <2>2, <2>3, <2>5, <3>1
    <3> QED
      BY <1>5, <2>5, <3>2
  <2> QED
    BY <1>1, <1>3, <1>7, <2>1, <2>4, <2>5, <2>6 DEF Ring!IsReplicaExecutor, Ring!IsFirst
<1> QED
  BY <1>6, <1>7

-----------------------------------------------------------------------------
\* The answer stays right while neither ring nor hash change.
LEMMA AnswerKept ==
    ASSUME AnswerIsBest, UNCHANGED <<ringVars, hash, answer>>
    PROVE  AnswerIsBest'
<1>1. /\ Labels' = Labels
      /\ \A L, l : IsBest(L, l)' = IsBest(L, l)
      /\ \A l : HashOf(l)' = HashOf(l)
  BY RingUnchanged
<1>2. HigherLabels(Labels)' = HigherLabels(Labels)
  BY <1>1 DEF HigherLabels
<1> QED
  BY <1>1, <1>2 DEF AnswerIsBest, Answered

LEMMA NoAnswer == answer = NoPoint => AnswerIsBest /\ FindsExecutor /\ ~ Answered
BY DEF AnswerIsBest, FindsExecutor, Answered

\* A search starts with no label scanned.
LEMMA NothingScanned ==
    /\ SearchTypeOK /\ position = 1 /\ replica = 0
    /\ lowest = NothingLowest /\ above = NothingAbove
    => LowestIsBest /\ AboveIsBest
<1> SUFFICES ASSUME SearchTypeOK, position = 1, replica = 0,
                    lowest = NothingLowest, above = NothingAbove
             PROVE  LowestIsBest /\ AboveIsBest
  OBVIOUS
<1>1. Scanned = {}
  <2>1. ASSUME NEW l \in Labels
        PROVE  ~ ScannedBefore(l, <<position, replica>>)
    <3>1. l[1] \in Nat /\ l[1] >= 1 /\ l[2] \in Nat
      BY LabelTypes, LenProperties DEF SearchTypeOK
    <3> QED
      BY <3>1 DEF ScannedBefore
  <2> QED
    BY <2>1 DEF Scanned
<1>2. HigherLabels({}) = {}
  BY DEF HigherLabels
<1> QED
  BY <1>1, <1>2 DEF LowestIsBest, AboveIsBest

\* So does the scan of the labels of one server.
LEMMA NothingOwnScanned ==
    replica = 0 /\ own = NothingOwn => OwnType /\ OwnAboveIsBest /\ OwnLowestIsBest
<1>1. /\ HashMax \in 0 .. HashMax /\ 0 \in Replica /\ ~ (HashMax < HashMax)
      /\ 0 .. 0 - 1 = {}
  BY SearchConstants DEF Replica
<1> QED
  BY <1>1 DEF OwnType, OwnAboveIsBest, OwnLowestIsBest, NothingOwn

\* A set of natural numbers has a least one.
LEMMA LeastNumber ==
    ASSUME NEW T \in SUBSET Nat, T # {}
    PROVE  \E n \in T : \A m \in T : n <= m
<1> DEFINE R == {ss \in Nat \X Nat : ss[1] < ss[2]}
<1>1. IsWellFoundedOn(R, Nat)
  BY NatLessThanWellFounded DEF OpToRel
<1> HIDE DEF R
<1>2. PICK n \in T : \A m \in T : ~ (<<m, n>> \in R)
  BY <1>1, WFMin
<1>3. \A m \in T : ~ (m < n)
  BY <1>2 DEF R
<1> QED
  BY <1>3

\* loader_remove_server takes a server off the list.
LEMMA RemoveServerType ==
    ASSUME SearchTypeOK, NEW x \in Server, RemoveServer(x)
    PROVE  servers' \in Seq(Server)
<1>1. PICK i : servers' = RemoveAt(servers, i) /\ i = SelectInSeq(servers, LAMBDA y : y = x)
  BY DEF RemoveServer
<1>2. Len(servers) \in Nat /\ \A j \in 1 .. Len(servers) : servers[j] \in Server
  BY LenProperties, ElementOfSeq DEF SearchTypeOK
<1>3. i \in 1 .. Len(servers)
  <2>1. PICK k \in 1 .. Len(servers) : servers[k] = x
    BY LenProperties DEF RemoveServer, ToSet, SearchTypeOK
  <2> DEFINE I == {j \in 1 .. Len(servers) : servers[j] = x}
  <2>2. PICK first \in I : \A j \in I : first <= j
    <3>1. I # {} /\ I \subseteq Nat
      BY <1>2, <2>1
    <3> HIDE DEF I
    <3> QED
      BY <3>1, LeastNumber
  <2> QED
    BY <1>1, <2>1, <2>2 DEF SelectInSeq, Min
<1>4. SubSeq(servers, 1, i - 1) \in Seq(Server) /\ SubSeq(servers, i + 1, Len(servers)) \in Seq(Server)
  BY <1>2, <1>3, SubSeqProperties DEF SearchTypeOK
<1> QED
  BY <1>1, <1>4, ConcatProperties DEF RemoveAt

-----------------------------------------------------------------------------
LEMMA InitSearch == Init => SearchInv
<1> SUFFICES ASSUME Init
             PROVE  SearchInv
  OBVIOUS
<1>1. SearchTypeOK
  <2>1. << >> \in Seq(Server) /\ Len(<< >>) = 0 /\ 0 \in 0 .. HashMax /\ 0 \in Replica /\ 0 \in 0 .. NumReplicas
    BY EmptySeq, SearchConstants DEF Replica
  <2> QED
    BY <2>1 DEF Init, SearchTypeOK, NoPoint, Nobody
<1>2. answer = NoPoint
  BY DEF Init
<1> QED
  BY <1>1, <1>2, NoAnswer DEF Init, SearchInv

LEMMA ListChangeKeeps ==
    ASSUME SearchInv, NEW x \in Server, AddServer(x) \/ RemoveServer(x)
    PROVE  SearchInv'
<1>1. servers' \in Seq(Server)
  <2>1. CASE AddServer(x)
    BY <2>1, ConcatProperties DEF AddServer, SearchInv, SearchTypeOK
  <2>2. CASE RemoveServer(x)
    BY <2>2, RemoveServerType DEF SearchInv
  <2> QED
    BY <2>1, <2>2
<1>2. /\ phase = "none" /\ answer' = NoPoint
      /\ UNCHANGED <<labelHash, phase, hash, scanVars, executor>>
  BY DEF AddServer, RemoveServer
<1>3. Len(servers') \in Nat
  BY <1>1, LenProperties
<1>4. SearchTypeOK'
  BY <1>1, <1>2, <1>3 DEF SearchInv, SearchTypeOK, NoPoint, Nobody, scanVars
<1>5. AnswerIsBest' /\ FindsExecutor'
  <2>1. (answer = NoPoint)' => (AnswerIsBest /\ FindsExecutor)'
    BY NoAnswer, PTL
  <2> QED
    BY <1>2, <2>1 DEF NoPoint
<1> QED
  BY <1>2, <1>4, <1>5 DEF SearchInv, scanVars, NothingLowest, NothingAbove, NothingOwn

LEMMA BeginSearchKeeps ==
    ASSUME SearchInv, NEW h \in 0 .. HashMax, BeginSearch(h)
    PROVE  SearchInv'
<1>1. /\ phase = "none" /\ phase' = "ring" /\ hash' = h /\ answer' = NoPoint
      /\ UNCHANGED <<servers, labelHash, position, replica, above, lowest, own, executor>>
  BY DEF BeginSearch, ringVars, scanVars
<1>2. SearchTypeOK'
  BY <1>1 DEF SearchInv, SearchTypeOK, NoPoint, Nobody
<1>3. /\ position' = 1 /\ replica' = 0 /\ own' = NothingOwn
      /\ lowest' = NothingLowest /\ above' = NothingAbove
  BY <1>1 DEF SearchInv
<1>4. LowestIsBest' /\ AboveIsBest'
  <2>1. (/\ SearchTypeOK /\ position = 1 /\ replica = 0
         /\ lowest = NothingLowest /\ above = NothingAbove)'
        => LowestIsBest' /\ AboveIsBest'
    BY NothingScanned, PTL
  <2> QED
    BY <1>2, <1>3, <2>1 DEF NothingLowest, NothingAbove
<1>5. replica' \in Replica
  BY <1>3, SearchConstants DEF Replica
<1> QED
  BY <1>1, <1>2, <1>3, <1>4, <1>5 DEF SearchInv, NothingOwn, NoPoint

LEMMA ScanLabelKeeps ==
    ASSUME SearchInv, ScanLabel
    PROVE  SearchInv'
<1>1. SearchTypeOK /\ replica \in Replica /\ LowestIsBest /\ AboveIsBest /\ phase = "ring"
      /\ answer = NoPoint /\ own = NothingOwn
  BY DEF SearchInv, ScanLabel
<1>2. UNCHANGED <<servers, labelHash, phase, hash, own, answer, executor>>
  BY DEF ScanLabel, ringVars
<1>3. LowestIsBest' /\ AboveIsBest'
  BY <1>1, ScanKeepsLowest, ScanKeepsAbove
<1>4. /\ replica' \in Replica /\ position' \in 1 .. Len(servers) + 1
      /\ position' > Len(servers) => replica' = 0
  BY <1>1, OneMoreScanned
<1>5. SearchTypeOK'
  <2>1. replica' \in 0 .. NumReplicas
    BY <1>4, SearchConstants DEF Replica
  <2> QED
    BY <1>1, <1>2, <1>4, <2>1 DEF SearchTypeOK
<1> QED
  BY <1>1, <1>2, <1>3, <1>4, <1>5 DEF SearchInv, NothingOwn, NoPoint

LEMMA EndSearchKeeps ==
    ASSUME SearchInv, EndSearch
    PROVE  SearchInv'
<1>1. SearchTypeOK /\ LowestIsBest /\ AboveIsBest /\ own = NothingOwn
  BY DEF SearchInv, EndSearch
<1>2. /\ UNCHANGED <<servers, labelHash, hash, own, executor>>
      /\ phase' \in {"none", "own"}
      /\ position' = 1 /\ replica' = 0 /\ above' = NothingAbove /\ lowest' = NothingLowest
  BY DEF EndSearch, ringVars
<1>3. /\ AnswerIsBest'
      /\ phase' = "own" => Answered'
      /\ phase' = "none" => ~ Answered'
      /\ answer' \in [server : Nat, replica : Nat]
  BY <1>1, EndSearchAnswers
<1>4. SearchTypeOK'
  <2>1. Len(servers) \in Nat /\ 0 \in 0 .. NumReplicas
    BY <1>1, LenProperties, SearchConstants DEF SearchTypeOK
  <2> QED
    BY <1>1, <1>2, <1>3, <2>1 DEF SearchTypeOK
<1>5. OwnType' /\ OwnAboveIsBest' /\ OwnLowestIsBest'
  <2>1. (replica = 0 /\ own = NothingOwn)' => OwnType' /\ OwnAboveIsBest' /\ OwnLowestIsBest'
    BY NothingOwnScanned, PTL
  <2> QED
    BY <1>1, <1>2, <2>1 DEF NothingOwn
<1>6. phase' = "none" => FindsExecutor'
  BY <1>3 DEF FindsExecutor
<1> QED
  BY <1>1, <1>2, <1>3, <1>4, <1>5, <1>6 DEF SearchInv, NothingOwn, NothingAbove, NothingLowest

LEMMA ScanOwnLabelKeeps ==
    ASSUME SearchInv, ScanOwnLabel
    PROVE  SearchInv'
<1>1. /\ SearchTypeOK /\ AnswerIsBest /\ Answered /\ OwnType /\ OwnAboveIsBest /\ OwnLowestIsBest
      /\ phase = "own" /\ position = 1 /\ above = NothingAbove /\ lowest = NothingLowest
  BY DEF SearchInv, ScanOwnLabel
<1>2. UNCHANGED <<servers, labelHash, phase, hash, position, above, lowest, answer, executor>>
  BY DEF ScanOwnLabel, ringVars
<1>3. /\ replica' \in 0 .. NumReplicas
      /\ OwnType' /\ OwnAboveIsBest' /\ OwnLowestIsBest'
  BY <1>1, ScanOwnKeeps
<1>4. AnswerIsBest' /\ Answered'
  BY <1>1, <1>2, AnswerKept DEF Answered, ringVars, NoPoint
<1>5. SearchTypeOK'
  BY <1>1, <1>2, <1>3 DEF SearchTypeOK
<1> QED
  BY <1>1, <1>2, <1>3, <1>4, <1>5 DEF SearchInv, NothingAbove, NothingLowest

LEMMA EndOwnScanKeeps ==
    ASSUME SearchInv, EndOwnScan
    PROVE  SearchInv'
<1>1. /\ SearchTypeOK /\ AnswerIsBest /\ Answered /\ OwnType /\ OwnAboveIsBest /\ OwnLowestIsBest
      /\ replica = NumReplicas /\ position = 1 /\ above = NothingAbove /\ lowest = NothingLowest
  BY DEF SearchInv, EndOwnScan
<1>2. /\ UNCHANGED <<servers, labelHash, hash, position, above, lowest, answer>>
      /\ executor' = IF own.found THEN own.replica ELSE own.lowestReplica
      /\ phase' = "none" /\ replica' = 0 /\ own' = NothingOwn
  BY DEF EndOwnScan, ringVars
<1>3. executor' \in Replica
  BY <1>1, <1>2 DEF OwnType
<1>4. Ring!IsReplicaExecutor(servers[answer.server], hash, executor')
  BY <1>1, <1>2, OwnScanFinds
<1>5. FindsExecutor'
  BY <1>2, <1>4 DEF FindsExecutor, AnsweredPoint, Ring!IsReplicaExecutor, Ring!IsFirst, Ring!Above,
                    Ring!Points, Ring!PointHash, Ring!Before
<1>6. AnswerIsBest'
  BY <1>1, <1>2, AnswerKept DEF ringVars
<1>7. SearchTypeOK'
  <2>1. 0 \in 0 .. NumReplicas
    BY SearchConstants
  <2> QED
    BY <1>1, <1>2, <1>3, <2>1 DEF SearchTypeOK
<1> QED
  BY <1>1, <1>2, <1>5, <1>6, <1>7 DEF SearchInv, NothingAbove, NothingLowest, NothingOwn

LEMMA SearchStep == SearchInv /\ [Next]_searchVars => SearchInv'
<1> SUFFICES ASSUME SearchInv, [Next]_searchVars
             PROVE  SearchInv'
  OBVIOUS
<1>1. CASE UNCHANGED searchVars
  <2>1. /\ servers' = servers /\ labelHash' = labelHash /\ phase' = phase /\ hash' = hash
        /\ position' = position /\ replica' = replica /\ above' = above /\ lowest' = lowest
        /\ own' = own /\ answer' = answer /\ executor' = executor
    BY <1>1 DEF searchVars, ringVars, scanVars
  <2>2. SearchTypeOK => SearchTypeOK'
    BY <2>1 DEF SearchTypeOK
  <2>3. UNCHANGED <<ringVars, hash, answer>>
    BY <2>1 DEF ringVars
  <2>4. /\ Labels' = Labels
        /\ \A L, l : IsBest(L, l)' = IsBest(L, l)
        /\ \A l : HashOf(l)' = HashOf(l) /\ RecordOf(l)' = RecordOf(l)
    BY <2>3, RingUnchanged
  <2>5. Scanned' = Scanned /\ HigherLabels(Scanned)' = HigherLabels(Scanned)
    BY <2>1, <2>4 DEF Scanned, HigherLabels
  <2>6. (LowestIsBest => LowestIsBest') /\ (AboveIsBest => AboveIsBest')
    BY <2>1, <2>4, <2>5 DEF LowestIsBest, AboveIsBest
  <2>7. AnswerIsBest => AnswerIsBest'
    BY <2>3, AnswerKept
  <2>8. /\ (OwnType => OwnType') /\ (Answered => Answered')
        /\ (OwnAboveIsBest => OwnAboveIsBest') /\ (OwnLowestIsBest => OwnLowestIsBest')
    BY <2>1 DEF OwnType, OwnAboveIsBest, OwnLowestIsBest, OwnHash, Answered, NoPoint
  <2>9. FindsExecutor => FindsExecutor'
    <3>1. \A p : Ring!PointHash(p)' = Ring!PointHash(p)
      BY <2>1 DEF Ring!PointHash
    <3>2. \A p, q : Ring!Before(p, q)' <=> Ring!Before(p, q)
      BY <3>1 DEF Ring!Before
    <3>3. \A P, p : Ring!IsFirst(P, p)' <=> Ring!IsFirst(P, p)
      BY <3>2 DEF Ring!IsFirst
    <3>4. \A P, h : Ring!Above(P, h)' = Ring!Above(P, h)
      BY <3>1 DEF Ring!Above
    <3>5. \A s, h, i : Ring!IsReplicaExecutor(s, h, i)' <=> Ring!IsReplicaExecutor(s, h, i)
      BY <3>1, <3>3, <3>4 DEF Ring!IsReplicaExecutor, Ring!Points
    <3>6. PICK s, h, i : s = servers[answer.server] /\ h = hash /\ i = executor
      OBVIOUS
    <3> QED
      BY <2>1, <2>8, <3>5, <3>6 DEF FindsExecutor, AnsweredPoint, Answered, NoPoint
  <2>10. (position = 1 /\ lowest = NothingLowest /\ above = NothingAbove)
         => (position = 1 /\ lowest = NothingLowest /\ above = NothingAbove)'
    BY <2>1 DEF NothingAbove, NothingLowest
  <2>11. (own = NothingOwn => (own = NothingOwn)') /\ (answer = NoPoint => (answer = NoPoint)')
    BY <2>1 DEF NothingOwn, NoPoint
  <2>12. CASE phase = "ring"
    BY <2>1, <2>2, <2>6, <2>11, <2>12 DEF SearchInv
  <2>13. CASE phase # "ring"
    BY <2>1, <2>2, <2>7, <2>8, <2>9, <2>10, <2>11, <2>13 DEF SearchInv
  <2> QED
    BY <2>12, <2>13
<1> QED
  BY <1>1, ListChangeKeeps, BeginSearchKeeps, ScanLabelKeeps, EndSearchKeeps, ScanOwnLabelKeeps,
     EndOwnScanKeeps DEF Next

-----------------------------------------------------------------------------
\* SearchInvariant: at every label that the scans pass, their minima are those
\* of the labels passed so far, in the order of HashRing.
THEOREM SearchInvariant == Spec => []SearchInv
<1> QED
  BY InitSearch, SearchStep, PTL DEF Spec

\* A point of the ring as HashRing knows it has a label on the list, and it
\* may be that of any server with its id.
LEMMA PointsOfLabels ==
    ASSUME SearchTypeOK
    PROVE  /\ \A l \in Labels :
                LET p == [server |-> IdOf(l), replica |-> l[2]]
                IN  p \in Ring!Points(ToSet(servers)) /\ Ring!PointHash(p) = HashOf(l)
           /\ \A q \in Ring!Points(ToSet(servers)) :
                /\ q.server \in Server /\ q.replica \in Replica
                /\ \E i \in 1 .. Len(servers) : servers[i] = q.server
           /\ \A q \in Ring!Points(ToSet(servers)), i \in 1 .. Len(servers) :
                servers[i] = q.server =>
                    LET l == <<i, q.replica>>
                    IN  l \in Labels /\ IdOf(l) = q.server /\ HashOf(l) = Ring!PointHash(q)
<1>1. ToSet(servers) = {servers[i] : i \in 1 .. Len(servers)}
  BY LenProperties DEF ToSet, SearchTypeOK
<1>2. ASSUME NEW l \in Labels
      PROVE  LET p == [server |-> IdOf(l), replica |-> l[2]]
             IN  p \in Ring!Points(ToSet(servers)) /\ Ring!PointHash(p) = HashOf(l)
  BY <1>1, LabelTypes DEF IdOf, HashOf, Ring!Points, Ring!PointHash, Ring!Replica, Replica
<1>3. ASSUME NEW q \in Ring!Points(ToSet(servers))
      PROVE  /\ q.server \in Server /\ q.replica \in Replica
             /\ \E i \in 1 .. Len(servers) : servers[i] = q.server
  <2>1. q.server \in ToSet(servers) /\ q.replica \in Replica
    BY DEF Ring!Points, Ring!Replica, Replica
  <2>2. PICK i \in 1 .. Len(servers) : servers[i] = q.server
    BY <1>1, <2>1
  <2> QED
    BY <2>1, <2>2, ElementOfSeq DEF SearchTypeOK
<1>4. ASSUME NEW q \in Ring!Points(ToSet(servers)), NEW i \in 1 .. Len(servers), servers[i] = q.server
      PROVE  LET l == <<i, q.replica>>
             IN  l \in Labels /\ IdOf(l) = q.server /\ HashOf(l) = Ring!PointHash(q)
  BY <1>3, <1>4 DEF Labels, IdOf, HashOf, Ring!PointHash
<1> QED
  BY <1>2, <1>3, <1>4

\* The best label is the first point, in the order of HashRing.
LEMMA BestIsFirst ==
    ASSUME SearchTypeOK, NEW l, NEW L \in SUBSET Labels, IsBest(L, l),
           NEW P \in SUBSET Ring!Points(ToSet(servers)),
           \A m \in Labels : m \in L <=> [server |-> IdOf(m), replica |-> m[2]] \in P
    PROVE  Ring!IsFirst(P, [server |-> IdOf(l), replica |-> l[2]])
<1>1. l \in Labels /\ l \in L
  BY DEF IsBest
<1>2. PICK p : p = [server |-> IdOf(l), replica |-> l[2]]
  OBVIOUS
<1>3. /\ p \in P /\ Ring!PointHash(p) = HashOf(l)
      /\ p.server = IdOf(l) /\ p.replica = l[2]
      /\ HashOf(l) \in Nat /\ IdOf(l) \in Nat /\ l[1] \in 1 .. Len(servers) /\ l[2] \in Nat /\ l[1] \in Nat
  BY <1>1, <1>2, LabelTypes, PointsOfLabels
<1>4. ASSUME NEW q \in P, Ring!Before(q, p)
      PROVE  FALSE
  <2>1. q \in Ring!Points(ToSet(servers)) /\ q = [server |-> q.server, replica |-> q.replica]
    BY DEF Ring!Points
  <2>2. PICK i \in 1 .. Len(servers) :
            servers[i] = q.server /\ (q.server = p.server => i = l[1])
    BY <1>3, <2>1, PointsOfLabels DEF IdOf
  <2>3. PICK m : m = <<i, q.replica>>
    OBVIOUS
  <2>4. /\ m \in Labels /\ IdOf(m) = q.server /\ HashOf(m) = Ring!PointHash(q)
        /\ m[1] = i /\ m[2] = q.replica
    BY <2>1, <2>2, <2>3, PointsOfLabels
  <2>5. HashOf(m) \in Nat /\ IdOf(m) \in Nat /\ m[1] \in Nat /\ m[2] \in Nat
    BY <2>4, LabelTypes
  <2>6. Preferred(m, l)
    BY <1>3, <1>4, <2>2, <2>4, <2>5 DEF Preferred, ScannedBefore, Ring!Before
  <2>7. m \in L
    BY <2>1, <2>4
  <2> QED
    BY <2>6, <2>7 DEF IsBest
<1> QED
  BY <1>2, <1>3, <1>4 DEF Ring!IsFirst

\* FindsNext: get_next_replica returns the next point on the ring, for every
\* list of servers, every assignment of hashes and every hash searched.
THEOREM FindsNext == Spec => []FindsNextReplica
<1>1. SearchInv => FindsNextReplica
  <2> SUFFICES ASSUME SearchInv
               PROVE  FindsNextReplica
    OBVIOUS
  <2>1. SearchTypeOK
    BY DEF SearchInv
  <2>2. ASSUME phase # "ring", Answered
        PROVE  Ring!IsNextReplica(Ring!Points(ToSet(servers)), hash, AnsweredPoint)
    <3>1. PICK l : l = <<answer.server, answer.replica>>
      OBVIOUS
    <3>2. /\ IsBest(IF HigherLabels(Labels) # {} THEN HigherLabels(Labels) ELSE Labels, l)
          /\ AnsweredPoint = [server |-> IdOf(l), replica |-> l[2]]
      BY <2>2, <3>1 DEF SearchInv, AnswerIsBest, AnsweredPoint, IdOf
    <3>3. PICK points : points = Ring!Points(ToSet(servers))
      OBVIOUS
    <3>4. \A m \in Labels :
              /\ [server |-> IdOf(m), replica |-> m[2]] \in points
              /\ m \in HigherLabels(Labels) <=>
                     [server |-> IdOf(m), replica |-> m[2]] \in Ring!Above(points, hash)
      BY <2>1, <3>3, PointsOfLabels DEF HigherLabels, Ring!Above
    <3>5. Ring!Above(points, hash) \subseteq points
      BY DEF Ring!Above
    <3>6. CASE HigherLabels(Labels) # {}
      <4>1. Ring!Above(points, hash) # {}
        BY <3>4, <3>6 DEF HigherLabels
      <4>2. HigherLabels(Labels) \in SUBSET Labels
        BY DEF HigherLabels
      <4>3. Ring!IsFirst(Ring!Above(points, hash), [server |-> IdOf(l), replica |-> l[2]])
        BY <2>1, <3>2, <3>3, <3>4, <3>5, <3>6, <4>2, BestIsFirst
      <4> QED
        BY <3>2, <3>3, <4>1, <4>3 DEF Ring!IsNextReplica
    <3>7. CASE HigherLabels(Labels) = {}
      <4>1. Ring!Above(points, hash) = {}
        <5>1. ASSUME NEW q \in Ring!Above(points, hash)
              PROVE  FALSE
          <6>1. q \in points /\ hash < Ring!PointHash(q)
            BY DEF Ring!Above
          <6>2. PICK i \in 1 .. Len(servers) : servers[i] = q.server
            BY <2>1, <3>3, <6>1, PointsOfLabels
          <6>3. <<i, q.replica>> \in Labels /\ HashOf(<<i, q.replica>>) = Ring!PointHash(q)
            BY <2>1, <3>3, <6>1, <6>2, PointsOfLabels
          <6> QED
            BY <3>7, <6>1, <6>3 DEF HigherLabels
        <5> QED
          BY <5>1
      <4>2. Ring!IsFirst(points, [server |-> IdOf(l), replica |-> l[2]])
        BY <2>1, <3>2, <3>3, <3>4, <3>7, BestIsFirst
      <4> QED
        BY <3>2, <3>3, <4>1, <4>2 DEF Ring!IsNextReplica
    <3> QED
      BY <3>6, <3>7
  <2>3. ASSUME phase = "ring", position > Len(servers), servers # << >>
        PROVE  lowest.server # Nobody
    <3>1. Scanned # {}
      BY <2>1, <2>3, AllScanned, SomeLabel
    <3>2. PICK l \in Labels : lowest = RecordOf(l)
      BY <2>3, <3>1 DEF SearchInv, LowestIsBest
    <3>3. l[1] \in 1 .. Len(servers) /\ Len(servers) \in Nat
      BY <2>1, LabelTypes, LenProperties DEF SearchTypeOK
    <3> QED
      BY <3>2, <3>3 DEF RecordOf, Nobody
  <2> QED
    BY <2>2, <2>3 DEF FindsNextReplica, SearchInv
<1> QED
  BY <1>1, SearchInvariant, PTL

\* FindsOwn: get_server_replica_executor returns the label that HashRing
\* describes, for every hash and every server that was found, UINT_MAX included.
THEOREM FindsOwn == Spec => []FindsExecutor
<1>1. SearchInv => FindsExecutor
  BY DEF SearchInv, FindsExecutor
<1> QED
  BY <1>1, SearchInvariant, PTL

\* NewestTwin: a document goes to the first server on the list that has the id
\* of the one found, the one added last, however many of that id there are.
THEOREM NewestTwin == Spec => []NewestTwinAnswers
<1>1. SearchInv => NewestTwinAnswers
  <2> SUFFICES ASSUME SearchInv, phase # "ring", Answered,
                      NEW p \in 1 .. answer.server - 1, servers[p] = servers[answer.server]
               PROVE  FALSE
    BY DEF NewestTwinAnswers
  <2>1. SearchTypeOK
    BY DEF SearchInv
  <2>2. PICK L : L = IF HigherLabels(Labels) # {} THEN HigherLabels(Labels) ELSE Labels
    OBVIOUS
  <2>3. PICK l : l = <<answer.server, answer.replica>>
    OBVIOUS
  <2>4. IsBest(L, l) /\ l \in Labels
    BY <2>2, <2>3 DEF SearchInv, AnswerIsBest, IsBest, HigherLabels
  <2>5. l[1] \in 1 .. Len(servers) /\ Len(servers) \in Nat /\ l[1] = answer.server
        /\ l[2] = answer.replica /\ l[2] \in Replica
    BY <2>1, <2>3, <2>4, LabelTypes, LenProperties DEF SearchTypeOK
  <2>6. PICK m : m = <<p, answer.replica>>
    OBVIOUS
  <2>7. m \in Labels /\ m[1] = p /\ m[2] = answer.replica /\ p < l[1]
    BY <2>5, <2>6 DEF Labels
  <2>8. HashOf(m) = HashOf(l) /\ IdOf(m) = IdOf(l) /\ ScannedBefore(m, l)
    BY <2>5, <2>7 DEF HashOf, IdOf, ScannedBefore
  <2>9. m \in L
    BY <2>2, <2>4, <2>7, <2>8 DEF HigherLabels, IsBest
  <2> QED
    BY <2>4, <2>8, <2>9 DEF IsBest, Preferred
<1> QED
  BY <1>1, SearchInvariant, PTL

\* Two points of one server neither of which is before the other are one.
LEMMA SameOwnPoint ==
    ASSUME SearchTypeOK, NEW s \in Server, NEW i \in Replica, NEW j \in Replica,
           NEW p, p = [server |-> s, replica |-> i],
           NEW q, q = [server |-> s, replica |-> j],
           ~ Ring!Before(p, q), ~ Ring!Before(q, p)
    PROVE  i = j
<1>1. /\ Ring!PointHash(p) = labelHash[s][i] /\ Ring!PointHash(q) = labelHash[s][j]
      /\ labelHash[s][i] \in Nat /\ labelHash[s][j] \in Nat
  <2>1. labelHash[s][i] \in 0 .. HashMax /\ labelHash[s][j] \in 0 .. HashMax
    BY DEF SearchTypeOK
  <2>2. Ring!PointHash(p) = labelHash[s][i] /\ Ring!PointHash(q) = labelHash[s][j]
    BY OwnPoints
  <2> QED
    BY <2>1, <2>2, SearchConstants
<1>2. i \in Nat /\ j \in Nat /\ p.server = q.server /\ p.replica = i /\ q.replica = j
  BY SearchConstants DEF Replica
<1> QED
  BY <1>1, <1>2 DEF Ring!Before

\* FiledWhereForwarded: the label under which a server files a document is the
\* label for which the load balancer chose the server, whatever the ring, unless
\* one of the labels of that server has the hash UINT_MAX.
THEOREM FiledWhereForwarded == Spec => []FilesWhereForwarded
<1>1. SearchInv /\ FindsNextReplica /\ FindsExecutor => FilesWhereForwarded
  <2> SUFFICES ASSUME SearchInv, FindsNextReplica, FindsExecutor, phase = "none", Answered,
                      \A i \in Replica : labelHash[AnsweredPoint.server][i] < HashMax
               PROVE  executor = answer.replica
    BY DEF FilesWhereForwarded
  <2>1. SearchTypeOK /\ executor \in Replica
    BY DEF SearchInv, SearchTypeOK
  <2>2. PICK points : points = Ring!Points(ToSet(servers))
    OBVIOUS
  <2>3. PICK s, p, e :
            /\ s = servers[answer.server]
            /\ p = [server |-> s, replica |-> answer.replica]
            /\ e = [server |-> s, replica |-> executor]
    OBVIOUS
  <2>4. AnsweredPoint = p /\ AnsweredPoint.server = s
    BY <2>3 DEF AnsweredPoint
  <2>5. /\ Ring!IsFirst(IF Ring!Above(points, hash) # {} THEN Ring!Above(points, hash) ELSE points, p)
    BY <2>2, <2>4 DEF FindsNextReplica, Ring!IsNextReplica
  <2>6. p \in points /\ Ring!Above(points, hash) \subseteq points
    BY <2>5 DEF Ring!IsFirst, Ring!Above
  <2>7. s \in Server /\ answer.replica \in Replica /\ s \in ToSet(servers)
    <3>1. p.server = s /\ p.replica = answer.replica
      BY <2>3
    <3>2. s \in ToSet(servers)
      BY <2>2, <2>6, <3>1 DEF Ring!Points
    <3> QED
      BY <2>1, <2>2, <2>6, <3>1, <3>2, PointsOfLabels
  <2>8. Ring!Points({s}) \subseteq points
    BY <2>2, <2>7 DEF Ring!Points
  <2>9. p \in Ring!Points({s}) /\ e \in Ring!Points({s})
    BY <2>1, <2>3, <2>7, OwnPoints
  <2>10. PICK found : found = {q \in Ring!Above(Ring!Points({s}), hash) : Ring!PointHash(q) < HashMax}
    OBVIOUS
  <2>11. \A q : q \in found <=> q \in Ring!Points({s}) /\ q \in Ring!Above(points, hash)
    <3>1. \A q \in Ring!Points({s}) : Ring!PointHash(q) < HashMax
      BY <2>1, <2>4, <2>7, OwnPoints
    <3> QED
      BY <2>8, <2>10, <3>1 DEF Ring!Above
  <2>12. Ring!IsFirst(IF found # {} THEN found ELSE Ring!Points({s}), e)
    BY <2>3, <2>4, <2>10 DEF FindsExecutor, Ring!IsReplicaExecutor
  <2>13. ~ Ring!Before(p, e) /\ ~ Ring!Before(e, p)
    <3>1. CASE Ring!Above(points, hash) # {}
      BY <2>5, <2>9, <2>11, <2>12, <3>1 DEF Ring!IsFirst
    <3>2. CASE Ring!Above(points, hash) = {}
      BY <2>5, <2>8, <2>9, <2>11, <2>12, <3>2 DEF Ring!IsFirst
    <3> QED
      BY <3>1, <3>2
  <2> QED
    BY <2>1, <2>3, <2>7, <2>13, SameOwnPoint
<1> QED
  BY <1>1, SearchInvariant, FindsNext, FindsOwn, PTL
=============================================================================
