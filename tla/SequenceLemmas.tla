--------------------------- MODULE SequenceLemmas ---------------------------
(* What the queues, batches and arrays of the model do to the set of their    *)
(* elements when an element is appended, taken from the front or taken out of *)
(* the middle.  The proofs about the decision workers rest on these facts.    *)
EXTENDS Integers, Sequences, FiniteSets, SequencesExt, FiniteSetTheorems, TLAPS

\* No element occurs twice.
NoRepeat(s) == \A i, j \in DOMAIN s : s[i] = s[j] => i = j

\* A sequence is a function on 1 .. Len(s), and ToSet is its range.
LEMMA SeqBasics ==
    ASSUME NEW S, NEW s \in Seq(S)
    PROVE  /\ Len(s) \in Nat /\ DOMAIN s = 1 .. Len(s)
           /\ \A i \in 1 .. Len(s) : s[i] \in S /\ s[i] \in ToSet(s)
           /\ \A x : x \in ToSet(s) <=> \E i \in 1 .. Len(s) : s[i] = x
           /\ ToSet(s) \subseteq S
<1>1. Len(s) \in Nat /\ DOMAIN s = 1 .. Len(s)
  OBVIOUS
<1>2. \A i \in 1 .. Len(s) : s[i] \in S
  OBVIOUS
<1>3. \A x : x \in ToSet(s) <=> \E i \in 1 .. Len(s) : s[i] = x
  BY <1>1 DEF ToSet
<1> QED BY <1>1, <1>2, <1>3

\* The empty sequence.
LEMMA EmptyBasics == ToSet(<<>>) = {} /\ NoRepeat(<<>>) /\ DOMAIN <<>> = {}
BY DEF ToSet, NoRepeat

\* Appending a new element.
LEMMA AppendAdds ==
    ASSUME NEW S, NEW s \in Seq(S), NEW e \in S
    PROVE  /\ Append(s, e) \in Seq(S) /\ Len(Append(s, e)) = Len(s) + 1
           /\ ToSet(Append(s, e)) = ToSet(s) \cup {e}
           /\ NoRepeat(s) /\ e \notin ToSet(s) => NoRepeat(Append(s, e))
<1> DEFINE t == Append(s, e)
<1>1. /\ t \in Seq(S) /\ Len(t) = Len(s) + 1
      /\ \A i \in 1 .. Len(s) : t[i] = s[i]
      /\ t[Len(s) + 1] = e
  OBVIOUS
<1>2. /\ DOMAIN t = 1 .. Len(s) + 1 /\ DOMAIN s = 1 .. Len(s) /\ Len(s) \in Nat
  BY <1>1, SeqBasics
<1> HIDE DEF t
<1>3. \A x : x \in ToSet(t) <=> x \in ToSet(s) \cup {e}
  BY <1>1, <1>2 DEF ToSet
<1>4. ASSUME NoRepeat(s), e \notin ToSet(s) PROVE NoRepeat(t)
  BY <1>1, <1>2, <1>4 DEF ToSet, NoRepeat
<1> QED BY <1>1, <1>3, <1>4 DEF t

\* Taking the first element.
LEMMA TailDrops ==
    ASSUME NEW S, NEW s \in Seq(S), s # <<>>
    PROVE  /\ Tail(s) \in Seq(S) /\ Len(Tail(s)) = Len(s) - 1
           /\ Head(s) \in S /\ Head(s) \in ToSet(s)
           /\ ToSet(s) = ToSet(Tail(s)) \cup {Head(s)}
           /\ NoRepeat(s) => /\ NoRepeat(Tail(s))
                             /\ ToSet(Tail(s)) = ToSet(s) \ {Head(s)}
<1> DEFINE t == Tail(s)
<1>1. /\ t \in Seq(S) /\ Len(t) = Len(s) - 1 /\ Head(s) \in S
      /\ \A i \in 1 .. Len(t) : t[i] = s[i + 1]
  OBVIOUS
<1>2. Head(s) = s[1] /\ Len(s) \in Nat /\ Len(s) > 0
  OBVIOUS
<1>3. DOMAIN s = 1 .. Len(s) /\ DOMAIN t = 1 .. Len(s) - 1
  BY <1>1, SeqBasics
<1> HIDE DEF t
<1>4. 1 \in DOMAIN s /\ Head(s) \in ToSet(s)
  BY <1>2, <1>3 DEF ToSet
<1>5. ToSet(t) \subseteq ToSet(s)
  BY <1>1, <1>2, <1>3 DEF ToSet
<1>6. ASSUME NEW x \in ToSet(s) PROVE x \in ToSet(t) \/ x = Head(s)
  <2>1. PICK i \in 1 .. Len(s) : x = s[i]
    BY <1>3 DEF ToSet
  <2>2. CASE i > 1
    <3>1. i - 1 \in DOMAIN t /\ t[i - 1] = x
      BY <1>1, <1>2, <1>3, <2>1, <2>2
    <3> QED BY <3>1 DEF ToSet
  <2> QED BY <1>2, <2>1, <2>2
<1>7. ASSUME NoRepeat(s) PROVE NoRepeat(t) /\ Head(s) \notin ToSet(t)
  <2>1. \A j \in DOMAIN t : j \in Int /\ j + 1 \in DOMAIN s /\ j + 1 # 1 /\ t[j] = s[j + 1]
    BY <1>1, <1>2, <1>3
  <2>2. \A j \in DOMAIN t : t[j] # Head(s)
    BY <1>2, <1>4, <1>7, <2>1 DEF NoRepeat
  <2>3. ASSUME NEW j \in DOMAIN t, NEW k \in DOMAIN t, t[j] = t[k] PROVE j = k
    BY <1>7, <2>1, <2>3 DEF NoRepeat
  <2> QED BY <2>2, <2>3 DEF NoRepeat, ToSet
<1> QED BY <1>1, <1>4, <1>5, <1>6, <1>7 DEF t

\* The elements of a sequence without its i-th one.
LEMMA RemoveAtElements ==
    ASSUME NEW S, NEW s \in Seq(S), NEW i \in DOMAIN s
    PROVE  /\ RemoveAt(s, i) \in Seq(S) /\ Len(RemoveAt(s, i)) = Len(s) - 1
           /\ \A j \in 1 .. Len(s) - 1 :
                 RemoveAt(s, i)[j] = IF j < i THEN s[j] ELSE s[j + 1]
<1>0. Len(s) \in Nat /\ i \in 1 .. Len(s) /\ \A j \in 1 .. Len(s) : s[j] \in S
  BY SeqBasics
<1> DEFINE l == SubSeq(s, 1, i - 1)
           r == SubSeq(s, i + 1, Len(s))
<1>1. /\ l \in Seq(S) /\ Len(l) = i - 1
      /\ \A j \in 1 .. i - 1 : l[j] = s[j]
  <2>1. \A j \in 1 .. i - 1 : s[j] \in S
    BY <1>0
  <2>2. /\ l \in Seq(S) /\ Len(l) = IF 1 <= i - 1 THEN (i - 1) - 1 + 1 ELSE 0
        /\ \A j \in 1 .. (i - 1) - 1 + 1 : l[j] = s[1 + j - 1]
    BY <1>0, <2>1
  <2> QED BY <1>0, <2>2
<1>2. /\ r \in Seq(S) /\ Len(r) = Len(s) - i
      /\ \A j \in 1 .. Len(s) - i : r[j] = s[i + j]
  <2>1. \A j \in i + 1 .. Len(s) : s[j] \in S
    BY <1>0
  <2>2. /\ r \in Seq(S)
        /\ Len(r) = IF i + 1 <= Len(s) THEN Len(s) - (i + 1) + 1 ELSE 0
        /\ \A j \in 1 .. Len(s) - (i + 1) + 1 : r[j] = s[(i + 1) + j - 1]
    BY <1>0, <2>1
  <2> QED BY <1>0, <2>2
<1> HIDE DEF l, r
<1>3. /\ l \o r \in Seq(S) /\ Len(l \o r) = Len(l) + Len(r)
      /\ \A j \in 1 .. Len(l) + Len(r) :
            (l \o r)[j] = IF j <= Len(l) THEN l[j] ELSE r[j - Len(l)]
  BY <1>1, <1>2
<1>4. RemoveAt(s, i) = l \o r
  BY DEF RemoveAt, l, r
<1> DEFINE t == l \o r
<1>5. t \in Seq(S) /\ Len(t) = Len(s) - 1
  BY <1>0, <1>1, <1>2, <1>3
<1>6. ASSUME NEW j \in 1 .. Len(s) - 1
      PROVE  t[j] = IF j < i THEN s[j] ELSE s[j + 1]
  <2>1. j \in 1 .. Len(l) + Len(r)
    BY <1>0, <1>1, <1>2
  <2>2. t[j] = IF j <= Len(l) THEN l[j] ELSE r[j - Len(l)]
    BY <1>3, <2>1
  <2> HIDE DEF t
  <2>3. CASE j < i
    <3>1. j <= Len(l) /\ j \in 1 .. i - 1
      BY <1>0, <1>1, <2>3
    <3>2. t[j] = l[j] /\ l[j] = s[j]
      BY <1>1, <2>2, <3>1
    <3> QED BY <2>3, <3>2
  <2>4. CASE ~(j < i)
    <3> DEFINE k == j - (i - 1)
    <3>1. ~(j <= Len(l)) /\ k = j - Len(l) /\ k \in 1 .. Len(s) - i /\ i + k = j + 1
      BY <1>0, <1>1, <2>4
    <3> HIDE DEF k
    <3>2. t[j] = r[k] /\ r[k] = s[i + k]
      BY <1>2, <2>2, <3>1
    <3> QED BY <2>4, <3>1, <3>2
  <2> QED BY <2>3, <2>4
<1> QED BY <1>4, <1>5, <1>6 DEF t

\* Taking an element out of the middle.
LEMMA RemoveAtDrops ==
    ASSUME NEW S, NEW s \in Seq(S), NEW i \in DOMAIN s
    PROVE  /\ RemoveAt(s, i) \in Seq(S) /\ Len(RemoveAt(s, i)) = Len(s) - 1
           /\ s[i] \in S /\ s[i] \in ToSet(s)
           /\ ToSet(s) = ToSet(RemoveAt(s, i)) \cup {s[i]}
           /\ NoRepeat(s) => /\ NoRepeat(RemoveAt(s, i))
                             /\ ToSet(RemoveAt(s, i)) = ToSet(s) \ {s[i]}
<1> DEFINE t == RemoveAt(s, i)
<1>1. /\ t \in Seq(S) /\ Len(t) = Len(s) - 1
      /\ \A j \in 1 .. Len(s) - 1 : t[j] = IF j < i THEN s[j] ELSE s[j + 1]
  BY RemoveAtElements
<1>2. /\ Len(s) \in Nat /\ i \in 1 .. Len(s) /\ s[i] \in S
      /\ DOMAIN s = 1 .. Len(s) /\ DOMAIN t = 1 .. Len(s) - 1
  BY <1>1, SeqBasics
<1> HIDE DEF t
<1>3. s[i] \in ToSet(s)
  BY <1>2 DEF ToSet
<1>4. ToSet(t) \subseteq ToSet(s)
  BY <1>1, <1>2 DEF ToSet
<1>5. ASSUME NEW x \in ToSet(s) PROVE x \in ToSet(t) \/ x = s[i]
  <2>1. PICK j \in 1 .. Len(s) : x = s[j]
    BY <1>2 DEF ToSet
  <2>2. CASE j < i
    <3>1. j \in DOMAIN t /\ t[j] = x
      BY <1>1, <1>2, <2>1, <2>2
    <3> QED BY <3>1 DEF ToSet
  <2>3. CASE j > i
    <3>1. j - 1 \in DOMAIN t /\ t[j - 1] = x
      BY <1>1, <1>2, <2>1, <2>3
    <3> QED BY <3>1 DEF ToSet
  <2> QED BY <1>2, <2>1, <2>2, <2>3
<1>6. ASSUME NoRepeat(s) PROVE NoRepeat(t) /\ s[i] \notin ToSet(t)
  <2>1. \A j \in DOMAIN t :
           LET k == IF j < i THEN j ELSE j + 1
           IN  k \in DOMAIN s /\ k # i /\ t[j] = s[k]
    BY <1>1, <1>2
  <2>2. s[i] \notin ToSet(t)
    BY <1>2, <1>6, <2>1 DEF ToSet, NoRepeat
  <2>3. ASSUME NEW j \in DOMAIN t, NEW k \in DOMAIN t, t[j] = t[k] PROVE j = k
    <3> DEFINE J == IF j < i THEN j ELSE j + 1
               K == IF k < i THEN k ELSE k + 1
    <3>1. J \in DOMAIN s /\ K \in DOMAIN s /\ s[J] = s[K]
      BY <2>1, <2>3
    <3>2. J = K
      BY <1>6, <3>1 DEF NoRepeat
    <3> QED BY <1>2, <3>2
  <2> QED BY <2>2, <2>3 DEF NoRepeat
<1> QED BY <1>1, <1>2, <1>3, <1>4, <1>5, <1>6 DEF t

\* A sequence of a finite set lists every element of it, and none twice.
LEMMA SetToSeqsLists ==
    ASSUME NEW T, IsFiniteSet(T), NEW s \in SetToSeqs(T)
    PROVE  s \in Seq(T) /\ ToSet(s) = T /\ NoRepeat(s)
<1> DEFINE n == Cardinality(T)
<1>1. n \in Nat
  BY FS_CardinalityType
<1>2. s \in [1 .. n -> T] /\ \A i, j \in 1 .. n : i # j => s[i] # s[j]
  BY DEF SetToSeqs
<1> HIDE DEF n
<1>3. s \in Seq(T) /\ DOMAIN s = 1 .. n
  BY <1>1, <1>2
<1>4. NoRepeat(s)
  BY <1>2, <1>3 DEF NoRepeat
<1>5. s \in Injection(1 .. n, T)
  BY <1>2 DEF Injection, IsInjective
<1>6. Cardinality(1 .. n) = n
  BY <1>1, FS_Interval
<1>7. s \in Surjection(1 .. n, T)
  BY <1>5, <1>6, FS_Injection DEF n
<1>8. \A x \in T : \E i \in 1 .. n : s[i] = x
  BY <1>7 DEF Surjection
<1>9. ToSet(s) = T
  BY <1>2, <1>3, <1>8 DEF ToSet
<1> QED BY <1>3, <1>4, <1>9

\* A nonempty set of naturals has a least element.
LEMMA LeastNat ==
    ASSUME NEW T, T \subseteq Nat, T # {}
    PROVE  \E k \in T : \A j \in T : k <= j
<1> DEFINE R == OpToRel(<, Nat)
<1>1. \A x, y \in Nat : x < y => <<x, y>> \in R
  BY DEF OpToRel
<1>2. IsWellFoundedOn(R, Nat)
  BY NatLessThanWellFounded
<1> HIDE DEF R
<1>3. \E k \in T : \A j \in T : ~(<<j, k>> \in R)
  BY <1>2, WFMin, Zenon
<1>4. PICK k \in T : \A j \in T : ~(<<j, k>> \in R)
  BY <1>3
<1>5. ASSUME NEW j \in T PROVE k <= j
  <2>1. j \in Nat /\ k \in Nat /\ ~(j < k)
    BY <1>1, <1>4, Zenon
  <2> QED BY <2>1
<1> QED BY <1>5

\* A sequence with an element of E has a first one.
LEMMA FirstIn ==
    ASSUME NEW S, NEW s \in Seq(S), NEW E, NEW i \in DOMAIN s, s[i] \in E
    PROVE  \E k \in DOMAIN s : s[k] \in E /\ \A j \in 1 .. k - 1 : s[j] \notin E
<1> DEFINE T == {k \in DOMAIN s : s[k] \in E}
<1>1. DOMAIN s = 1 .. Len(s) /\ Len(s) \in Nat
  BY SeqBasics
<1>2. T \subseteq Nat /\ T # {}
  BY <1>1
<1>3. PICK k \in T : \A j \in T : k <= j
  BY <1>2, LeastNat, Zenon
<1> QED BY <1>1, <1>3

=============================================================================
