-------------------------- MODULE MessageStoreProofs --------------------------
(***************************************************************************)
(* Proofs about MessageStore, for every set of messages, every window and  *)
(* every history file the first start may find.                            *)
(***************************************************************************)
EXTENDS MessageStore, DataProofs, FiniteSetTheorems, SequenceTheorems

-----------------------------------------------------------------------------
(* Windows.                                                                *)

Injective(s) == \A i, j \in 1..Len(s) : s[i] = s[j] => i = j

\* A sequence the store may show: no message twice, within the bound.
Fits(s) == s \in Seq(Messages) /\ Injective(s) /\ Len(s) <= MaxTailMessages

\* Window keeps the last elements, at most MaxTailMessages of them.
LEMMA WindowProperties ==
  ASSUME NEW S, NEW s \in Seq(S)
  PROVE  /\ Window(s) \in Seq(S)
         /\ Len(Window(s)) <= MaxTailMessages
         /\ Len(Window(s)) <= Len(s)
         /\ \A i \in 1..Len(Window(s)) : Window(s)[i] = s[Len(s) - Len(Window(s)) + i]
<1>. DEFINE first == Len(s) - MaxTailMessages + 1
<1>1. MaxTailMessages \in Nat \ {0} /\ Len(s) \in Nat
  BY WindowAssumption, LenProperties
<1>2. CASE Len(s) <= MaxTailMessages
  <2>1. Window(s) = s
    BY <1>2 DEF Window
  <2>. QED BY <1>1, <1>2, <2>1
<1>3. CASE ~ (Len(s) <= MaxTailMessages)
  <2>1. Window(s) = SubSeq(s, first, Len(s))
    BY <1>3 DEF Window
  <2>2. first \in Int /\ first \in 1..Len(s) /\ Len(s) - first + 1 = MaxTailMessages
    BY <1>1, <1>3
  <2>3. \A i \in first..Len(s) : s[i] \in S
    BY <2>2, <1>1, ElementOfSeq
  <2>4. /\ SubSeq(s, first, Len(s)) \in Seq(S)
        /\ Len(SubSeq(s, first, Len(s))) = IF first <= Len(s) THEN Len(s) - first + 1 ELSE 0
        /\ \A i \in 1..(Len(s) - first + 1) : SubSeq(s, first, Len(s))[i] = s[first + i - 1]
    BY <2>2, <2>3, <1>1, SubSeqProperties
  <2>5. Len(Window(s)) = MaxTailMessages
    BY <2>1, <2>2, <2>4, <1>1
  <2>6. ASSUME NEW i \in 1..MaxTailMessages
        PROVE  Window(s)[i] = s[Len(s) - MaxTailMessages + i]
    <3>1. Window(s)[i] = s[first + i - 1]
      BY <2>1, <2>2, <2>4
    <3>2. first + i - 1 = Len(s) - MaxTailMessages + i
      BY <1>1
    <3>. QED BY <3>1, <3>2
  <2>. QED BY <1>1, <1>3, <2>1, <2>4, <2>5, <2>6
<1>. QED BY <1>2, <1>3

\* Appending a message that is not shown and taking the window gives a window again.
LEMMA NextFits ==
  ASSUME NEW s, Fits(s), NEW m \in Messages, m \notin Elements(s)
  PROVE  Fits(Window(Append(s, m)))
<1>. DEFINE t == Append(s, m)
            w == Window(t)
<1>1. s \in Seq(Messages) /\ Len(s) \in Nat
  BY LenProperties DEF Fits
<1>2. /\ t \in Seq(Messages) /\ Len(t) = Len(s) + 1
      /\ \A i \in 1..Len(s) : t[i] = s[i]
      /\ t[Len(s) + 1] = m
  BY <1>1, AppendProperties
<1>3. Injective(t)
  <2>. SUFFICES ASSUME NEW i \in 1..Len(t), NEW j \in 1..Len(t), t[i] = t[j] PROVE i = j
    BY DEF Injective
  <2>1. \A k \in 1..Len(s) : s[k] # m
    BY DEF Elements
  <2>2. CASE i \in 1..Len(s) /\ j \in 1..Len(s)
    BY <1>2, <2>2 DEF Fits, Injective
  <2>3. CASE i = Len(s) + 1 \/ j = Len(s) + 1
    BY <1>1, <1>2, <2>1, <2>3
  <2>. QED BY <1>1, <1>2, <2>2, <2>3
<1>. HIDE DEF t
<1>4. /\ w \in Seq(Messages) /\ Len(w) <= MaxTailMessages /\ Len(w) <= Len(t)
      /\ \A i \in 1..Len(w) : w[i] = t[Len(t) - Len(w) + i]
  BY <1>2, WindowProperties
<1>. HIDE DEF w
<1>5. Len(w) \in Nat /\ Len(t) \in Nat
  BY <1>2, <1>4, LenProperties
<1>6. Injective(w)
  <2>. SUFFICES ASSUME NEW i \in 1..Len(w), NEW j \in 1..Len(w), w[i] = w[j] PROVE i = j
    BY DEF Injective
  <2>1. /\ Len(t) - Len(w) + i \in 1..Len(t)
        /\ Len(t) - Len(w) + j \in 1..Len(t)
    BY <1>4, <1>5
  <2>2. t[Len(t) - Len(w) + i] = t[Len(t) - Len(w) + j]
    BY <1>4
  <2>3. Len(t) - Len(w) + i = Len(t) - Len(w) + j
    BY <1>3, <2>1, <2>2 DEF Injective
  <2>. QED BY <2>3, <1>5
<1>7. Fits(w)
  BY <1>4, <1>6 DEF Fits
<1>. QED BY <1>7 DEF w, t

-----------------------------------------------------------------------------
(* What NewPersistentStore's loop keeps.                                   *)

\* The positions of S up to n.
UpTo(S, n) == {j \in S : j <= n}

\* Facts about sets of positions, stated for the provers' sake.
LEMMA UpToElement == \A S, p, x : x \in UpTo(S, p) <=> x \in S /\ x <= p
BY Zenon DEF UpTo

LEMMA Interval ==
  ASSUME NEW n \in Nat
  PROVE  IsFiniteSet(1..n) /\ Cardinality(1..n) = n
<1>1. 1 \in Int /\ n \in Int
  OBVIOUS
<1>2. IsFiniteSet(1..n) /\ Cardinality(1..n) = IF 1 > n THEN 0 ELSE n - 1 + 1
  BY ONLY <1>1, FS_Interval, Zenon
<1>. QED BY <1>2

\* A finite set of positions has a k-th element, for every k up to its cardinality.
LEMMA NthExists ==
  ASSUME NEW n \in Nat, NEW S \in SUBSET (1..n), NEW k \in 1..Cardinality(S)
  PROVE  Nth(S, k) \in S /\ Cardinality(UpTo(S, Nth(S, k))) = k
<1>. DEFINE Reached == {p \in Nat : \A q \in 1..Cardinality(UpTo(S, p)) :
                                       \E i \in S : Cardinality(UpTo(S, i)) = q}
<1>1. IsFiniteSet(S) /\ \A p \in Nat : IsFiniteSet(UpTo(S, p))
  <2>1. IsFiniteSet(1..n)
    BY Interval
  <2>2. IsFiniteSet(S)
    BY <2>1, FS_Subset, Zenon
  <2>3. ASSUME NEW p \in Nat PROVE IsFiniteSet(UpTo(S, p))
    <3>1. UpTo(S, p) \in SUBSET S
      BY UpToElement, Zenon
    <3>. QED BY <3>1, <2>2, FS_Subset, Zenon
  <2>. QED BY <2>2, <2>3
<1>2. 0 \in Reached
  <2>1. UpTo(S, 0) = {}
    <3>1. \A x \in S : ~ (x <= 0)
      OBVIOUS
    <3>. QED BY <3>1, UpToElement, Zenon
  <2>2. Cardinality(UpTo(S, 0)) = 0
    BY <2>1, FS_EmptySet
  <2>. QED BY <2>2
<1>3. ASSUME NEW p \in Reached PROVE p + 1 \in Reached
  <2>1. p \in Nat /\ p + 1 \in Nat
    OBVIOUS
  <2>2. CASE p + 1 \in S
    <3>1. UpTo(S, p + 1) = UpTo(S, p) \cup {p + 1} /\ p + 1 \notin UpTo(S, p)
      <4>1. \A x \in S : x \in Nat
        OBVIOUS
      <4>2. \A x \in S : x <= p + 1 <=> x <= p \/ x = p + 1
        BY <4>1, <2>1
      <4>3. ~ (p + 1 <= p)
        BY <2>1
      <4>4. \A x : x \in UpTo(S, p + 1) <=> x \in UpTo(S, p) \cup {p + 1}
        BY <4>2, <2>2, UpToElement, Zenon
      <4>5. p + 1 \notin UpTo(S, p)
        BY <4>3, UpToElement, Zenon
      <4>. QED BY <4>4, <4>5
    <3>2. Cardinality(UpTo(S, p + 1)) = Cardinality(UpTo(S, p)) + 1
      BY <3>1, <1>1, <2>1, FS_AddElement
    <3>3. Cardinality(UpTo(S, p)) \in Nat
      BY <1>1, <2>1, FS_CardinalityType
    <3>4. ASSUME NEW q \in 1..Cardinality(UpTo(S, p + 1))
          PROVE  \E i \in S : Cardinality(UpTo(S, i)) = q
      <4>1. CASE q = Cardinality(UpTo(S, p)) + 1
        BY <4>1, <3>2, <2>2
      <4>2. CASE q # Cardinality(UpTo(S, p)) + 1
        <5>1. q \in 1..Cardinality(UpTo(S, p))
          BY <4>2, <3>2, <3>3
        <5>. QED BY <5>1
      <4>. QED BY <4>1, <4>2
    <3>. QED BY <3>4, <2>1
  <2>3. CASE p + 1 \notin S
    <3>1. UpTo(S, p + 1) = UpTo(S, p)
      <4>1. \A x \in S : x \in Nat /\ x # p + 1
        BY <2>3
      <4>2. \A x \in S : x <= p + 1 <=> x <= p
        BY <4>1, <2>1
      <4>3. \A x : x \in UpTo(S, p + 1) <=> x \in UpTo(S, p)
        BY <4>2, UpToElement, Zenon
      <4>. QED BY <4>3
    <3>. QED BY <3>1, <2>1
  <2>. QED BY <2>2, <2>3
<1>4. Reached = Nat
  <2>1. Reached \in SUBSET Nat
    OBVIOUS
  <2>. HIDE DEF Reached
  <2>. QED BY <1>2, <1>3, <2>1, SetInduction
<1>5. n \in Reached
  BY <1>4
<1>6. UpTo(S, n) = S
  <2>1. \A x \in S : x <= n
    OBVIOUS
  <2>2. \A x : x \in UpTo(S, n) <=> x \in S
    BY <2>1, UpToElement, Zenon
  <2>. QED BY <2>2
<1>7. \E i \in S : Cardinality(UpTo(S, i)) = k
  BY <1>5, <1>6
<1>. QED BY <1>7 DEF Nth, UpTo

\* Whatever the history file holds, NewPersistentStore makes a window of it.
LEMMA LoadFits == ASSUME NEW file \in Files PROVE Fits(Load(file))
<1>1. MaxTailMessages \in Nat \ {0}
  BY WindowAssumption
<1>2. CASE file = Missing
  <2>1. <<>> \in Seq(Messages) /\ Len(<<>>) = 0
    BY EmptySeq
  <2>2. Load(file) = <<>>
    BY <1>2 DEF Load
  <2>. QED BY <2>1, <2>2, <1>1 DEF Fits, Injective
<1>3. CASE file # Missing
  <2>. DEFINE s == Window(file)
              K == Kept(s)
              d == Distinct(s)
  <2>1. s \in Seq(Messages \cup {NoId}) /\ Len(s) <= MaxTailMessages
    BY <1>3, WindowProperties DEF Files
  <2>2. Len(s) \in Nat
    BY <2>1, LenProperties
  <2>. HIDE DEF s
  <2>3. K \in SUBSET (1..Len(s))
    BY DEF Kept
  <2>4. Cardinality(K) \in Nat /\ Cardinality(K) <= Len(s)
    <3>1. IsFiniteSet(1..Len(s)) /\ Cardinality(1..Len(s)) = Len(s)
      BY <2>2, Interval
    <3>. QED BY <3>1, <2>3, FS_Subset, FS_CardinalityType
  <2>5. ASSUME NEW k \in 1..Cardinality(K)
        PROVE  Nth(K, k) \in K /\ Cardinality(UpTo(K, Nth(K, k))) = k
    BY <2>2, <2>3, NthExists
  <2>6. \A i \in K : s[i] \in Messages
    <3>1. \A i \in 1..Len(s) : s[i] \in Messages \cup {NoId}
      BY <2>1, ElementOfSeq
    <3>. QED BY <3>1 DEF Kept
  <2>7. d = [k \in 1..Cardinality(K) |-> s[Nth(K, k)]]
    BY DEF Distinct
  <2>8. d \in Seq(Messages) /\ Len(d) = Cardinality(K)
    <3>1. d \in [1..Cardinality(K) -> Messages]
      BY <2>5, <2>6, <2>7
    <3>. HIDE DEF d
    <3>2. d \in Seq(Messages)
      BY <3>1, <2>4, SeqDef
    <3>. QED BY <3>1, <3>2, <2>4, LenProperties
  <2>9. ASSUME NEW k \in 1..Cardinality(K), NEW l \in 1..Cardinality(K), d[k] = d[l]
        PROVE  k = l
    <3>. DEFINE i == Nth(K, k)
                j == Nth(K, l)
    <3>1. i \in K /\ j \in K /\ s[i] = s[j]
      BY <2>5, <2>7, <2>9
    <3>2. i \in 1..Len(s) /\ j \in 1..Len(s)
      BY <3>1, <2>3
    <3>3. ~ (i < j) /\ ~ (j < i)
      <4>. HIDE DEF i, j
      <4>1. i < j => i \in 1..(j - 1)
        BY <3>2
      <4>2. j < i => j \in 1..(i - 1)
        BY <3>2
      <4>3. \A x \in 1..(j - 1) : s[x] # s[j]
        BY <3>1 DEF Kept
      <4>4. \A x \in 1..(i - 1) : s[x] # s[i]
        BY <3>1 DEF Kept
      <4>. QED BY <3>1, <4>1, <4>2, <4>3, <4>4
    <3>4. i = j
      BY <3>2, <3>3
    <3>. QED BY <3>4, <2>5
  <2>10. Load(file) = d
    BY <1>3 DEF Load, s
  <2>11. Injective(d)
    BY <2>8, <2>9 DEF Injective
  <2>. HIDE DEF d, K
  <2>12. Len(d) <= MaxTailMessages
    BY <2>1, <2>2, <2>4, <2>8, <1>1
  <2>. QED BY <2>8, <2>10, <2>11, <2>12 DEF Fits
<1>. QED BY <1>2, <1>3

\* The positions of a set come in their order, and each of them comes.
LEMMA NthOrder ==
  ASSUME NEW n \in Nat, NEW S \in SUBSET (1..n)
  PROVE  /\ \A k, l \in 1..Cardinality(S) : k < l => Nth(S, k) < Nth(S, l)
         /\ \A i \in S : \E k \in 1..Cardinality(S) : Nth(S, k) = i
<1>1. IsFiniteSet(S) /\ Cardinality(S) \in Nat
  BY Interval, FS_Subset, FS_CardinalityType
<1>2. ASSUME NEW i \in S
      PROVE  /\ IsFiniteSet(UpTo(S, i)) /\ Cardinality(UpTo(S, i)) \in 1..Cardinality(S)
             /\ i \in UpTo(S, i)
  <2>1. UpTo(S, i) \in SUBSET S /\ i \in UpTo(S, i)
    <3>1. i <= i
      OBVIOUS
    <3>. QED BY <3>1, UpToElement, Zenon
  <2>2. /\ IsFiniteSet(UpTo(S, i)) /\ Cardinality(UpTo(S, i)) \in Nat
        /\ Cardinality(UpTo(S, i)) <= Cardinality(S)
    BY <1>1, <2>1, FS_Subset, FS_CardinalityType
  <2>3. Cardinality(UpTo(S, i)) # 0
    BY <2>1, <2>2, FS_EmptySet
  <2>. QED BY <1>1, <2>1, <2>2, <2>3
<1>3. ASSUME NEW i \in S, NEW j \in S, i < j
      PROVE  Cardinality(UpTo(S, i)) < Cardinality(UpTo(S, j))
  <2>1. \A x \in S : x <= i => x <= j
    BY <1>3
  <2>2. ~ (j <= i)
    BY <1>3
  <2>3. UpTo(S, i) \in SUBSET UpTo(S, j) /\ j \notin UpTo(S, i)
    BY <2>1, <2>2, UpToElement, Zenon
  <2>4. /\ Cardinality(UpTo(S, i)) <= Cardinality(UpTo(S, j))
        /\ Cardinality(UpTo(S, j)) = Cardinality(UpTo(S, i)) => UpTo(S, j) = UpTo(S, i)
    BY <1>2, <2>3, FS_Subset
  <2>5. UpTo(S, i) # UpTo(S, j)
    BY <1>2, <2>3
  <2>. QED BY <1>2, <2>4, <2>5
<1>4. \A k \in 1..Cardinality(S) : Nth(S, k) \in S /\ Cardinality(UpTo(S, Nth(S, k))) = k
  BY NthExists
<1>5. ASSUME NEW k \in 1..Cardinality(S), NEW l \in 1..Cardinality(S), k < l
      PROVE  Nth(S, k) < Nth(S, l)
  <2> DEFINE i == Nth(S, k)
             j == Nth(S, l)
  <2>1. /\ i \in S /\ j \in S
        /\ Cardinality(UpTo(S, i)) = k /\ Cardinality(UpTo(S, j)) = l
    BY <1>4
  <2> HIDE DEF i, j
  <2>2. ~ (j < i) /\ i # j
    BY <1>3, <1>5, <2>1
  <2>3. i < j
    BY <2>1, <2>2
  <2>. QED BY <2>3 DEF i, j
<1>6. ASSUME NEW i \in S PROVE \E k \in 1..Cardinality(S) : Nth(S, k) = i
  <2> DEFINE k == Cardinality(UpTo(S, i))
             j == Nth(S, k)
  <2>1. k \in 1..Cardinality(S) /\ j \in S /\ Cardinality(UpTo(S, j)) = k
    BY <1>2, <1>4
  <2> HIDE DEF j
  <2>2. ~ (j < i) /\ ~ (i < j)
    BY <1>3, <2>1
  <2>3. j = i
    BY <2>1, <2>2
  <2>. QED BY <2>1, <2>3 DEF j
<1>. QED BY <1>5, <1>6

\* t has the messages of s and no other, in the order in which s has each of them first.
Condenses(t, s) ==
  /\ Elements(t) = Elements(s) \ {NoId}
  /\ \A k, l \in 1..Len(t) : k < l =>
       \E i \in 1..Len(s) : s[i] = t[k] /\ \A j \in 1..i : s[j] # t[l]

\* Each id of a file is kept where it comes first.
LEMMA FirstIsKept ==
  ASSUME NEW S, NEW s \in Seq(S), NEW i \in 1..Len(s), s[i] # NoId
  PROVE  \E j \in Kept(s) : s[j] = s[i]
<1> DEFINE Same == {j \in 1..Len(s) : s[j] = s[i]}
<1>1. Len(s) \in Nat
  BY LenProperties
<1>2. Same \in SUBSET Nat /\ i \in Same
  OBVIOUS
<1>3. PICK j \in Same : \A k \in Same : j <= k
  <2> HIDE DEF Same
  <2> QED BY <1>2, LeastNatural
<1>4. ASSUME NEW k \in 1..(j - 1) PROVE s[k] # s[j]
  <2>1. k \in 1..Len(s) /\ ~ (j <= k)
    BY <1>1, <1>3
  <2>. QED BY <1>3, <2>1
<1>. QED BY <1>3, <1>4 DEF Kept

\* Whatever the history file holds, NewPersistentStore drops none of the last
\* MaxTailMessages entries of it but those without an id and the later of two with one.
LEMMA LoadCondenses ==
  ASSUME NEW file \in Files, file # Missing
  PROVE  Condenses(Load(file), Window(file))
<1> DEFINE s == Window(file)
           K == Kept(s)
           d == Distinct(s)
<1>1. s \in Seq(Messages \cup {NoId})
  BY WindowProperties DEF Files
<1>2. Len(s) \in Nat
  BY <1>1, LenProperties
<1>3. Load(file) = d
  BY DEF Load
<1> HIDE DEF s
<1>4. K \in SUBSET (1..Len(s))
  BY DEF Kept
<1>5. Cardinality(K) \in Nat
  BY <1>2, <1>4, Interval, FS_Subset, FS_CardinalityType
<1>6. /\ \A k \in 1..Cardinality(K) : Nth(K, k) \in K
      /\ \A k, l \in 1..Cardinality(K) : k < l => Nth(K, k) < Nth(K, l)
      /\ \A i \in K : \E k \in 1..Cardinality(K) : Nth(K, k) = i
  BY <1>2, <1>4, NthExists, NthOrder
<1>7. d = [k \in 1..Cardinality(K) |-> s[Nth(K, k)]]
  BY DEF Distinct
<1>8. Len(d) = Cardinality(K)
  BY <1>5, <1>7
<1>9. \A k \in 1..Len(d) : d[k] = s[Nth(K, k)]
  BY <1>7, <1>8
<1> HIDE DEF d, K
<1>10. Elements(d) \subseteq Elements(s) \ {NoId}
  <2>1. ASSUME NEW k \in 1..Len(d) PROVE d[k] \in Elements(s) \ {NoId}
    <3>1. Nth(K, k) \in K
      BY <1>6, <1>8
    <3>2. Nth(K, k) \in 1..Len(s) /\ s[Nth(K, k)] # NoId
      BY <3>1 DEF K, Kept
    <3>. QED BY <1>9, <3>2 DEF Elements
  <2>. QED BY <2>1 DEF Elements
<1>11. Elements(s) \ {NoId} \subseteq Elements(d)
  <2>1. ASSUME NEW i \in 1..Len(s), s[i] # NoId PROVE s[i] \in Elements(d)
    <3>1. PICK j \in K : s[j] = s[i]
      BY <1>1, <2>1, FirstIsKept DEF K
    <3>2. PICK k \in 1..Cardinality(K) : Nth(K, k) = j
      BY <1>6
    <3>3. k \in 1..Len(d) /\ d[k] = s[i]
      BY <1>8, <1>9, <3>1, <3>2
    <3>. QED BY <3>3 DEF Elements
  <2>. QED BY <2>1 DEF Elements
<1>12. ASSUME NEW k \in 1..Len(d), NEW l \in 1..Len(d), k < l
       PROVE  \E i \in 1..Len(s) : s[i] = d[k] /\ \A j \in 1..i : s[j] # d[l]
  <2> DEFINE i == Nth(K, k)
             m == Nth(K, l)
  <2>1. i \in K /\ m \in K /\ i < m /\ d[k] = s[i] /\ d[l] = s[m]
    BY <1>6, <1>8, <1>9, <1>12
  <2> HIDE DEF i, m
  <2>2. i \in 1..Len(s) /\ m \in 1..Len(s) /\ \A j \in 1..(m - 1) : s[j] # s[m]
    BY <2>1 DEF K, Kept
  <2>3. ASSUME NEW j \in 1..i PROVE s[j] # d[l]
    <3>1. j \in 1..(m - 1)
      BY <2>1, <2>2
    <3>. QED BY <2>1, <2>2, <3>1
  <2>. QED BY <2>1, <2>2, <2>3
<1>13. Condenses(d, s)
  BY <1>10, <1>11, <1>12 DEF Condenses
<1>. QED BY <1>3, <1>13 DEF s

\* A window that was persisted is loaded as it is.
LEMMA LoadsBack == ASSUME NEW s, Fits(s) PROVE s \in Files /\ s # Missing /\ Load(s) = s
<1>1. s \in Seq(Messages) /\ Len(s) \in Nat /\ Len(s) <= MaxTailMessages
  BY LenProperties DEF Fits
<1>2. s \in Seq(Messages \cup {NoId})
  BY <1>1, SeqMonotonic
<1>3. s \in Files /\ s # Missing
  BY <1>2, FileAssumption DEF Files
<1>4. Window(s) = s
  BY <1>1 DEF Window
<1>5. Kept(s) = 1..Len(s)
  <2>1. ASSUME NEW i \in 1..Len(s) PROVE i \in Kept(s)
    <3>1. s[i] # NoId
      BY <1>1, ElementOfSeq, FileAssumption
    <3>2. ASSUME NEW j \in 1..(i - 1) PROVE s[j] # s[i]
      <4>1. j \in 1..Len(s) /\ i # j
        BY <1>1
      <4>. QED BY <4>1 DEF Fits, Injective
    <3>. QED BY <3>1, <3>2 DEF Kept
  <2>. QED BY <2>1 DEF Kept
<1>6. Cardinality(1..Len(s)) = Len(s)
  BY <1>1, Interval
<1>7. ASSUME NEW k \in 1..Len(s) PROVE Nth(1..Len(s), k) = k
  <2>. DEFINE i == Nth(1..Len(s), k)
  <2>1. i \in 1..Len(s) /\ Cardinality(UpTo(1..Len(s), i)) = k
    BY <1>1, <1>6, NthExists
  <2>. HIDE DEF i
  <2>2. UpTo(1..Len(s), i) = 1..i
    <3>1. \A x : x \in 1..Len(s) /\ x <= i <=> x \in 1..i
      BY <2>1, <1>1
    <3>. QED BY <3>1, UpToElement, Zenon
  <2>3. Cardinality(1..i) = i
    BY <2>1, <1>1, Interval
  <2>. QED BY <2>1, <2>2, <2>3 DEF i
<1>8. Distinct(s) = [k \in 1..Len(s) |-> s[k]]
  BY <1>5, <1>6, <1>7 DEF Distinct
<1>9. s = [k \in 1..Len(s) |-> s[k]]
  BY <1>1, LenProperties
<1>. QED BY <1>3, <1>4, <1>8, <1>9 DEF Load

-----------------------------------------------------------------------------
(* The inductive invariant: what the file holds at each step of an append. *)

\* Between the reading of the history and the replacement of its file.
Unreplaced == {"ready", "writing", "renaming", "removing", "retrying"}

IInv ==
  /\ TypeOK
  /\ Fits(msgs) /\ byID = Elements(msgs)
  /\ Fits(next)
  /\ pc \in {"renaming", "removing", "retrying"} => tmp = next
  /\ pc = "committing" => disk = next
  /\ pc \in Unreplaced => disk = Missing \/ Load(disk) = msgs
  /\ result = "inserted" => pc = "ready" /\ Load(disk) = msgs

\* Windows are sequences of messages, and so are files.
LEMMA FitsType ==
  ASSUME NEW s, Fits(s)
  PROVE  s \in Seq(Messages) /\ s \in Files /\ s # Missing /\ Load(s) = s
BY LoadsBack DEF Fits

LEMMA EmptyFits == Fits(<<>>) /\ Elements(<<>>) = {}
<1>1. <<>> \in Seq(Messages) /\ Len(<<>>) = 0
  BY EmptySeq
<1>. QED BY <1>1, WindowAssumption DEF Fits, Injective, Elements

LEMMA ElementsType == ASSUME NEW s \in Seq(Messages) PROVE Elements(s) \subseteq Messages
BY ElementOfSeq DEF Elements

LEMMA IInvInit == Init => IInv
<1>. SUFFICES ASSUME Init PROVE IInv
  OBVIOUS
<1>1. disk \in Files
  BY FileAssumption DEF Init
<1>2. tmp \in Seq(Messages) \cup {Missing, Torn}
  BY DEF Init
<1>. QED BY <1>1, <1>2, EmptyFits, FitsType DEF Init, IInv, TypeOK, Steps, Unreplaced

LEMMA IInvStep == IInv /\ [Next]_vars => IInv'
<1>. SUFFICES ASSUME IInv, [Next]_vars PROVE IInv'
  OBVIOUS
<1>. USE DEF IInv, TypeOK, Steps, Unreplaced
<1>1. CASE Open
  <2>1. Fits(Load(disk)) /\ Load(disk) \in Seq(Messages)
    BY LoadFits, FitsType
  <2>2. Elements(Load(disk)) \subseteq Messages
    BY <2>1, ElementsType
  <2>. QED BY <1>1, <2>1, <2>2 DEF Open
<1>2. ASSUME NEW m \in Messages, Begin(m) PROVE IInv'
  <2>1. Fits(Window(Append(msgs, m)))
    BY <1>2, NextFits DEF Begin
  <2>2. Window(Append(msgs, m)) \in Seq(Messages)
    BY <2>1, FitsType
  <2>. QED BY <1>2, <2>1, <2>2 DEF Begin
<1>3. CASE WriteNew
  BY <1>3 DEF WriteNew
<1>4. CASE WriteNewFails
  BY <1>4 DEF WriteNewFails
<1>5. CASE Replace
  <2>1. disk' = next /\ next \in Files
    BY <1>5, FitsType DEF Replace
  <2>. QED BY <1>5, <2>1 DEF Replace
<1>6. CASE RenameFails
  BY <1>6 DEF RenameFails
<1>7. CASE RemoveOld
  <2>1. Missing \in Files
    BY DEF Files
  <2>. QED BY <1>7, <2>1 DEF RemoveOld
<1>8. CASE RemoveOldFails
  BY <1>8 DEF RemoveOldFails
<1>9. CASE RetryFails
  BY <1>9 DEF RetryFails
<1>10. CASE Commit
  <2>1. Load(disk) = next /\ Elements(next) \subseteq Messages
    BY <1>10, FitsType, ElementsType DEF Commit
  <2>. QED BY <1>10, <2>1 DEF Commit
<1>11. CASE Crash
  <2>1. tmp' \in Seq(Messages) \cup {Missing, Torn}
    BY <1>11 DEF Crash
  <2>2. <<>> \in Seq(Messages)
    BY EmptyFits, FitsType
  <2>. QED BY <1>11, <2>1, <2>2, EmptyFits DEF Crash
<1>12. CASE UNCHANGED vars
  BY <1>12 DEF vars
<1>. QED
  BY <1>1, <1>2, <1>3, <1>4, <1>5, <1>6, <1>7, <1>8, <1>9, <1>10, <1>11, <1>12 DEF Next

THEOREM StoreInvariant == Spec => []IInv
BY IInvInit, IInvStep, PTL DEF Spec

-----------------------------------------------------------------------------
(* What it implies.                                                        *)

\* Every variable keeps its type, whatever history file the engine starts on.
THEOREM StoreTypes == Spec => []TypeOK
<1>1. IInv => TypeOK
  BY DEF IInv
<1>. QED BY <1>1, StoreInvariant, PTL

\* store.go: byID and msgs never disagree, whatever fails and whatever file was read.
THEOREM IndexMatchesWindow == Spec => []WindowIndexed
<1>1. IInv => WindowIndexed
  BY DEF IInv, Fits, Injective, WindowIndexed
<1>. QED BY <1>1, StoreInvariant, PTL

\* store.go, NewPersistentStore: an engine that starts on a history has, of its last
\* MaxTailMessages entries, every message, once, in the order of the file.
StartsOnHistory == Open /\ disk # Missing => Condenses(msgs', Window(disk))

THEOREM StartKeepsHistory == Spec => [][StartsOnHistory]_vars
<1>1. IInv /\ [Next]_vars => [StartsOnHistory]_vars
  BY LoadCondenses DEF IInv, TypeOK, Open, StartsOnHistory
<1>. QED BY <1>1, StoreInvariant, PTL DEF Spec

\* store.go, persistLocked: the file is one window or the other, or is gone.
THEOREM NeverHalf == Spec => []AllOrNothing
<1>1. IInv => AllOrNothing
  <2>. SUFFICES ASSUME IInv, pc # "down" PROVE disk = Missing \/ Load(disk) \in {msgs, next}
    BY DEF AllOrNothing
  <2>1. CASE pc = "committing"
    BY <2>1, FitsType DEF IInv
  <2>2. CASE pc # "committing"
    BY <2>2 DEF IInv, TypeOK, Steps, Unreplaced
  <2>. QED BY <2>1, <2>2
<1>. QED BY <1>1, StoreInvariant, PTL

-----------------------------------------------------------------------------
(* Refinement of the durable log.                                          *)

\* What is being persisted is one message more, and the old file is what is shown, or
\* was removed for a rename that failed.
Replacing ==
  /\ pc \in {"removing", "retrying"} => RenameCanFail
  /\ pc \in {"ready", "writing", "renaming", "removing", "retrying"} =>
       Load(disk) = msgs \/ (RenameCanFail /\ disk = Missing)
  /\ pc \in {"writing", "renaming", "removing", "retrying"} =>
       \E m \in Messages : m \notin Elements(msgs) /\ next = Window(Append(msgs, m))

LEMMA ReplacingInit == Init => Replacing
BY DEF Init, Replacing

LEMMA ReplacingStep == IInv /\ Replacing /\ [Next]_vars => Replacing'
<1>. SUFFICES ASSUME IInv, Replacing, [Next]_vars PROVE Replacing'
  OBVIOUS
<1>1. byID = Elements(msgs) /\ pc \in Steps
  BY DEF IInv, TypeOK
<1>2. CASE Open
  BY <1>2 DEF Open, Replacing
<1>3. ASSUME NEW m \in Messages, Begin(m) PROVE Replacing'
  BY <1>1, <1>3 DEF Begin, Replacing
<1>4. CASE WriteNew \/ WriteNewFails
  BY <1>4 DEF WriteNew, WriteNewFails, Replacing
<1>5. CASE Replace
  BY <1>5 DEF Replace, Replacing
<1>6. CASE RenameFails \/ RemoveOld \/ RemoveOldFails \/ RetryFails
  BY <1>6 DEF RenameFails, RemoveOld, RemoveOldFails, RetryFails, Replacing
<1>7. CASE Commit
  <2>1. Load(disk) = next
    BY <1>7, FitsType DEF Commit, IInv
  <2>. QED BY <1>7, <2>1 DEF Commit, Replacing
<1>8. CASE Crash
  BY <1>8 DEF Crash, Replacing
<1>9. CASE UNCHANGED vars
  BY <1>9 DEF vars, Replacing
<1>. QED BY <1>2, <1>3, <1>4, <1>5, <1>6, <1>7, <1>8, <1>9 DEF Next

\* A step of the store is a step of the log, or none.
LEMMA StepImplementsLog == IInv /\ Replacing /\ [Next]_vars => [Log!Next]_(Log!vars)
<1>. SUFFICES ASSUME IInv, Replacing, [Next]_vars PROVE [Log!Next]_(Log!vars)
  OBVIOUS
<1>. USE DEF Log!Next, Log!vars
<1>1. CASE Open
  <2>1. msgs' = Load(disk) /\ disk' = disk
    BY <1>1 DEF Open
  <2>2. Log!Show
    BY <2>1 DEF Log!Show
  <2>. QED BY <2>2
<1>2. CASE Replace
  <2>1. pc \in {"renaming", "retrying"} /\ tmp = next /\ disk' = next /\ msgs' = msgs
    BY <1>2 DEF Replace, IInv
  <2>2. PICK m \in Messages : m \notin Elements(msgs) /\ next = Window(Append(msgs, m))
    BY <2>1 DEF Replacing
  <2>3. Load(disk') = next
    BY <2>1, FitsType DEF IInv
  <2>4. Load(disk) = msgs \/ (RenameCanFail /\ Load(disk) = <<>>)
    BY <2>1 DEF Replacing, Load
  <2>5. Log!Record(m)
    BY <2>1, <2>2, <2>3, <2>4 DEF Log!Record, Log!Elements, Elements, Log!Window, Window
  <2>. QED BY <2>5
<1>3. CASE RemoveOld
  <2>1. RenameCanFail /\ Load(disk') = <<>> /\ msgs' = msgs
    BY <1>3 DEF RemoveOld, Replacing, Load
  <2>2. Log!Lose
    BY <2>1 DEF Log!Lose
  <2>. QED BY <2>2
<1>4. CASE Commit
  <2>1. Load(disk) = next /\ disk' = disk /\ msgs' = next
    BY <1>4, FitsType DEF Commit, IInv
  <2>2. Log!Show
    BY <2>1 DEF Log!Show
  <2>. QED BY <2>2
<1>5. CASE Crash
  <2>1. Log!Stop
    BY <1>5 DEF Crash, Log!Stop
  <2>. QED BY <2>1
<1>6. CASE \/ \E m \in Messages : Begin(m)
           \/ WriteNew \/ WriteNewFails \/ UNCHANGED vars
           \/ RenameFails \/ RemoveOldFails \/ RetryFails
  <2>1. disk' = disk /\ msgs' = msgs
    BY <1>6 DEF Begin, WriteNew, WriteNewFails, RenameFails, RemoveOldFails, RetryFails, vars
  <2>. QED BY <2>1
<1>. QED BY <1>1, <1>2, <1>3, <1>4, <1>5, <1>6 DEF Next

\* The store implements the durable log: an append reaches the disk whole or not at
\* all, a stop at any moment costs nothing that was recorded, and a failing rename costs
\* all of it or nothing.
THEOREM StoreImplementsLog == Spec => ImplementsLog
<1>1. Init => Log!Init
  <2>. SUFFICES ASSUME Init PROVE Log!Init
    OBVIOUS
  <2>1. Load(disk) \in Seq(Messages)
    BY LoadFits, FitsType, FileAssumption DEF Init
  <2>. QED BY <2>1 DEF Init, Log!Init
<1>2. IInv /\ Replacing /\ [Next]_vars => Replacing'
  BY ReplacingStep
<1>3. IInv /\ Replacing /\ [Next]_vars => [Log!Next]_(Log!vars)
  BY StepImplementsLog
<1>. QED BY <1>1, <1>2, <1>3, ReplacingInit, StoreInvariant, PTL DEF Spec, ImplementsLog, Log!Spec

\* The comment on NewPersistentStore holds where os.Rename replaces an existing file.
THEOREM AtomicWhereRenameReplaces == ASSUME ~ RenameCanFail PROVE Spec => []AppendIsAtomic
<1>1. IInv /\ Replacing => AppendIsAtomic
  <2>. SUFFICES ASSUME IInv, Replacing, pc # "down" PROVE Load(disk) \in {msgs, next}
    BY DEF AppendIsAtomic
  <2>1. CASE pc = "committing"
    BY <2>1, FitsType DEF IInv
  <2>2. CASE pc # "committing"
    BY <2>2 DEF IInv, TypeOK, Steps, Replacing
  <2>. QED BY <2>1, <2>2
<1>2. IInv /\ Replacing /\ [Next]_vars => Replacing'
  BY ReplacingStep
<1>. QED BY <1>1, <1>2, ReplacingInit, StoreInvariant, PTL DEF Spec

-----------------------------------------------------------------------------
(* What may be taken from the history.                                     *)

\* A window that takes one message more loses at most its oldest.
LEMMA WindowLoses ==
  ASSUME NEW s, Fits(s), NEW m \in Messages
  PROVE  \/ Elements(s) \subseteq Elements(Window(Append(s, m)))
         \/ /\ Len(s) = MaxTailMessages
            /\ \A i \in 2..MaxTailMessages : s[i] \in Elements(Window(Append(s, m)))
<1>. DEFINE t == Append(s, m)
            w == Window(t)
            n == MaxTailMessages
<1>1. s \in Seq(Messages) /\ Len(s) \in Nat /\ Len(s) <= n /\ n \in Nat \ {0}
  BY LenProperties, WindowAssumption DEF Fits
<1>2. /\ t \in Seq(Messages) /\ Len(t) = Len(s) + 1
      /\ \A i \in 1..Len(s) : t[i] = s[i]
  BY <1>1, AppendProperties
<1>. HIDE DEF t
<1>3. CASE Len(s) # n
  <2>1. w = t
    BY <1>1, <1>2, <1>3 DEF Window
  <2>2. \A i \in 1..Len(s) : i \in 1..Len(w) /\ w[i] = s[i]
    BY <1>1, <1>2, <2>1
  <2>. QED BY <2>2 DEF Elements, t
<1>4. CASE Len(s) = n
  <2>1. w = SubSeq(t, 2, Len(t))
    BY <1>1, <1>2, <1>4 DEF Window
  <2>2. \A i \in 2..Len(t) : t[i] \in Messages
    BY <1>2, ElementOfSeq
  <2>3. 2 \in 1..Len(t) /\ Len(t) \in Int /\ Len(t) - 2 + 1 = n
    BY <1>1, <1>2, <1>4
  <2>4. /\ Len(w) = n
        /\ \A i \in 1..n : w[i] = t[2 + i - 1]
    BY <1>1, <1>2, <2>1, <2>2, <2>3, SubSeqProperties
  <2>. HIDE DEF w
  <2>5. ASSUME NEW i \in 2..n PROVE s[i] \in Elements(w)
    <3>1. i - 1 \in 1..n /\ 2 + (i - 1) - 1 = i /\ i \in 1..Len(s)
      BY <1>1, <1>4
    <3>2. w[i - 1] = s[i]
      BY <1>2, <2>4, <3>1
    <3>. QED BY <2>4, <3>1, <3>2 DEF Elements
  <2>. QED BY <1>4, <2>5 DEF w, t
<1>. QED BY <1>3, <1>4

\* What a step leaves of the history: all of it, all but the oldest, or (once a rename
\* has failed) nothing.
Leaves ==
  \/ Elements(Load(disk)) \subseteq Elements(Load(disk'))
  \/ /\ Len(Load(disk)) = MaxTailMessages
     /\ \A i \in 2..MaxTailMessages : Load(disk)[i] \in Elements(Load(disk'))
  \/ pc = "removing" /\ disk' = Missing

\* store.go, AppendPersistent: an append that returned true outlives the engine, until
\* MaxTailMessages others were recorded or a failing rename cost the whole history.
THEOREM InsertedSurvives == Spec => InsertedIsDurable
<1>1. IInv => (result = "inserted" => Load(disk) = msgs)
  BY DEF IInv
<1>2. IInv /\ Replacing /\ [Next]_vars => Leaves
  <2>. SUFFICES ASSUME IInv, Replacing, [Next]_vars PROVE Leaves
    OBVIOUS
  <2>1. CASE Replace
    <3>1. pc \in {"renaming", "retrying"} /\ disk' = next /\ Load(disk') = next
      BY <2>1, FitsType DEF Replace, IInv
    <3>2. PICK m \in Messages : next = Window(Append(msgs, m))
      BY <3>1 DEF Replacing
    <3>3. CASE Load(disk) = msgs
      BY <3>1, <3>2, <3>3, WindowLoses DEF IInv, Leaves
    <3>4. CASE disk = Missing
      <4>1. Load(disk) = <<>>
        BY <3>4 DEF Load
      <4>. QED BY <4>1, EmptyFits DEF Leaves
    <3>. QED BY <3>1, <3>3, <3>4 DEF Replacing
  <2>2. CASE RemoveOld
    BY <2>2 DEF RemoveOld, Leaves
  <2>3. CASE \/ Open \/ (\E m \in Messages : Begin(m))
             \/ WriteNew \/ WriteNewFails \/ RenameFails
             \/ RemoveOldFails \/ RetryFails \/ Commit \/ Crash \/ UNCHANGED vars
    <3>1. disk' = disk
      BY <2>3 DEF Open, Begin, WriteNew, WriteNewFails, RenameFails, RemoveOldFails,
                  RetryFails, Commit, Crash, vars
    <3>. QED BY <3>1 DEF Leaves
  <2>. QED BY <2>1, <2>2, <2>3 DEF Next
<1>3. IInv /\ Replacing /\ [Next]_vars => Replacing'
  BY ReplacingStep
<1>4. Spec => []IInv /\ [][Leaves]_vars
  <2>1. IInv /\ Replacing /\ [Next]_vars => [Leaves]_vars
    BY <1>2
  <2>. QED BY <1>3, <2>1, ReplacingInit, StoreInvariant, PTL DEF Spec
<1>. QED BY <1>1, <1>4, PTL DEF InsertedIsDurable, Leaves
=============================================================================
