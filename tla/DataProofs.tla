----------------------------- MODULE DataProofs -----------------------------
(***************************************************************************)
(* Facts about data that several components' proofs rest on: induction     *)
(* over the naturals, stated about a set of naturals rather than about a   *)
(* predicate, so that first-order provers can use it; and what Only keeps  *)
(* of a sequence.                                                          *)
(***************************************************************************)
EXTENDS Integers, Lists, TLAPS, WellFoundedInduction

\* A set of naturals that is not empty has a least element.
LEMMA LeastNatural ==
  ASSUME NEW T \in SUBSET Nat, T # {}
  PROVE  \E x \in T : \A y \in T : x <= y
<1>1. PICK R : R = OpToRel(<, Nat)
  OBVIOUS
<1>2. IsWellFoundedOn(R, Nat)
  BY <1>1, NatLessThanWellFounded, Zenon
<1>3. R = {ss \in Nat \X Nat : ss[1] < ss[2]}
  BY <1>1 DEF OpToRel
<1>4. PICK x \in T : \A y \in T : ~ (<<y, x>> \in R)
  BY <1>2, WFMin, Zenon
<1>5. x \in Nat
  OBVIOUS
<1>6. ASSUME NEW y \in T PROVE x <= y
  <2>1. y \in Nat
    OBVIOUS
  <2>2. <<y, x>> \notin R
    BY <1>4
  <2>3. <<y, x>> \in Nat \X Nat
    BY <1>5, <2>1
  <2>4. ~ (y < x)
    BY <1>3, <2>2, <2>3
  <2>. QED BY <1>5, <2>1, <2>4
<1>. QED BY <1>6

\* A set that holds 0, and n+1 whenever it holds n, holds every natural.
LEMMA SetInduction ==
  ASSUME NEW S \in SUBSET Nat, 0 \in S, \A n \in S : n + 1 \in S
  PROVE  S = Nat
<1>. SUFFICES ASSUME Nat \ S # {} PROVE FALSE
  OBVIOUS
<1>1. PICK x \in Nat \ S : \A y \in Nat \ S : x <= y
  BY LeastNatural
<1>2. x - 1 \in Nat /\ x - 1 + 1 = x /\ x - 1 < x
  BY <1>1
<1>3. x - 1 \in S
  BY <1>1, <1>2
<1>. QED BY <1>1, <1>2, <1>3
-----------------------------------------------------------------------------
(* Sequences that are folded, and filtered.                                *)

\* What a sequence is folded into exists: f starts with b, and g makes each value of the
\* one before.
LEMMA Fold ==
  ASSUME NEW T, NEW b \in T, NEW n \in Nat, NEW g \in [1..n -> [T -> T]]
  PROVE  \E f \in [0..n -> T] : f[0] = b /\ \A i \in 1..n : f[i] = g[i][f[i - 1]]
  <1> DEFINE Upto(k) == {f \in [0..k -> T] :
                           f[0] = b /\ \A i \in 1..k : f[i] = g[i][f[i - 1]]}
             S == {k \in Nat : k <= n => Upto(k) # {}}
  <1>1. 0 \in S
    <2> DEFINE f == [i \in 0..0 |-> b]
    <2>1. f \in [0..0 -> T] /\ f[0] = b
      OBVIOUS
    <2>2. 1..0 = {}
      OBVIOUS
    <2>3. f \in Upto(0)
      BY <2>1, <2>2
    <2> QED BY <2>3
  <1>2. ASSUME NEW k \in S PROVE k + 1 \in S
    <2> SUFFICES ASSUME k + 1 <= n PROVE Upto(k + 1) # {}
      <3> HIDE DEF Upto
      <3> QED OBVIOUS
    <2>1. PICK f \in [0..k -> T] : f[0] = b /\ \A i \in 1..k : f[i] = g[i][f[i - 1]]
      BY <1>2
    <2> DEFINE h == [i \in 0..(k + 1) |-> IF i = k + 1 THEN g[k + 1][f[k]] ELSE f[i]]
    <2>2. g[k + 1][f[k]] \in T
      BY <2>1
    <2>3. h \in [0..(k + 1) -> T] /\ h[0] = b
      BY <2>1, <2>2
    <2>4. ASSUME NEW i \in 1..(k + 1) PROVE h[i] = g[i][h[i - 1]]
      <3>1. CASE i = k + 1
        <4>1. h[i] = g[k + 1][f[k]] /\ h[i - 1] = f[k]
          BY <3>1
        <4> QED BY <3>1, <4>1
      <3>2. CASE i \in 1..k
        <4>1. h[i] = f[i] /\ h[i - 1] = f[i - 1]
          BY <3>2
        <4> QED BY <2>1, <3>2, <4>1
      <3> QED BY <3>1, <3>2
    <2> QED BY <2>3, <2>4
  <1> HIDE DEF Upto
  <1>3. S = Nat
    <2> S \in SUBSET Nat OBVIOUS
    <2> HIDE DEF S
    <2> QED BY <1>1, <1>2, SetInduction
  <1>4. Upto(n) # {}
    BY <1>3
  <1> QED BY <1>4 DEF Upto

LEMMA ElementsAppend ==
  ASSUME NEW T, NEW s \in Seq(T), NEW x \in T
  PROVE  Elements(Append(s, x)) = Elements(s) \cup {x}
  <1>1. /\ Len(Append(s, x)) = Len(s) + 1 /\ Len(s) \in Nat
        /\ \A i \in 1..Len(s) : Append(s, x)[i] = s[i]
        /\ Append(s, x)[Len(s) + 1] = x
    OBVIOUS
  <1>2. 1..(Len(s) + 1) = (1..Len(s)) \cup {Len(s) + 1}
    BY <1>1
  <1> QED BY <1>1, <1>2 DEF Elements

\* What Only keeps: the members of the set, and all of them.
LEMMA OnlyFacts ==
  ASSUME NEW T, NEW s \in Seq(T), NEW S
  PROVE  Only(s, S) \in Seq(T \cap S) /\ Elements(Only(s, S)) = Elements(s) \cap S
  <1> DEFINE n == Len(s)
             Is(f) == f = [i \in 0..n |->
                             IF i = 0 THEN <<>>
                             ELSE IF s[i] \in S THEN Append(f[i - 1], s[i]) ELSE f[i - 1]]
             kept == CHOOSE f : Is(f)
             g == [i \in 1..n |-> [t \in Seq(T) |-> IF s[i] \in S THEN Append(t, s[i]) ELSE t]]
  <1>1. n \in Nat /\ \A i \in 1..n : s[i] \in T
    OBVIOUS
  <1>2. g \in [1..n -> [Seq(T) -> Seq(T)]]
    BY <1>1
  <1>3. PICK f \in [0..n -> Seq(T)] : f[0] = <<>> /\ \A i \in 1..n : f[i] = g[i][f[i - 1]]
    <2> DEFINE b == <<>>
               Q == Seq(T)
    <2>1. b \in Q /\ n \in Nat /\ g \in [1..n -> [Q -> Q]]
      BY <1>1, <1>2
    <2> HIDE DEF g, n, b, Q, kept, Is
    <2>2. \E f \in [0..n -> Q] : f[0] = b /\ \A i \in 1..n : f[i] = g[i][f[i - 1]]
      BY <2>1, Fold
    <2> QED BY <2>2 DEF b, Q
  <1>4. Is(f)
    <2>1. ASSUME NEW i \in 0..n
          PROVE  f[i] = IF i = 0 THEN <<>>
                        ELSE IF s[i] \in S THEN Append(f[i - 1], s[i]) ELSE f[i - 1]
      <3>1. CASE i = 0
        BY <1>3, <3>1
      <3>2. CASE i \in 1..n
        <4>1. i - 1 \in 0..n /\ f[i - 1] \in Seq(T)
          <5>1. i - 1 \in 0..n
            BY <1>1, <3>2
          <5> HIDE DEF g
          <5> QED BY <1>3, <5>1
        <4>2. g[i][f[i - 1]] = IF s[i] \in S THEN Append(f[i - 1], s[i]) ELSE f[i - 1]
          BY <3>2, <4>1
        <4> QED BY <1>3, <3>2, <4>2
      <3> QED BY <1>1, <3>1, <3>2
    <2> QED BY <1>3, <2>1
  <1>5. Is(kept)
    BY <1>4
  <1>6. /\ kept[0] = <<>>
        /\ \A i \in 1..n : kept[i] = IF s[i] \in S THEN Append(kept[i - 1], s[i]) ELSE kept[i - 1]
    <2> DEFINE body(k, i) == IF i = 0 THEN <<>>
                             ELSE IF s[i] \in S THEN Append(k[i - 1], s[i]) ELSE k[i - 1]
    <2>1. kept = [i \in 0..n |-> body(kept, i)]
      BY <1>5
    <2> HIDE DEF kept, body
    <2>2. \A i \in 0..n : kept[i] = body(kept, i)
      BY <2>1
    <2>3. kept[0] = <<>>
      BY <1>1, <2>2 DEF body
    <2>4. ASSUME NEW i \in 1..n
          PROVE  kept[i] = IF s[i] \in S THEN Append(kept[i - 1], s[i]) ELSE kept[i - 1]
      <3>1. i \in 0..n /\ i # 0
        BY <1>1
      <3> QED BY <2>2, <3>1 DEF body
    <2> QED BY <2>3, <2>4
  <1>7. Only(s, S) = kept[n]
    BY DEF Only
  <1> DEFINE Upto(i) == {s[j] : j \in 1..i} \cap S
             I == {i \in Nat : i <= n => kept[i] \in Seq(T \cap S) /\ Elements(kept[i]) = Upto(i)}
  <1> HIDE DEF kept, n
  <1>8. 0 \in I
    <2>1. <<>> \in Seq(T \cap S) /\ Elements(<<>>) = {} /\ Upto(0) = {}
      BY DEF Elements
    <2> QED BY <1>6, <2>1
  <1>9. ASSUME NEW i \in I PROVE i + 1 \in I
    <2> SUFFICES ASSUME i + 1 <= n
                 PROVE  kept[i + 1] \in Seq(T \cap S) /\ Elements(kept[i + 1]) = Upto(i + 1)
      OBVIOUS
    <2>1. kept[i] \in Seq(T \cap S) /\ Elements(kept[i]) = Upto(i) /\ i + 1 \in 1..n
      BY <1>1, <1>9
    <2>2. Upto(i + 1) = Upto(i) \cup ({s[i + 1]} \cap S)
      <3>1. 1..(i + 1) = (1..i) \cup {i + 1}
        BY <2>1
      <3> QED BY <3>1
    <2>3. CASE s[i + 1] \in S
      <3>1. kept[i + 1] = Append(kept[i], s[i + 1]) /\ s[i + 1] \in T \cap S
        <4>1. s[i + 1] \in T /\ i + 1 - 1 = i
          BY <1>1, <2>1
        <4>2. kept[i + 1] = IF s[i + 1] \in S THEN Append(kept[i + 1 - 1], s[i + 1])
                            ELSE kept[i + 1 - 1]
          <5> i + 1 \in 1..n BY <2>1
          <5> QED BY <1>6
        <4> HIDE DEF Upto, I
        <4> QED BY <2>3, <4>1, <4>2
      <3>2. Elements(Append(kept[i], s[i + 1])) = Elements(kept[i]) \cup {s[i + 1]}
        <4> kept[i] \in Seq(T \cap S) BY <2>1
        <4> HIDE DEF Upto, I
        <4> QED BY <3>1, ElementsAppend
      <3> HIDE DEF Upto
      <3> QED BY <2>1, <2>2, <2>3, <3>1, <3>2
    <2>4. CASE s[i + 1] \notin S
      <3>1. kept[i + 1] = kept[i]
        BY <1>6, <2>1, <2>4
      <3>2. Upto(i + 1) = Upto(i)
        BY <2>2, <2>4
      <3> HIDE DEF Upto
      <3> QED BY <2>1, <3>1, <3>2
    <2> QED BY <2>3, <2>4
  <1>10. I = Nat
    <2> I \in SUBSET Nat OBVIOUS
    <2> HIDE DEF I
    <2> QED BY <1>8, <1>9, SetInduction
  <1>11. kept[n] \in Seq(T \cap S) /\ Elements(kept[n]) = Upto(n)
    <2>1. n \in I
      BY <1>1, <1>10
    <2> HIDE DEF Upto
    <2> QED BY <1>1, <2>1
  <1>12. Upto(n) = Elements(s) \cap S
    BY DEF Elements, n
  <1> QED BY <1>7, <1>11, <1>12
=============================================================================
