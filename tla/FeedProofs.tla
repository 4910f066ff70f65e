------------------------------- MODULE FeedProofs -------------------------------
(***************************************************************************)
(* Theorems about Feed, for any number of engines, tabs and messages, any  *)
(* window and any packet size.                                             *)
(***************************************************************************)
EXTENDS Feed, TLAPS, FiniteSetTheorems, FunctionTheorems, SequenceTheorems, DataProofs

(***************************************************************************)
(* Data: packets, and windows.                                             *)
(***************************************************************************)

LEMMA Quotient ==
  ASSUME NEW x \in Nat, NEW c \in Nat \ {0}
  PROVE  x \div c \in Nat /\ c * (x \div c) <= x /\ x < c * (x \div c) + c
  OBVIOUS

\* The slices that Packets cuts begin and end at indices, and each index is in one of them.
LEMMA Slices ==
  ASSUME NEW L \in Nat, NEW c \in Nat \ {0}
  PROVE  /\ (L + c - 1) \div c \in Nat
         /\ \A k \in 1..((L + c - 1) \div c) : (k - 1) * c \in Nat /\ k * c \in Nat
         /\ \A i \in 1..L : \E k \in 1..((L + c - 1) \div c) : (k - 1) * c + 1 <= i /\ i <= k * c
  <1> DEFINE N == (L + c - 1) \div c
  <1>1. N \in Nat /\ c * N <= L + c - 1 /\ L + c - 1 < c * N + c
    BY Quotient
  <1>2. ASSUME NEW k \in 1..N PROVE (k - 1) * c \in Nat /\ k * c \in Nat
    <2> HIDE DEF N
    <2>1. k \in Nat /\ k - 1 \in Nat
      BY <1>1
    <2> QED BY <2>1
  <1>3. ASSUME NEW i \in 1..L PROVE \E k \in 1..N : (k - 1) * c + 1 <= i /\ i <= k * c
    <2> DEFINE q == (i - 1) \div c
    <2>1. q \in Nat /\ c * q <= i - 1 /\ i - 1 < c * q + c
      BY Quotient
    <2> HIDE DEF q, N
    <2>2. c * q < c * N
      <3> c * q \in Nat /\ c * N \in Nat BY <1>1, <2>1
      <3> QED BY <1>1, <2>1
    <2>3. q < N
      <3> SUFFICES ASSUME N <= q PROVE FALSE BY <1>1, <2>1
      <3>1. PICK d \in Nat : q = N + d
        <4> q - N \in Nat /\ q = N + (q - N) BY <1>1, <2>1
        <4> QED OBVIOUS
      <3>2. c * q = c * N + c * d /\ c * d \in Nat
        BY <1>1, <3>1
      <3> QED BY <1>1, <2>1, <2>2, <3>2
    <2>4. q + 1 \in 1..N /\ (q + 1 - 1) * c = c * q /\ (q + 1) * c = c * q + c
      BY <1>1, <2>1, <2>3
    <2> QED BY <2>1, <2>4
  <1> QED BY <1>1, <1>2, <1>3

\* The packets of a feed hold its texts, and only those; none is empty.
LEMMA PacketsFacts ==
  ASSUME NEW s \in Seq(Messages)
  PROVE  /\ Packets(s) \in Seq(Seq(Texts) \ {<<>>})
         /\ \A m \in Elements(s) \cap Texts :
              \E packet \in Elements(Packets(s)) : m \in Elements(packet)
  <1> DEFINE N == (Len(s) + Chunk - 1) \div Chunk
             cut == [k \in 1..N |-> Only(Cut(s, k), Sendable)]
  <1>1. /\ Len(s) \in Nat /\ Chunk \in Nat \ {0} /\ Texts \subseteq Messages
        /\ \A i \in 1..Len(s) : s[i] \in Messages
    BY BoundsAssumption DEF Messages
  <1>2. /\ N \in Nat /\ \A k \in 1..N : (k - 1) * Chunk \in Nat /\ k * Chunk \in Nat
        /\ \A i \in 1..Len(s) : \E k \in 1..N : (k - 1) * Chunk + 1 <= i /\ i <= k * Chunk
    BY <1>1, Slices
  <1> HIDE DEF N
  <1>3. ASSUME NEW k \in 1..N
        PROVE  /\ Cut(s, k) \in Seq(Messages)
               /\ \A i \in 1..Len(s) : (k - 1) * Chunk + 1 <= i /\ i <= k * Chunk
                                         => s[i] \in Elements(Cut(s, k))
    <2> DEFINE a == (k - 1) * Chunk + 1
               b == IF k * Chunk < Len(s) THEN k * Chunk ELSE Len(s)
    <2>1. a \in Nat /\ a >= 1 /\ b \in Nat /\ b <= Len(s)
      BY <1>1, <1>2
    <2>2. \A i \in 1..Len(s) : a <= i /\ i <= k * Chunk => i <= b
      BY <1>1, <1>2
    <2>3. Cut(s, k) = SubSeq(s, a, b)
      BY DEF Cut
    <2> HIDE DEF a, b
    <2>4. \A i \in a..b : s[i] \in Messages
      BY <1>1, <2>1
    <2>5. /\ SubSeq(s, a, b) \in Seq(Messages)
          /\ Len(SubSeq(s, a, b)) = IF a <= b THEN b - a + 1 ELSE 0
          /\ \A i \in 1..(b - a + 1) : SubSeq(s, a, b)[i] = s[a + i - 1]
      <3> a \in Int /\ b \in Int BY <2>1
      <3> QED BY <2>4, SubSeqProperties
    <2>6. ASSUME NEW i \in 1..Len(s), a <= i, i <= k * Chunk PROVE s[i] \in Elements(Cut(s, k))
      <3>1. i <= b /\ i \in Nat
        BY <1>1, <2>2, <2>6
      <3>2. i - a + 1 \in 1..(b - a + 1) /\ a + (i - a + 1) - 1 = i /\ a <= b
        BY <2>1, <2>6, <3>1
      <3>3. SubSeq(s, a, b)[i - a + 1] = s[i] /\ Len(SubSeq(s, a, b)) = b - a + 1
        BY <2>5, <3>2
      <3> QED BY <2>3, <3>2, <3>3 DEF Elements
    <2> QED BY <2>3, <2>5, <2>6 DEF a
  <1>4. ASSUME NEW k \in 1..N
        PROVE  /\ cut[k] \in Seq(Texts)
               /\ Elements(cut[k]) = Elements(Cut(s, k)) \cap Texts
    <2>1. cut[k] = Only(Cut(s, k), Texts) /\ Messages \cap Texts = Texts
      BY <1>1 DEF Sendable
    <2> HIDE DEF cut
    <2>2. Only(Cut(s, k), Texts) \in Seq(Messages \cap Texts)
      BY <1>3, OnlyFacts
    <2>3. Elements(Only(Cut(s, k), Texts)) = Elements(Cut(s, k)) \cap Texts
      BY <1>3, OnlyFacts
    <2> QED BY <2>1, <2>2, <2>3
  <1>5. cut \in Seq(Seq(Texts)) /\ Len(cut) = N
    BY <1>2, <1>4
  <1>6. Packets(s) = Only(cut, NotEmpty)
    BY DEF Packets, N
  <1>7. \A k \in 1..N : cut[k] \in Elements(cut)
    BY <1>5 DEF Elements
  <1> HIDE DEF cut
  <1>8. /\ Packets(s) \in Seq(Seq(Texts) \cap NotEmpty)
        /\ Elements(Packets(s)) = Elements(cut) \cap NotEmpty
    BY <1>5, <1>6, OnlyFacts
  <1>9. Seq(Texts) \cap NotEmpty \subseteq Seq(Texts) \ {<<>>}
    BY DEF NotEmpty
  <1>10. Packets(s) \in Seq(Seq(Texts) \ {<<>>})
    BY <1>8, <1>9, SeqMonotonic
  <1>11. ASSUME NEW m \in Elements(s) \cap Texts
         PROVE  \E packet \in Elements(Packets(s)) : m \in Elements(packet)
    <2>1. PICK i \in 1..Len(s) : m = s[i]
      BY DEF Elements
    <2>2. PICK k \in 1..N : (k - 1) * Chunk + 1 <= i /\ i <= k * Chunk
      BY <1>2
    <2>3. m \in Elements(cut[k])
      BY <1>3, <1>4, <2>1, <2>2
    <2>4. cut[k] \in NotEmpty
      <3>1. cut[k] # <<>>
        BY <2>3 DEF Elements
      <3>2. cut[k] \in Seq(Messages)
        BY <1>1, <1>4, SeqMonotonic
      <3> QED BY <3>1, <3>2 DEF NotEmpty
    <2> QED BY <1>7, <1>8, <2>3, <2>4
  <1> QED BY <1>10, <1>11

LEMMA FiniteTexts ==
  ASSUME NEW S \in SUBSET Texts
  PROVE  IsFiniteSet(S) /\ Cardinality(S) \in Nat
  <1>1. IsFiniteSet(Messages) /\ S \in SUBSET Messages
    BY MessagesAssumption DEF Messages
  <1>2. IsFiniteSet(S)
    BY <1>1, FS_Subset
  <1> QED BY <1>2, FS_CardinalityType

\* A larger set of texts has no fewer members, and more if it is not the same set.
LEMMA LargerSet ==
  ASSUME NEW S \in SUBSET Texts, NEW T \in SUBSET S
  PROVE  /\ Cardinality(T) <= Cardinality(S)
         /\ S # T => Cardinality(T) < Cardinality(S)
  <1>1. IsFiniteSet(S) /\ Cardinality(S) \in Nat /\ Cardinality(T) \in Nat
    BY FiniteTexts
  <1>2. Cardinality(T) <= Cardinality(S) /\ (Cardinality(S) = Cardinality(T) => S = T)
    BY <1>1, FS_Subset
  <1> QED BY <1>1, <1>2

LEMMA ListingsFacts ==
  ASSUME NEW S \in SUBSET Texts, NEW s \in Listings(S)
  PROVE  s \in Seq(Messages) /\ Elements(s) = S
  <1>1. Cardinality(S) \in Nat /\ S \subseteq Messages
    BY FiniteTexts DEF Messages
  <1>2. s \in [1..Cardinality(S) -> S] /\ Elements(s) = S
    BY DEF Listings
  <1> QED BY <1>1, <1>2

LEMMA WindowFacts ==
  ASSUME NEW S \in SUBSET Texts, NEW W \in Windows(S)
  PROVE  /\ W \in SUBSET S /\ IsFiniteSet(W)
         /\ Cardinality(W) \in Nat /\ Cardinality(W) <= MaxTail
         /\ W # S => Cardinality(W) = MaxTail
         /\ \A m \in W, n \in S \ W : Stamp[n] <= Stamp[m]
  <1>1. /\ W \in SUBSET S
        /\ Cardinality(W) = IF Cardinality(S) < MaxTail THEN Cardinality(S) ELSE MaxTail
        /\ \A m \in W, n \in S \ W : Stamp[n] <= Stamp[m]
    BY DEF Windows
  <1>2. /\ Cardinality(S) \in Nat /\ Cardinality(W) \in Nat /\ MaxTail \in Nat /\ IsFiniteSet(W)
    BY <1>1, FiniteTexts, BoundsAssumption
  <1>3. W # S => Cardinality(W) < Cardinality(S)
    BY <1>1, LargerSet
  <1> QED BY <1>1, <1>2, <1>3

LEMMA WindowIf ==
  ASSUME NEW S \in SUBSET Texts, NEW W \in SUBSET S, Cardinality(W) <= MaxTail,
         W # S => Cardinality(W) = MaxTail,
         \A m \in W, n \in S \ W : Stamp[n] <= Stamp[m]
  PROVE  W \in Windows(S)
  <1>1. /\ Cardinality(S) \in Nat /\ Cardinality(W) \in Nat /\ MaxTail \in Nat
        /\ W # S => Cardinality(W) < Cardinality(S)
    BY FiniteTexts, BoundsAssumption, LargerSet
  <1>2. Cardinality(W) = IF Cardinality(S) < MaxTail THEN Cardinality(S) ELSE MaxTail
    BY <1>1
  <1> QED BY <1>2 DEF Windows

\* A window of a set is a window of any part of it that holds the window.
LEMMA WindowShrinks ==
  ASSUME NEW A \in SUBSET Texts, NEW W \in Windows(A), NEW C \in SUBSET A, W \subseteq C
  PROVE  W \in Windows(C)
  <1>1. /\ C \in SUBSET Texts /\ W \in SUBSET C /\ Cardinality(W) <= MaxTail
        /\ W # C => Cardinality(W) = MaxTail
        /\ \A m \in W, n \in C \ W : Stamp[n] <= Stamp[m]
    BY WindowFacts
  <1> QED BY <1>1, WindowIf

\* The heart of it: W is a window of R, and messages come; a window of W and some of them
\* is a window of R and all of them, if those that are left out were in R, and not in W.
LEMMA WindowGrows ==
  ASSUME NEW A \in SUBSET Texts, NEW R \in SUBSET A, NEW C \in SUBSET A,
         NEW W \in Windows(R), W \subseteq C, A \ C \subseteq R \ W, NEW V \in Windows(C)
  PROVE  V \in Windows(A)
  <1>1. /\ W \in SUBSET R /\ Cardinality(W) \in Nat /\ IsFiniteSet(W)
        /\ W # R => Cardinality(W) = MaxTail
        /\ \A m \in W, n \in R \ W : Stamp[n] <= Stamp[m]
    BY WindowFacts
  <1>2. /\ V \in SUBSET C /\ Cardinality(V) \in Nat /\ IsFiniteSet(V) /\ Cardinality(V) <= MaxTail
        /\ V # C => Cardinality(V) = MaxTail
        /\ \A m \in V, n \in C \ V : Stamp[n] <= Stamp[m]
    <2> C \in SUBSET Texts OBVIOUS
    <2> QED BY WindowFacts
  <1>3. CASE A = C
    BY <1>3
  <1>4. CASE A # C
    <2>1. Cardinality(W) = MaxTail /\ MaxTail \in Nat
      BY <1>1, <1>4, BoundsAssumption
    <2>2. W \subseteq V => W = V
      <3> SUFFICES ASSUME W \subseteq V, W # V PROVE FALSE OBVIOUS
      <3>1. V \in SUBSET Texts /\ W \in SUBSET V
        BY <1>2
      <3> QED BY <1>1, <1>2, <2>1, <3>1, LargerSet
    <2>3. V = C => V = W
      BY <2>2
    <2>4. Cardinality(V) = MaxTail
      BY <1>2, <2>1, <2>3
    <2>5. ASSUME NEW m \in V, NEW n \in A \ V PROVE Stamp[n] <= Stamp[m]
      <3>1. CASE n \in C
        BY <1>2, <2>5, <3>1
      <3>2. CASE n \notin C /\ m \in W
        BY <1>1, <2>5, <3>2
      <3>3. CASE n \notin C /\ m \notin W
        <4>1. PICK k \in W : k \notin V
          BY <2>2, <3>3
        <4>2. Stamp[k] <= Stamp[m] /\ Stamp[n] <= Stamp[k]
          BY <1>1, <1>2, <2>5, <3>3, <4>1
        <4>3. Stamp[k] \in Nat /\ Stamp[m] \in Nat /\ Stamp[n] \in Nat
          BY <1>1, <1>2, <2>5, StampAssumption
        <4> QED BY <4>2, <4>3
      <3> QED BY <3>1, <3>2, <3>3
    <2>6. V \in SUBSET A /\ Cardinality(V) <= MaxTail
      BY <1>2
    <2> QED BY <2>4, <2>5, <2>6, WindowIf
  <1> QED BY <1>3, <1>4

-----------------------------------------------------------------------------
(***************************************************************************)
(* Types.                                                                  *)
(***************************************************************************)
Packet == Seq(Texts) \ {<<>>}

LEMMA DirFacts ==
  /\ \A p, q \in Peers : p # q => <<p, q>> \in Dirs
  /\ \A d \in Dirs : d[1] \in Peers /\ d[2] \in Peers /\ d = <<d[1], d[2]>> /\ d[1] # d[2]
  /\ Engines \subseteq Peers /\ Tabs \subseteq Peers /\ Engines \cap Tabs = {}
  /\ Texts \subseteq Messages /\ \A m \in Messages : m \in Texts \/ m \in Files
  BY PeersAssumption DEF Dirs, Peers, Messages

LEMMA StoredType ==
  ASSUME NEW s \in Seq(Messages), NEW m \in Messages
  PROVE  Stored(s, m) \in Seq(Messages)
  <1>1. CASE m \in Elements(s) \/ Len(s) < MaxTail
    BY <1>1 DEF Stored
  <1>2. CASE ~ (m \in Elements(s) \/ Len(s) < MaxTail)
    <2>1. Len(s) \in Nat /\ MaxTail \in Nat \ {0} /\ Len(s) >= MaxTail
      BY <1>2, BoundsAssumption
    <2>2. \A i \in (Len(s) - MaxTail + 2)..Len(s) : s[i] \in Messages
      BY <2>1
    <2>3. SubSeq(s, Len(s) - MaxTail + 2, Len(s)) \in Seq(Messages)
      <3> Len(s) - MaxTail + 2 \in Int /\ Len(s) \in Int BY <2>1
      <3> QED BY <2>2, SubSeqProperties
    <2> QED BY <1>2, <2>3 DEF Stored
  <1> QED BY <1>1, <1>2

LEMMA WiredFacts ==
  ASSUME TypeOK, NEW p, NEW to, NEW packets \in Seq(Packet)
  PROVE  /\ Wired(p, to, packets) \in [Dirs -> Seq(Packet)]
         /\ \A d \in Dirs : Wired(p, to, packets)[d] =
              IF d[1] = p /\ d[2] \in to /\ d \in open /\ Linked(p, d[2])
              THEN wire[d] \o packets ELSE wire[d]
  <1>1. \A d \in Dirs : wire[d] \in Seq(Packet) /\ wire[d] \o packets \in Seq(Packet)
    BY DEF TypeOK, Packet
  <1> QED BY <1>1 DEF Wired

LEMMA NotedFacts ==
  ASSUME NEW history \in [Dirs -> SUBSET Texts], NEW p, NEW to, NEW S \in SUBSET Texts
  PROVE  /\ Noted(history, p, to, S) \in [Dirs -> SUBSET Texts]
         /\ \A d \in Dirs :
              /\ history[d] \subseteq Noted(history, p, to, S)[d]
              /\ d[1] = p /\ d[2] \in to /\ d \in open /\ Linked(p, d[2])
                   => S \subseteq Noted(history, p, to, S)[d]
              /\ d[1] # p => Noted(history, p, to, S)[d] = history[d]
              /\ \A m \in Noted(history, p, to, S)[d] : m \in history[d] \/ m \in S
  BY DEF Noted

LEMMA SendFacts ==
  ASSUME TypeOK, NEW p, NEW q, NEW packet \in Packet, Send(p, q, packet)
  PROVE  wire' \in [Dirs -> Seq(Packet)] /\ withheld' \in [Dirs -> SUBSET Texts]
  <1>1. CASE wire' = Wired(p, {q}, <<packet>>) /\ UNCHANGED withheld
    <2>1. <<packet>> \in Seq(Packet)
      OBVIOUS
    <2> QED BY <1>1, <2>1, WiredFacts DEF TypeOK
  <1>2. CASE withheld' = Noted(withheld, p, {q}, Elements(packet)) /\ UNCHANGED wire
    <2>1. Elements(packet) \in SUBSET Texts
      BY DEF Elements, Packet
    <2> QED BY <1>2, <2>1, NotedFacts DEF TypeOK, Packet
  <1> QED BY <1>1, <1>2 DEF Send

LEMMA OnePacket ==
  ASSUME NEW m \in Texts
  PROVE  <<<<m>>>> \in Seq(Packet) /\ \E x \in Elements(<<<<m>>>>) : m \in Elements(x)
  <1>1. <<m>> \in Seq(Texts) /\ <<m>> # <<>> /\ m \in Elements(<<m>>)
    BY DEF Elements
  <1>2. <<m>> \in Elements(<<<<m>>>>) /\ <<m>> \in Packet
    BY <1>1 DEF Elements, Packet
  <1> QED BY <1>1, <1>2

LEMMA IngestedFacts ==
  ASSUME TypeOK, NEW e \in Engines, NEW m \in Messages, Ingested(e, m)
  PROVE  /\ msgs' \in [Engines -> Seq(Messages)] /\ reached' \in [Peers -> SUBSET Messages]
         /\ m \in reached'[e] /\ \A p \in Peers : reached[p] \subseteq reached'[p]
         /\ \A p \in Peers : p # e => reached'[p] = reached[p]
         /\ UNCHANGED <<messages, messageIDs, saved, unsaved>>
  <1>1. e \in Peers /\ Stored(msgs[e], m) \in Seq(Messages)
    BY StoredType, DirFacts DEF TypeOK
  <1> QED BY <1>1 DEF Ingested, TypeOK

\* The first packet of a wire; and what is left when it, or its first message, is taken.
LEMMA HeadFacts ==
  ASSUME TypeOK, NEW d \in Dirs, wire[d] # <<>>
  PROVE  /\ Head(wire[d]) \in Packet /\ Tail(wire[d]) \in Seq(Packet)
         /\ Head(Head(wire[d])) \in Texts
         /\ Elements(Head(wire[d])) \subseteq Texts
         /\ Len(Head(wire[d])) # 1 => <<Tail(Head(wire[d]))>> \o Tail(wire[d]) \in Seq(Packet)
  <1>1. wire[d] \in Seq(Packet)
    BY DEF TypeOK, Packet
  <1>2. Head(wire[d]) \in Packet /\ Tail(wire[d]) \in Seq(Packet)
    BY <1>1
  <1> DEFINE h == Head(wire[d])
  <1>3. h \in Seq(Texts) /\ h # <<>> /\ Len(h) \in Nat /\ Len(h) # 0
    BY <1>2 DEF Packet
  <1> HIDE DEF h
  <1>4. Head(h) \in Texts /\ Elements(h) \subseteq Texts
    BY <1>3 DEF Elements
  <1>5. ASSUME Len(h) # 1 PROVE Tail(h) \in Packet
    <2>1. Tail(h) \in Seq(Texts) /\ Len(Tail(h)) = Len(h) - 1 /\ Len(Tail(h)) # 0
      BY <1>3, <1>5, HeadTailProperties
    <2>2. Len(<<>>) = 0
      OBVIOUS
    <2> QED BY <2>1, <2>2 DEF Packet
  <1>6. ASSUME Len(h) # 1 PROVE <<Tail(h)>> \o Tail(wire[d]) \in Seq(Packet)
    <2>1. <<Tail(h)>> \in Seq(Packet)
      BY <1>5, <1>6
    <2> HIDE DEF Packet
    <2> QED BY <1>2, <2>1, ConcatProperties
  <1> QED BY <1>2, <1>4, <1>6 DEF h

LEMMA TypeInit == Init => TypeOK
  <1> SUFFICES ASSUME Init PROVE TypeOK OBVIOUS
  <1>1. upsets \in 0..MaxUpsets
    BY BoundsAssumption DEF Init
  <1>2. <<>> \in Seq(Messages) /\ <<>> \in Seq(Packet)
    OBVIOUS
  <1> QED BY <1>1, <1>2 DEF Init, TypeOK, Packet

LEMMA TypeChannels ==
  ASSUME TypeOK, NEW d \in Dirs, Pair(d[1], d[2]) \/ Remove(d[1], d[2])
  PROVE  TypeOK'
  <1>1. d = <<d[1], d[2]>> /\ <<d[2], d[1]>> \in Dirs
    BY DirFacts
  <1>2. CASE Pair(d[1], d[2])
    BY <1>1, <1>2 DEF Pair, TypeOK, feeds
  <1>3. CASE Remove(d[1], d[2])
    <2>1. upsets' \in 0..MaxUpsets
      BY <1>3, BoundsAssumption DEF Remove, TypeOK
    <2>2. <<>> \in Seq(Packet)
      OBVIOUS
    <2> QED BY <1>1, <1>3, <2>1, <2>2 DEF Remove, TypeOK, feeds, Packet
  <1> QED BY <1>2, <1>3

LEMMA TypeGone ==
  ASSUME TypeOK, NEW p \in Peers, Gone(p)
  PROVE  /\ open' \subseteq ends' /\ ends' \subseteq Dirs
         /\ greeting' \in [Dirs -> Seq(Packet) \cup {Unread}]
         /\ publishing' \subseteq Messages /\ pushes' \subseteq Texts \X Peers
         /\ wire' \in [Dirs -> Seq(Packet)] /\ streams' \subseteq Files \X Engines
         /\ owed' \in [Dirs -> SUBSET Texts] /\ withheld' \in [Dirs -> SUBSET Texts]
  <1>1. <<>> \in Seq(Packet)
    OBVIOUS
  <1> QED BY <1>1 DEF Gone, TypeOK, Packet

LEMMA TypePush ==
  ASSUME TypeOK, NEW q \in Peers, NEW m \in Texts, Push(m, q)
  PROVE  TypeOK'
  <1>1. wire' \in [Dirs -> Seq(Packet)] /\ withheld' \in [Dirs -> SUBSET Texts]
    <2>1. <<m>> \in Packet /\ Send(Author[m], q, <<m>>)
      BY DEF Push, Packet
    <2> QED BY <2>1, SendFacts
  <1> QED BY <1>1 DEF Push, TypeOK, feeds, Packet

LEMMA TypeEngineChannels ==
  ASSUME TypeOK, NEW e \in Engines, NEW q \in Peers \ {e},
         OpenEngine(e, q) \/ ReadHistory(e, q) \/ SendTail(e, q)
  PROVE  TypeOK'
  <1>1. <<e, q>> \in Dirs
    BY DirFacts
  <1>2. CASE OpenEngine(e, q)
    BY <1>1, <1>2 DEF OpenEngine, TypeOK, feeds
  <1>3. CASE ReadHistory(e, q)
    <2>1. Packets(msgs[e]) \in Seq(Packet)
      BY PacketsFacts DEF TypeOK, Packet
    <2> QED BY <1>1, <1>3, <2>1 DEF ReadHistory, TypeOK, feeds, Packet
  <1>4. CASE SendTail(e, q)
    <2>1. greeting[<<e, q>>] \in Seq(Packet) /\ greeting[<<e, q>>] # <<>>
      BY <1>1, <1>4 DEF SendTail, TypeOK, Packet
    <2>2. Head(greeting[<<e, q>>]) \in Packet /\ Tail(greeting[<<e, q>>]) \in Seq(Packet)
      BY <2>1
    <2>3. wire' \in [Dirs -> Seq(Packet)] /\ withheld' \in [Dirs -> SUBSET Texts]
      BY <1>4, <2>2, SendFacts DEF SendTail
    <2>4. greeting' \in [Dirs -> Seq(Packet) \cup {Unread}]
      BY <1>1, <1>4, <2>2 DEF SendTail, TypeOK, Packet
    <2> QED BY <1>4, <2>3, <2>4 DEF SendTail, TypeOK, feeds, Packet
  <1> QED BY <1>2, <1>3, <1>4

LEMMA TypeEngineFeeds ==
  ASSUME TypeOK, NEW e \in Engines
  PROVE  /\ \A q \in Peers \ {e} : Ingest(e, q) => TypeOK'
         /\ \A m \in Messages : Publish(e, m) \/ Broadcast(e, m) \/ ReceiveFile(e, m) => TypeOK'
         /\ Restart(e) => TypeOK'
  <1>1. ASSUME NEW q \in Peers \ {e}, Ingest(e, q) PROVE TypeOK'
    <2>1. <<q, e>> \in Dirs /\ Texts \subseteq Messages
      BY DirFacts
    <2>2. wire[<<q, e>>] # <<>> /\ Ingested(e, Head(Head(wire[<<q, e>>])))
      BY <1>1 DEF Ingest
    <2>3. /\ msgs' \in [Engines -> Seq(Messages)] /\ reached' \in [Peers -> SUBSET Messages]
          /\ UNCHANGED <<messages, messageIDs, saved, unsaved>>
      BY <2>1, <2>2, HeadFacts, IngestedFacts
    <2>4. wire' \in [Dirs -> Seq(Packet)]
      <3>1. \/ wire' = [wire EXCEPT ![<<q, e>>] = Tail(@)]
            \/ /\ Len(Head(wire[<<q, e>>])) # 1
               /\ wire' = [wire EXCEPT ![<<q, e>>] = <<Tail(Head(wire[<<q, e>>]))>> \o Tail(@)]
        BY <1>1 DEF Ingest
      <3> QED BY <2>1, <2>2, <3>1, HeadFacts DEF TypeOK, Packet
    <2> QED BY <1>1, <2>3, <2>4 DEF Ingest, TypeOK, Packet
  <1>2. ASSUME NEW m \in Messages, Publish(e, m) PROVE TypeOK'
    <2>1. Stored(msgs[e], m) \in Seq(Messages) /\ e \in Peers
      BY StoredType, DirFacts DEF TypeOK
    <2>2. owed' \in [Dirs -> SUBSET Texts]
      BY <1>2, NotedFacts DEF Publish, Owing, TypeOK
    <2> QED BY <1>2, <2>1, <2>2 DEF Publish, TypeOK
  <1>3. ASSUME NEW m \in Messages, Broadcast(e, m) PROVE TypeOK'
    <2>1. pushes' \subseteq Texts \X Peers
      BY <1>3, DirFacts DEF Broadcast, TypeOK
    <2>2. streams' \subseteq Files \X Engines
      BY <1>3, DirFacts DEF Broadcast, Streamed, TypeOK
    <2> QED BY <1>3, <2>1, <2>2 DEF Broadcast, TypeOK, feeds
  <1>4. ASSUME NEW m \in Messages, ReceiveFile(e, m) PROVE TypeOK'
    <2>1. /\ msgs' \in [Engines -> Seq(Messages)] /\ reached' \in [Peers -> SUBSET Messages]
          /\ UNCHANGED <<messages, messageIDs, saved, unsaved>>
      BY <1>4, IngestedFacts DEF ReceiveFile
    <2> QED BY <1>4, <2>1 DEF ReceiveFile, TypeOK
  <1>5. ASSUME Restart(e) PROVE TypeOK'
    <2>1. upsets' \in 0..MaxUpsets
      BY <1>5, BoundsAssumption DEF Restart, TypeOK
    <2>2. e \in Peers /\ Gone(e)
      BY <1>5, DirFacts DEF Restart
    <2> QED BY <1>5, <2>1, <2>2, TypeGone DEF Restart, TypeOK, feeds, Packet
  <1> QED BY <1>1, <1>2, <1>3, <1>4, <1>5

LEMMA AcceptedFacts ==
  ASSUME TypeOK, NEW t \in Tabs, NEW packet \in SUBSET Texts, Accepted(t, packet),
         Saves(t) \/ SaveFails(t, packet)
  PROVE  /\ messages' \in [Tabs -> SUBSET Texts] /\ messageIDs' \in [Tabs -> SUBSET Texts]
         /\ saved' \in [Tabs -> SUBSET Texts] /\ unsaved' \in [Tabs -> SUBSET Texts]
         /\ reached' \in [Peers -> SUBSET Messages] /\ msgs' = msgs
         /\ packet \subseteq reached'[t] /\ \A p \in Peers : reached[p] \subseteq reached'[p]
  <1>1. t \in Peers /\ Texts \subseteq Messages
    BY DirFacts
  <1>2. \A W \in Windows(messages[t] \cup (packet \ messageIDs[t])) : W \subseteq Texts
    BY DEF Windows, TypeOK
  <1>3. /\ messages' \in [Tabs -> SUBSET Texts] /\ messageIDs' \in [Tabs -> SUBSET Texts]
        /\ reached' \in [Peers -> SUBSET Messages] /\ msgs' = msgs
        /\ packet \subseteq reached'[t] /\ \A p \in Peers : reached[p] \subseteq reached'[p]
    BY <1>1, <1>2 DEF Accepted, TypeOK
  <1>4. saved' \in [Tabs -> SUBSET Texts] /\ unsaved' \in [Tabs -> SUBSET Texts]
    BY <1>3 DEF Saves, SaveFails, TypeOK
  <1> QED BY <1>3, <1>4

\* The packets that a tab's "open" handler gets to send.
LEMMA OpenTabOut ==
  ASSUME TypeOK, NEW t \in Tabs, NEW s \in Listings(messages[t]), NEW k \in 0..Len(Packets(s))
  PROVE  SubSeq(Packets(s), 1, k) \in Seq(Packet)
  <1>1. Packets(s) \in Seq(Packet)
    <2>1. s \in Seq(Messages)
      BY ListingsFacts DEF TypeOK
    <2> QED BY <2>1, PacketsFacts DEF Packet
  <1>2. \A i \in 1..k : Packets(s)[i] \in Packet
    BY <1>1
  <1>3. k \in Int /\ 1 \in Int
    BY <1>1
  <1> QED BY <1>2, <1>3, SubSeqProperties

LEMMA TypeTab ==
  ASSUME TypeOK, NEW t \in Tabs
  PROVE  /\ \A q \in Peers \ {t} : OpenTab(t, q) \/ Accept(t, q) => TypeOK'
         /\ \A m \in Messages : SendDraft(t, m) \/ SendDraftThrows(t, m) \/ SendFile(t, m) => TypeOK'
         /\ Reload(t) => TypeOK'
  <1>1. ASSUME NEW q \in Peers \ {t}, OpenTab(t, q) PROVE TypeOK'
    <2>1. <<t, q>> \in Dirs
      BY DirFacts
    <2>2. \E s \in Listings(messages[t]) : \E k \in 0..Len(Packets(s)) :
            /\ wire' = [wire EXCEPT ![<<t, q>>] = @ \o SubSeq(Packets(s), 1, k)]
            /\ withheld' = [withheld EXCEPT ![<<t, q>>] =
                              messages[t] \ Carried(SubSeq(Packets(s), 1, k))]
      BY <1>1 DEF OpenTab
    <2>3. PICK out \in Seq(Packet) :
            /\ wire' = [wire EXCEPT ![<<t, q>>] = @ \o out]
            /\ withheld' = [withheld EXCEPT ![<<t, q>>] = messages[t] \ Carried(out)]
      BY <2>2, OpenTabOut
    <2>4. wire' \in [Dirs -> Seq(Packet)] /\ withheld' \in [Dirs -> SUBSET Texts]
      BY <2>1, <2>3 DEF TypeOK, Packet
    <2> QED BY <1>1, <2>1, <2>4 DEF OpenTab, TypeOK, feeds, Packet
  <1>2. ASSUME NEW q \in Peers \ {t}, Accept(t, q) PROVE TypeOK'
    <2>1. <<q, t>> \in Dirs
      BY DirFacts
    <2> DEFINE packet == Elements(Head(wire[<<q, t>>])) \ TooLong
    <2>2. /\ wire[<<q, t>>] # <<>> /\ Accepted(t, packet) /\ (Saves(t) \/ SaveFails(t, packet))
      BY <1>2 DEF Accept
    <2>3. packet \in SUBSET Texts /\ Tail(wire[<<q, t>>]) \in Seq(Packet)
      BY <2>1, <2>2, HeadFacts
    <2> HIDE DEF packet
    <2>4. /\ messages' \in [Tabs -> SUBSET Texts] /\ messageIDs' \in [Tabs -> SUBSET Texts]
          /\ saved' \in [Tabs -> SUBSET Texts] /\ unsaved' \in [Tabs -> SUBSET Texts]
          /\ reached' \in [Peers -> SUBSET Messages] /\ msgs' = msgs
      BY <2>2, <2>3, AcceptedFacts
    <2>5. wire' \in [Dirs -> Seq(Packet)]
      BY <1>2, <2>1, <2>3 DEF Accept, TypeOK, Packet
    <2> QED BY <1>2, <2>4, <2>5 DEF Accept, TypeOK, Packet
  <1>3. ASSUME NEW m \in Messages, SendDraft(t, m) PROVE TypeOK'
    <2>1. m \in Texts /\ Accepted(t, {m}) /\ Saves(t) /\ {m} \in SUBSET Texts
      BY <1>3 DEF SendDraft, Writes
    <2>2. /\ messages' \in [Tabs -> SUBSET Texts] /\ messageIDs' \in [Tabs -> SUBSET Texts]
          /\ saved' \in [Tabs -> SUBSET Texts] /\ unsaved' \in [Tabs -> SUBSET Texts]
          /\ reached' \in [Peers -> SUBSET Messages] /\ msgs' = msgs
      BY <2>1, AcceptedFacts
    <2>3. wire' \in [Dirs -> Seq(Packet)] /\ withheld' \in [Dirs -> SUBSET Texts]
      <3> DEFINE packets == <<<<m>>>>
      <3>1. PICK to : wire' = Wired(t, to, packets) /\ withheld' = Noted(withheld, t, Peers \ to, {m})
        BY <1>3 DEF SendDraft
      <3>2. packets \in Seq(Packet) /\ withheld \in [Dirs -> SUBSET Texts]
        BY <2>1, OnePacket DEF TypeOK
      <3> HIDE DEF packets
      <3> QED BY <2>1, <3>1, <3>2, WiredFacts, NotedFacts
    <2>4. owed' \in [Dirs -> SUBSET Texts]
      BY <1>3, NotedFacts DEF SendDraft, Owing, TypeOK
    <2> QED BY <1>3, <2>2, <2>3, <2>4 DEF SendDraft, TypeOK, Packet
  <1>4. ASSUME NEW m \in Messages, SendDraftThrows(t, m) PROVE TypeOK'
    <2>1. m \in Texts /\ Accepted(t, {m}) /\ SaveFails(t, {m}) /\ {m} \in SUBSET Texts
      BY <1>4 DEF SendDraftThrows, Writes
    <2>2. /\ messages' \in [Tabs -> SUBSET Texts] /\ messageIDs' \in [Tabs -> SUBSET Texts]
          /\ saved' \in [Tabs -> SUBSET Texts] /\ unsaved' \in [Tabs -> SUBSET Texts]
          /\ reached' \in [Peers -> SUBSET Messages] /\ msgs' = msgs
      BY <2>1, AcceptedFacts
    <2>3. owed' \in [Dirs -> SUBSET Texts] /\ withheld' \in [Dirs -> SUBSET Texts]
      BY <1>4, <2>1, NotedFacts DEF SendDraftThrows, Owing, TypeOK
    <2> QED BY <1>4, <2>2, <2>3 DEF SendDraftThrows, TypeOK, Packet
  <1>5. ASSUME NEW m \in Messages, SendFile(t, m) PROVE TypeOK'
    <2>1. streams' \subseteq Files \X Engines
      BY <1>5 DEF SendFile, Streamed, TypeOK
    <2> QED BY <1>5, <2>1 DEF SendFile, TypeOK, feeds
  <1>6. ASSUME Reload(t) PROVE TypeOK'
    <2>1. upsets' \in 0..MaxUpsets
      BY <1>6, BoundsAssumption DEF Reload, TypeOK
    <2>2. t \in Peers /\ Gone(t)
      BY <1>6, DirFacts DEF Reload
    <2>3. reached' \in [Peers -> SUBSET Messages]
      BY <1>6, <2>2 DEF Reload, TypeOK
    <2> QED BY <1>6, <2>1, <2>2, <2>3, TypeGone DEF Reload, TypeOK, Packet
  <1> QED BY <1>1, <1>2, <1>3, <1>4, <1>5, <1>6

LEMMA TypeStep == TypeOK /\ [Next]_vars => TypeOK'
  <1> SUFFICES ASSUME TypeOK, [Next]_vars PROVE TypeOK' OBVIOUS
  <1>1. CASE UNCHANGED vars
    BY <1>1 DEF TypeOK, vars, feeds, channels
  <1>2. ASSUME NEW e \in Engines, Engine(e) PROVE TypeOK'
    BY <1>2, TypeEngineChannels, TypeEngineFeeds DEF Engine
  <1>3. ASSUME NEW t \in Tabs, Tab(t) PROVE TypeOK'
    BY <1>3, TypeTab DEF Tab
  <1> QED BY <1>1, <1>2, <1>3, TypeChannels, TypePush DEF Next

\* The variables of the feed keep their types: no channel ever carries an empty packet, or
\* one with a file in it, whatever the history it was cut from.
THEOREM TypeCorrect == Spec => []TypeOK
  BY TypeInit, TypeStep, PTL DEF Spec

-----------------------------------------------------------------------------
(***************************************************************************)
(* What tabs show.  A tab forgets the ids of messages its window dropped   *)
(* when it is reloaded, and may then take such a message for a new one:    *)
(* that changes nothing, for the tab has had it, and its window has no     *)
(* older one (WindowGrows).                                                *)
(***************************************************************************)
TabOK(t) ==
  /\ messages[t] \in Windows(reached[t] \cap Texts)
  /\ saved[t] \in Windows((reached[t] \ unsaved[t]) \cap Texts)
  /\ saved[t] \cup messages[t] \subseteq messageIDs[t] /\ messageIDs[t] \subseteq reached[t]

TabInv == \A t \in Tabs : TabOK(t)

LEMMA TabsQuiet ==
  ASSUME TabInv, NEW u, UNCHANGED <<messages, messageIDs, saved, unsaved>>,
         \A t \in Tabs : t # u => reached'[t] = reached[t], u \notin Tabs
  PROVE  TabInv'
  BY DEF TabInv, TabOK, Windows

LEMMA AcceptedTab ==
  ASSUME TypeOK, TabInv, NEW t \in Tabs, NEW packet \in SUBSET Texts, Accepted(t, packet),
         Saves(t) \/ SaveFails(t, packet)
  PROVE  TabInv'
  <1>1. /\ t \in Peers /\ Texts \subseteq Messages /\ messages[t] \subseteq Texts
        /\ messageIDs[t] \subseteq Texts /\ TabOK(t) /\ Tabs \subseteq Peers
    BY DirFacts DEF TypeOK, TabInv
  <1>2. ASSUME NEW u \in Tabs, u # t PROVE TabOK(u)'
    <2>1. /\ messages'[u] = messages[u] /\ messageIDs'[u] = messageIDs[u]
          /\ reached'[u] = reached[u] /\ saved'[u] = saved[u] /\ unsaved'[u] = unsaved[u]
      BY <1>1, <1>2 DEF Accepted, Saves, SaveFails, TypeOK
    <2> QED BY <2>1 DEF TabInv, TabOK, Windows
  <1> DEFINE R == reached[t] \cap Texts
             C == messages[t] \cup (packet \ messageIDs[t])
  <1>3. /\ reached'[t] = reached[t] \cup packet /\ messageIDs'[t] = messageIDs[t] \cup packet
        /\ messages'[t] \in Windows(C) /\ reached'[t] \cap Texts = R \cup packet
    BY <1>1 DEF Accepted, TypeOK
  <1>4. /\ R \cup packet \in SUBSET Texts /\ R \in SUBSET (R \cup packet)
        /\ C \in SUBSET (R \cup packet) /\ messages[t] \in Windows(R) /\ messages[t] \subseteq C
        /\ (R \cup packet) \ C \subseteq R \ messages[t]
    <2>1. messages[t] \in Windows(R) /\ messages[t] \subseteq R
      <3>1. R \in SUBSET Texts /\ messages[t] \in Windows(R)
        BY <1>1 DEF TabOK
      <3> HIDE DEF R
      <3> QED BY <3>1, WindowFacts
    <2> QED BY <1>1, <2>1 DEF TabOK
  <1>5. messages'[t] \in Windows(reached'[t] \cap Texts) /\ messages'[t] \subseteq R \cup packet
        /\ messages'[t] \subseteq C
    <2> HIDE DEF R, C
    <2>1. messages'[t] \in Windows(R \cup packet)
      BY <1>3, <1>4, WindowGrows
    <2>2. C \in SUBSET Texts
      BY <1>4
    <2>3. messages'[t] \subseteq C
      BY <1>3, <2>2, WindowFacts
    <2> QED BY <1>3, <1>4, <2>1, <2>3
  <1>6. messages'[t] \subseteq messageIDs'[t] /\ messageIDs'[t] \subseteq reached'[t]
    BY <1>1, <1>3, <1>5 DEF TabOK
  <1>7. CASE Saves(t)
    <2>1. saved'[t] = messages'[t] /\ unsaved'[t] = {}
      BY <1>7 DEF Saves, TypeOK
    <2>2. TabOK(t)'
      BY <1>5, <1>6, <2>1 DEF TabOK, Windows
    <2> QED BY <1>2, <2>2 DEF TabInv
  <1>8. CASE SaveFails(t, packet)
    <2>1. saved'[t] = saved[t] /\ unsaved'[t] = unsaved[t] \cup (packet \ messageIDs[t])
      BY <1>8 DEF SaveFails, TypeOK
    <2> DEFINE D == (reached[t] \ unsaved[t]) \cap Texts
               E == (reached'[t] \ unsaved'[t]) \cap Texts
    <2>2. D \in SUBSET Texts /\ E \in SUBSET D
      BY <1>1, <1>3, <2>1 DEF TabOK
    <2>3. saved[t] \in Windows(D) /\ saved[t] \subseteq E
      <3>1. saved[t] \in Windows(D)
        BY <1>1 DEF TabOK
      <3>2. saved[t] \subseteq D
        <4> HIDE DEF D, E
        <4> QED BY <2>2, <3>1, WindowFacts
      <3> QED BY <1>1, <1>3, <2>1, <3>1, <3>2 DEF TabOK
    <2> HIDE DEF D, E
    <2>4. saved'[t] \in Windows(E)
      BY <2>1, <2>2, <2>3, WindowShrinks
    <2>6. TabOK(t)'
      BY <1>1, <1>3, <1>5, <1>6, <2>1, <2>4 DEF TabOK, Windows, E
    <2> QED BY <1>2, <2>6 DEF TabInv
  <1> QED BY <1>7, <1>8

LEMMA TabStep == TypeOK /\ TabInv /\ [Next]_vars => TabInv'
  <1> SUFFICES ASSUME TypeOK, TabInv, [Next]_vars PROVE TabInv' OBVIOUS
  <1>1. UNCHANGED feeds => TabInv'
    BY DEF feeds, TabInv, TabOK, Windows
  <1>2. CASE UNCHANGED vars
    BY <1>1, <1>2 DEF vars
  <1>3. ASSUME NEW d \in Dirs, Pair(d[1], d[2]) \/ Remove(d[1], d[2]) PROVE TabInv'
    BY <1>1, <1>3 DEF Pair, Remove
  <1>4. ASSUME NEW q \in Peers, NEW m \in Texts, Push(m, q) PROVE TabInv'
    BY <1>1, <1>4 DEF Push
  <1>5. ASSUME NEW e \in Engines, Engine(e) PROVE TabInv'
    <2>1. CASE \E q \in Peers \ {e} : OpenEngine(e, q) \/ ReadHistory(e, q) \/ SendTail(e, q)
      BY <1>1, <2>1 DEF OpenEngine, ReadHistory, SendTail
    <2>2. CASE Restart(e)
      BY <1>1, <2>2 DEF Restart
    <2>3. CASE \E m \in Messages : Broadcast(e, m)
      BY <1>1, <2>3 DEF Broadcast
    <2>4. e \notin Tabs /\ Tabs \subseteq Peers /\ Texts \subseteq Messages
      BY DirFacts
    <2>5. ASSUME NEW m \in Messages, Ingested(e, m) PROVE TabInv'
      BY <2>4, <2>5, IngestedFacts, TabsQuiet
    <2>6. ASSUME NEW q \in Peers \ {e}, Ingest(e, q) PROVE TabInv'
      <3>1. wire[<<q, e>>] # <<>> /\ Ingested(e, Head(Head(wire[<<q, e>>])))
        BY <2>6 DEF Ingest
      <3> QED BY <2>4, <2>5, <3>1, HeadFacts, DirFacts
    <2>7. ASSUME NEW m \in Messages, Publish(e, m) PROVE TabInv'
      <3>1. \A t \in Tabs : t # e => reached'[t] = reached[t]
        BY <2>4, <2>7 DEF Publish, TypeOK
      <3> QED BY <2>4, <2>7, <3>1, TabsQuiet DEF Publish
    <2>8. ASSUME NEW m \in Messages, ReceiveFile(e, m) PROVE TabInv'
      BY <2>5, <2>8 DEF ReceiveFile
    <2> QED BY <1>5, <2>1, <2>2, <2>3, <2>6, <2>7, <2>8 DEF Engine
  <1>6. ASSUME NEW t \in Tabs, Tab(t) PROVE TabInv'
    <2>1. ASSUME NEW q \in Peers \ {t}, OpenTab(t, q) PROVE TabInv'
      BY <1>1, <2>1 DEF OpenTab
    <2>2. ASSUME NEW q \in Peers \ {t}, Accept(t, q) PROVE TabInv'
      <3> DEFINE packet == Elements(Head(wire[<<q, t>>])) \ TooLong
      <3>1. wire[<<q, t>>] # <<>> /\ Accepted(t, packet) /\ (Saves(t) \/ SaveFails(t, packet))
        BY <2>2 DEF Accept
      <3>2. packet \in SUBSET Texts
        BY <3>1, HeadFacts, DirFacts
      <3> HIDE DEF packet
      <3> QED BY <3>1, <3>2, AcceptedTab
    <2>3. ASSUME NEW m \in Messages, SendDraft(t, m) \/ SendDraftThrows(t, m) PROVE TabInv'
      BY <2>3, AcceptedTab DEF SendDraft, SendDraftThrows, Writes
    <2>4. ASSUME NEW m \in Messages, SendFile(t, m) PROVE TabInv'
      BY <1>1, <2>4 DEF SendFile
    <2>5. CASE Reload(t)
      <3>1. t \in Peers /\ Tabs \subseteq Peers
        BY DirFacts
      <3>2. /\ \A u \in Tabs : u # t => /\ messages'[u] = messages[u] /\ messageIDs'[u] = messageIDs[u]
                                        /\ reached'[u] = reached[u] /\ unsaved'[u] = unsaved[u]
            /\ saved' = saved
            /\ messages'[t] = saved[t] /\ messageIDs'[t] = saved[t] /\ unsaved'[t] = {}
            /\ reached'[t] = reached[t] \ unsaved[t]
        BY <2>5, <3>1 DEF Reload, TypeOK
      <3>3. TabOK(t)'
        <4> saved[t] \subseteq reached[t] \ unsaved[t] BY DEF TabInv, TabOK, Windows
        <4> QED BY <3>2 DEF TabInv, TabOK, Windows
      <3>4. \A u \in Tabs : u # t => TabOK(u)'
        <4> SUFFICES ASSUME NEW u \in Tabs, u # t PROVE TabOK(u)'
          OBVIOUS
        <4>1. /\ messages'[u] = messages[u] /\ messageIDs'[u] = messageIDs[u]
              /\ reached'[u] = reached[u] /\ saved'[u] = saved[u] /\ unsaved'[u] = unsaved[u]
          BY <3>2
        <4> QED BY <4>1 DEF TabInv, TabOK, Windows
      <3> QED BY <3>3, <3>4 DEF TabInv
    <2> QED BY <1>6, <2>1, <2>2, <2>3, <2>4, <2>5 DEF Tab
  <1> QED BY <1>2, <1>3, <1>4, <1>5, <1>6 DEF Next

LEMMA TabsInit == Init => TabInv
  <1> SUFFICES ASSUME Init PROVE TabInv OBVIOUS
  <1>1. {} \in Windows({})
    <2> {} \in SUBSET Texts /\ Cardinality({}) = 0 /\ MaxTail \in Nat
      BY FS_EmptySet, BoundsAssumption
    <2> QED BY WindowIf
  <1>2. ASSUME NEW t \in Tabs PROVE TabOK(t)
    <2>1. t \in Peers
      BY DirFacts
    <2>2. reached[t] \cap Texts = {} /\ (reached[t] \ unsaved[t]) \cap Texts = {}
      BY <2>1 DEF Init
    <2>3. messages[t] = {} /\ messageIDs[t] = {} /\ saved[t] = {}
      BY DEF Init
    <2> HIDE DEF Init
    <2> QED BY <1>1, <2>2, <2>3 DEF TabOK
  <1> QED BY <1>2 DEF TabInv

\* What a tab shows is a newest window of what came to it, MAX_HISTORY messages none of which
\* is older than one left out, in whatever order they came, however often, with whatever
\* stamps, and whatever was reloaded and not saved in between (acceptMessage, app.js:560).
THEOREM TabsCorrect == Spec => []TabShowsNewest
  <1>1. TabInv => TabShowsNewest
    BY DEF TabInv, TabOK, TabShowsNewest
  <1> QED BY <1>1, TabsInit, TabStep, TypeCorrect, PTL DEF Spec

-----------------------------------------------------------------------------
(***************************************************************************)
(* Delivery.  While both ends exist and this one is open, what the channel *)
(* owes has come or is under way (on the wire, in the tail that is being   *)
(* sent, or with the broadcast of its author), or it is excused.           *)
(***************************************************************************)
Holds(packets, m) == \E x \in Elements(packets) : m \in Elements(x)

Coming(d, m) ==
  \/ Holds(wire[d], m)
  \/ greeting[d] # Unread /\ Holds(greeting[d], m)
  \/ Author[m] = d[1] /\ (m \in publishing \/ <<m, d[2]>> \in pushes)

Live(d) == d \in open /\ Linked(d[1], d[2])
Come(d, m) == m \in reached[d[2]] \/ m \in Excused(d)
FlowOK(d) == \A m \in owed[d] : Come(d, m) \/ Coming(d, m)

FlowInv ==
  \A d \in Dirs :
    /\ owed[d] # {} \/ greeting[d] # <<>> => d \in open
    /\ Live(d) => FlowOK(d)

LEMMA HoldsConcat ==
  ASSUME NEW T, NEW s \in Seq(T), NEW t \in Seq(T), NEW m
  PROVE  Holds(s \o t, m) <=> Holds(s, m) \/ Holds(t, m)
  <1>1. Elements(s \o t) = Elements(s) \cup Elements(t)
    <2>1. /\ Len(s) \in Nat /\ Len(t) \in Nat /\ Len(s \o t) = Len(s) + Len(t)
          /\ \A i \in 1..(Len(s) + Len(t)) : (s \o t)[i] = IF i <= Len(s) THEN s[i] ELSE t[i - Len(s)]
      BY ConcatProperties
    <2>2. \A i \in 1..Len(s) : i \in 1..(Len(s) + Len(t)) /\ (s \o t)[i] = s[i]
      BY <2>1
    <2>3. \A i \in 1..Len(t) : i + Len(s) \in 1..(Len(s) + Len(t)) /\ (s \o t)[i + Len(s)] = t[i]
      BY <2>1
    <2>4. \A i \in 1..(Len(s) + Len(t)) : i \in 1..Len(s) \/ i - Len(s) \in 1..Len(t)
      BY <2>1
    <2>5. Elements(s \o t) \subseteq Elements(s) \cup Elements(t)
      BY <2>1, <2>4 DEF Elements
    <2>6. Elements(s) \subseteq Elements(s \o t)
      BY <2>1, <2>2 DEF Elements
    <2>7. Elements(t) \subseteq Elements(s \o t)
      BY <2>1, <2>3 DEF Elements
    <2> QED BY <2>5, <2>6, <2>7
  <1> QED BY <1>1 DEF Holds

LEMMA HeadOrTail ==
  ASSUME NEW T, NEW s \in Seq(T), s # <<>>
  PROVE  Elements(s) = {Head(s)} \cup Elements(Tail(s))
  <1>1. /\ Len(s) \in Nat /\ Len(s) >= 1 /\ Head(s) = s[1] /\ Len(Tail(s)) = Len(s) - 1
        /\ \A i \in 1..(Len(s) - 1) : Tail(s)[i] = s[i + 1]
    OBVIOUS
  <1>2. \A i \in 1..Len(s) : i = 1 \/ (i - 1 \in 1..(Len(s) - 1) /\ Tail(s)[i - 1] = s[i])
    BY <1>1
  <1>3. \A i \in 1..(Len(s) - 1) : i + 1 \in 1..Len(s)
    BY <1>1
  <1>4. Elements(s) \subseteq {Head(s)} \cup Elements(Tail(s))
    BY <1>1, <1>2 DEF Elements
  <1>5. Elements(Tail(s)) \subseteq Elements(s)
    BY <1>1, <1>3 DEF Elements
  <1>6. Head(s) \in Elements(s)
    BY <1>1 DEF Elements
  <1> QED BY <1>4, <1>5, <1>6

LEMMA HoldsOne ==
  ASSUME NEW x, NEW m
  PROVE  Holds(<<x>>, m) <=> m \in Elements(x)
  <1>1. Elements(<<x>>) = {x}
    BY DEF Elements
  <1> QED BY <1>1 DEF Holds

\* A step that takes nothing from a channel that was live before and is live after it.
LEMMA FlowKept ==
  ASSUME FlowInv, NEW d \in Dirs, Live(d), owed'[d] = owed[d],
         reached[d[2]] \subseteq reached'[d[2]], withheld[d] \subseteq withheld'[d],
         \A m \in owed[d] : Coming(d, m) => Coming(d, m)' \/ Come(d, m)'
  PROVE  FlowOK(d)'
  <1>1. \A m : Come(d, m) => Come(d, m)'
    BY DEF Come, Excused
  <1>2. ASSUME NEW m \in owed'[d] PROVE Come(d, m)' \/ Coming(d, m)'
    <2>1. Come(d, m) \/ Coming(d, m)
      BY <1>2 DEF FlowInv, FlowOK
    <2> QED BY <1>1, <2>1
  <1> QED BY <1>2 DEF FlowOK

\* So does a step that leaves the ends, the debts and the packets alone.
LEMMA FlowQuiet ==
  ASSUME FlowInv, UNCHANGED <<ends, open, greeting, wire, owed, withheld, publishing, pushes>>,
         \A p \in Peers : reached[p] \subseteq reached'[p]
  PROVE  FlowInv'
  <1>1. ASSUME NEW d \in Dirs, Live(d)' PROVE FlowOK(d)'
    <2>1. Live(d)
      BY <1>1 DEF Live, Linked
    <2>2. d[2] \in Peers
      BY DirFacts
    <2> QED BY <2>1, <2>2, FlowKept DEF Coming
  <1> QED BY <1>1 DEF FlowInv

LEMMA FlowChannels ==
  ASSUME TypeOK, FlowInv, NEW d \in Dirs, Pair(d[1], d[2]) \/ Remove(d[1], d[2])
  PROVE  FlowInv'
  <1>1. d = <<d[1], d[2]>> /\ <<d[2], d[1]>> \in Dirs /\ d[1] # d[2]
    BY DirFacts
  <1>2. CASE Pair(d[1], d[2])
    <2>1. ASSUME NEW c \in Dirs, Live(c)' PROVE FlowOK(c)'
      <3>1. Live(c)
        BY <1>2, <2>1, DirFacts DEF Pair, Live, Linked, TypeOK
      <3> QED BY <1>2, <3>1, FlowKept DEF Pair, feeds, Coming
    <2> QED BY <1>2, <2>1 DEF Pair, FlowInv
  <1>3. CASE Remove(d[1], d[2])
    <2>1. /\ ends' = ends \ {d} /\ open' = open \ {d} /\ UNCHANGED <<reached, publishing>>
          /\ pushes' = {s \in pushes : <<Author[s[1]], s[2]>> # d}
      BY <1>1, <1>3 DEF Remove, feeds
    <2>2. \A c \in Dirs : c \notin {d, <<d[2], d[1]>>} =>
             /\ greeting'[c] = greeting[c] /\ wire'[c] = wire[c]
             /\ owed'[c] = owed[c] /\ withheld'[c] = withheld[c]
      BY <1>1, <1>3 DEF Remove, TypeOK
    <2>3. /\ owed'[d] = {} /\ owed'[<<d[2], d[1]>>] = {} /\ greeting'[d] = <<>>
          /\ \A c \in Dirs : c # d => greeting'[c] = greeting[c]
      BY <1>1, <1>3 DEF Remove, TypeOK
    <2>4. ASSUME NEW c \in Dirs, Live(c)' PROVE FlowOK(c)'
      <3>1. c # d /\ c # <<d[2], d[1]>> /\ Live(c)
        BY <1>1, <2>1, <2>4, DirFacts DEF Live, Linked
      <3>2. \A m : Coming(c, m) => Coming(c, m)'
        BY <2>1, <2>2, <3>1, DirFacts DEF Coming
      <3> QED BY <2>1, <2>2, <3>1, <3>2, FlowKept
    <2>5. \A c \in Dirs : owed'[c] # {} \/ greeting'[c] # <<>> => c \in open'
      <3> SUFFICES ASSUME NEW c \in Dirs, owed'[c] # {} \/ greeting'[c] # <<>> PROVE c \in open'
        OBVIOUS
      <3>1. c # d /\ (owed[c] # {} \/ greeting[c] # <<>>)
        BY <2>2, <2>3
      <3>2. c \in open
        BY <3>1 DEF FlowInv
      <3> QED BY <2>1, <3>1, <3>2
    <2> QED BY <2>4, <2>5 DEF FlowInv
  <1> QED BY <1>2, <1>3

LEMMA FlowGone ==
  ASSUME TypeOK, FlowInv, NEW p \in Peers, Gone(p),
         \A q \in Peers : q # p => reached'[q] = reached[q]
  PROVE  FlowInv'
  <1>1. \A c \in Dirs :
           /\ IF p \in {c[1], c[2]} THEN owed'[c] = {}
              ELSE wire'[c] = wire[c] /\ owed'[c] = owed[c] /\ withheld'[c] = withheld[c]
           /\ greeting'[c] = IF c[1] = p THEN <<>> ELSE greeting[c]
    BY DEF Gone
  <1>2. ASSUME NEW c \in Dirs, Live(c)' PROVE FlowOK(c)'
    <2>1. c[1] # p /\ c[2] # p /\ Live(c)
      BY <1>2, DirFacts DEF Gone, Live, Linked
    <2>2. \A m : Coming(c, m) => Coming(c, m)'
      BY <1>1, <2>1 DEF Coming, Gone
    <2> QED BY <1>1, <2>1, <2>2, DirFacts, FlowKept
  <1>3. ASSUME NEW c \in Dirs, owed'[c] # {} \/ greeting'[c] # <<>> PROVE c \in open'
    <2>1. c[1] # p /\ (owed[c] # {} \/ greeting[c] # <<>>)
      BY <1>1, <1>3
    <2>2. c \in open
      BY <2>1 DEF FlowInv
    <2> QED BY <2>1, <2>2 DEF Gone
  <1> QED BY <1>2, <1>3 DEF FlowInv

LEMMA UnreadNotEmpty == Unread # <<>>
  <1>1. <<>> \in Seq(Seq(Texts))
    OBVIOUS
  <1> QED BY <1>1, UnreadAssumption

\* Packets are put on wires: what was coming is coming still.
LEMMA FlowWired ==
  ASSUME TypeOK, FlowInv, NEW p, NEW to, NEW packets \in Seq(Packet),
         wire' = Wired(p, to, packets)
  PROVE  \A d \in Dirs : \A m : /\ Holds(wire[d], m) => Holds(wire[d], m)'
                                /\ Live(d) /\ d[1] = p /\ d[2] \in to /\ Holds(packets, m)
                                     => Holds(wire[d], m)'
  <1> SUFFICES ASSUME NEW d \in Dirs, NEW m
               PROVE  /\ Holds(wire[d], m) => Holds(wire[d], m)'
                      /\ Live(d) /\ d[1] = p /\ d[2] \in to /\ Holds(packets, m)
                           => Holds(wire[d], m)'
    OBVIOUS
  <1>1. wire'[d] = IF d[1] = p /\ d[2] \in to /\ d \in open /\ Linked(p, d[2])
                   THEN wire[d] \o packets ELSE wire[d]
    BY WiredFacts
  <1>2. wire[d] \in Seq(Packet)
    BY DEF TypeOK, Packet
  <1>3. Holds(wire[d] \o packets, m) <=> Holds(wire[d], m) \/ Holds(packets, m)
    BY <1>2, HoldsConcat
  <1> QED BY <1>1, <1>3 DEF Live, Holds

\* A packet is sent, or fails to be: what was coming is coming still, and what was to go with
\* it is on the wire, or withheld.
LEMMA FlowSend ==
  ASSUME TypeOK, FlowInv, NEW p, NEW q, NEW packet \in Packet, Send(p, q, packet)
  PROVE  \A d \in Dirs :
           /\ withheld[d] \subseteq withheld'[d]
           /\ \A m : /\ Holds(wire[d], m) => Holds(wire[d], m)'
                     /\ Live(d) /\ d[1] = p /\ d[2] = q /\ m \in Elements(packet)
                          => Holds(wire[d], m)' \/ m \in withheld'[d]
  <1>1. CASE wire' = Wired(p, {q}, <<packet>>) /\ UNCHANGED withheld
    <2> DEFINE packets == <<packet>>
    <2>1. packets \in Seq(Packet) /\ \A m : Holds(packets, m) <=> m \in Elements(packet)
      BY HoldsOne
    <2>2. wire' = Wired(p, {q}, packets)
      BY <1>1
    <2> HIDE DEF packets
    <2>3. \A d \in Dirs : \A m : /\ Holds(wire[d], m) => Holds(wire[d], m)'
                                 /\ Live(d) /\ d[1] = p /\ d[2] \in {q} /\ Holds(packets, m)
                                      => Holds(wire[d], m)'
      BY <2>1, <2>2, FlowWired
    <2> QED BY <1>1, <2>1, <2>3
  <1>2. CASE withheld' = Noted(withheld, p, {q}, Elements(packet)) /\ UNCHANGED wire
    <2>1. Elements(packet) \in SUBSET Texts /\ withheld \in [Dirs -> SUBSET Texts]
      BY DEF Elements, Packet, TypeOK
    <2>2. \A d \in Dirs : /\ withheld[d] \subseteq withheld'[d]
                          /\ d[1] = p /\ d[2] \in {q} /\ d \in open /\ Linked(p, d[2])
                               => Elements(packet) \subseteq withheld'[d]
      BY <1>2, <2>1, NotedFacts
    <2> QED BY <1>2, <2>2 DEF Live
  <1> QED BY <1>1, <1>2 DEF Send

LEMMA FlowPush ==
  ASSUME TypeOK, FlowInv, NEW q \in Peers, NEW m \in Texts, Push(m, q)
  PROVE  FlowInv'
  <1>1. \A d \in Dirs : /\ withheld[d] \subseteq withheld'[d]
                        /\ \A x : Holds(wire[d], x) => Holds(wire[d], x)'
                        /\ Live(d) /\ d[1] = Author[m] /\ d[2] = q
                             => Holds(wire[d], m)' \/ m \in withheld'[d]
    <2> DEFINE packet == <<m>>
    <2>1. packet \in Packet /\ Send(Author[m], q, packet) /\ m \in Elements(packet)
      BY DEF Push, Packet, Elements
    <2> HIDE DEF packet
    <2> QED BY <2>1, FlowSend
  <1>2. /\ UNCHANGED <<ends, open, greeting, owed, publishing, reached>>
        /\ pushes' = pushes \ {<<m, q>>}
    BY DEF Push, feeds
  <1>3. ASSUME NEW d \in Dirs, Live(d)' PROVE FlowOK(d)'
    <2>1. Live(d)
      BY <1>2, <1>3 DEF Live, Linked
    <2>2. ASSUME NEW x, Coming(d, x) PROVE Coming(d, x)' \/ Come(d, x)'
      <3>1. CASE Author[x] = d[1] /\ <<x, d[2]>> \in pushes /\ x = m /\ d[2] = q
        BY <1>1, <2>1, <3>1 DEF Coming, Come, Excused
      <3>2. CASE ~ (Author[x] = d[1] /\ <<x, d[2]>> \in pushes /\ x = m /\ d[2] = q)
        BY <1>1, <1>2, <2>2, <3>2 DEF Coming
      <3> QED BY <3>1, <3>2
    <2> QED BY <1>1, <1>2, <2>1, <2>2, FlowKept
  <1> QED BY <1>2, <1>3 DEF FlowInv

LEMMA FlowOpens ==
  ASSUME TypeOK, FlowInv, NEW e \in Engines, NEW q \in Peers \ {e},
         OpenEngine(e, q) \/ ReadHistory(e, q) \/ SendTail(e, q)
  PROVE  FlowInv'
  <1> DEFINE c == <<e, q>>
  <1>1. c \in Dirs /\ c[1] = e /\ c[2] = q
    BY DirFacts
  <1> HIDE DEF c
  <1>2. CASE OpenEngine(e, q)
    <2>1. /\ c \notin open /\ open' = open \cup {c}
          /\ \A d \in Dirs : d # c => greeting'[d] = greeting[d]
          /\ UNCHANGED <<ends, wire, owed, withheld, publishing, pushes, reached>>
      BY <1>1, <1>2 DEF OpenEngine, TypeOK, feeds, c
    <2>3. \A d \in Dirs : owed'[d] # {} \/ greeting'[d] # <<>> => d \in open'
      BY <2>1 DEF FlowInv
    <2>2. ASSUME NEW d \in Dirs, Live(d)' PROVE FlowOK(d)'
      <3>1. CASE d = c
        BY <1>1, <2>1, <3>1 DEF FlowInv, FlowOK
      <3>2. CASE d # c
        <4>1. Live(d)
          BY <2>1, <2>2, <3>2 DEF Live, Linked
        <4>2. \A x : Coming(d, x) => Coming(d, x)'
          BY <2>1, <3>2 DEF Coming
        <4> QED BY <2>1, <4>1, <4>2, FlowKept
      <3> QED BY <3>1, <3>2
    <2> QED BY <2>2, <2>3 DEF FlowInv
  <1>3. CASE ReadHistory(e, q)
    <2> DEFINE packets == Packets(msgs[e])
    <2>1. /\ packets \in Seq(Packet)
          /\ \A x \in Shown(e) \cap Texts : Holds(packets, x)
      <3>1. msgs[e] \in Seq(Messages) /\ Shown(e) = Elements(msgs[e])
        BY DEF TypeOK, Shown
      <3> QED BY <3>1, PacketsFacts DEF Packet, Holds
    <2>2. /\ greeting[c] = Unread /\ greeting'[c] = packets
          /\ owed'[c] = owed[c] \cup (Shown(e) \cap Texts)
          /\ \A d \in Dirs : d # c => greeting'[d] = greeting[d] /\ owed'[d] = owed[d]
          /\ UNCHANGED <<ends, open, wire, withheld, publishing, pushes, reached>>
      BY <1>1, <1>3 DEF ReadHistory, TypeOK, feeds, c
    <2>3. packets # Unread
      <3>1. Packet \subseteq Seq(Texts)
        BY DEF Packet
      <3>2. packets \in Seq(Seq(Texts))
        <4> HIDE DEF packets, Packet
        <4> QED BY <2>1, <3>1, SeqMonotonic
      <3> QED BY <3>2, UnreadAssumption
    <2> HIDE DEF packets
    <2>4. ASSUME NEW d \in Dirs, Live(d)' PROVE FlowOK(d)'
      <3>1. Live(d)
        BY <2>2, <2>4 DEF Live, Linked
      <3>2. CASE d = c
        <4>1. \A x : Coming(c, x) => Coming(c, x)'
          BY <2>2 DEF Coming
        <4>2. \A x \in Shown(e) \cap Texts : Coming(c, x)'
          BY <2>1, <2>2, <2>3 DEF Coming
        <4>3. FlowOK(c)
          BY <3>1, <3>2 DEF FlowInv
        <4>4. ASSUME NEW x \in owed'[c] PROVE Come(c, x)' \/ Coming(c, x)'
          <5>1. CASE x \in owed[c]
            <6>1. Come(c, x) \/ Coming(c, x)
              BY <4>3, <5>1 DEF FlowOK
            <6> QED BY <2>2, <4>1, <6>1 DEF Come, Excused
          <5>2. CASE x \in Shown(e) \cap Texts
            BY <4>2, <5>2
          <5> QED BY <2>2, <4>4, <5>1, <5>2
        <4> QED BY <3>2, <4>4 DEF FlowOK
      <3>3. CASE d # c
        <4>1. \A x : Coming(d, x) => Coming(d, x)'
          BY <2>2, <3>3 DEF Coming
        <4> QED BY <2>2, <3>1, <3>3, <4>1, FlowKept
      <3> QED BY <3>2, <3>3
    <2>5. ASSUME NEW d \in Dirs, owed'[d] # {} \/ greeting'[d] # <<>> PROVE d \in open'
      <3>1. CASE d # c
        BY <2>2, <2>5, <3>1 DEF FlowInv
      <3>2. CASE d = c
        <4>1. c \in open
          BY <1>1, <2>2, UnreadNotEmpty DEF FlowInv
        <4> QED BY <2>2, <3>2, <4>1
      <3> QED BY <3>1, <3>2
    <2> QED BY <2>4, <2>5 DEF FlowInv
  <1>4. CASE SendTail(e, q)
    <2>1. greeting[c] \in Seq(Packet) /\ greeting[c] # <<>> /\ greeting[c] # Unread
      BY <1>1, <1>4 DEF SendTail, TypeOK, Packet, c
    <2> DEFINE h == Head(greeting[c])
    <2>2. h \in Packet /\ Send(e, q, h)
      BY <1>4, <2>1 DEF SendTail, c
    <2>3. /\ greeting'[c] = Tail(greeting[c])
          /\ \A d \in Dirs : d # c => greeting'[d] = greeting[d]
          /\ UNCHANGED <<ends, open, owed, publishing, pushes, reached>>
      BY <1>1, <1>4 DEF SendTail, TypeOK, feeds, c
    <2>4. Elements(greeting[c]) = {h} \cup Elements(Tail(greeting[c]))
      BY <2>1, HeadOrTail
    <2> HIDE DEF h
    <2>6. \A d \in Dirs : /\ withheld[d] \subseteq withheld'[d]
                          /\ \A x : /\ Holds(wire[d], x) => Holds(wire[d], x)'
                                    /\ Live(d) /\ d = c /\ x \in Elements(h)
                                         => Holds(wire[d], x)' \/ x \in withheld'[d]
      BY <1>1, <2>2, FlowSend
    <2>7. greeting'[c] # Unread
      <3>1. Packet \subseteq Seq(Texts)
        BY DEF Packet
      <3>2. greeting'[c] \in Seq(Packet)
        <4> HIDE DEF Packet
        <4> QED BY <2>1, <2>3
      <3>3. greeting'[c] \in Seq(Seq(Texts))
        <4> HIDE DEF Packet
        <4> QED BY <3>1, <3>2, SeqMonotonic
      <3> QED BY <3>3, UnreadAssumption
    <2>8. ASSUME NEW d \in Dirs, Live(d)' PROVE FlowOK(d)'
      <3>1. Live(d)
        BY <2>3, <2>8 DEF Live, Linked
      <3>2. CASE d # c
        <4>1. \A x : Coming(d, x) => Coming(d, x)'
          BY <2>3, <2>6, <3>2 DEF Coming
        <4> QED BY <2>3, <2>6, <3>1, <4>1, FlowKept
      <3>3. CASE d = c
        <4>1. ASSUME NEW x, Coming(c, x) PROVE Coming(c, x)' \/ Come(c, x)'
          <5>1. CASE Holds(wire[c], x)
            BY <1>1, <2>6, <5>1 DEF Coming
          <5>2. CASE Holds(greeting[c], x)
            <6>1. x \in Elements(h) \/ Holds(greeting[c], x)'
              BY <2>3, <2>4, <5>2 DEF Holds
            <6> QED BY <1>1, <2>6, <2>7, <3>1, <3>3, <6>1 DEF Coming, Come, Excused
          <5>3. CASE Author[x] = c[1] /\ (x \in publishing \/ <<x, c[2]>> \in pushes)
            BY <2>3, <5>3 DEF Coming
          <5> QED BY <4>1, <5>1, <5>2, <5>3 DEF Coming
        <4> QED BY <2>3, <2>6, <3>1, <3>3, <4>1, FlowKept
      <3> QED BY <3>2, <3>3
    <2>9. ASSUME NEW d \in Dirs, owed'[d] # {} \/ greeting'[d] # <<>> PROVE d \in open'
      <3>1. owed[d] # {} \/ greeting[d] # <<>>
        BY <2>1, <2>3, <2>9
      <3> QED BY <2>3, <3>1 DEF FlowInv
    <2> QED BY <2>8, <2>9 DEF FlowInv
  <1> QED BY <1>2, <1>3, <1>4

\* Something is taken from the wire of c, and comes to the other end.
LEMMA FlowTaken ==
  ASSUME TypeOK, FlowInv, NEW c \in Dirs,
         UNCHANGED <<ends, open, greeting, owed, withheld, publishing, pushes>>,
         \A d \in Dirs : d # c => wire'[d] = wire[d],
         \A p \in Peers : reached[p] \subseteq reached'[p],
         \A m : Holds(wire[c], m) => Come(c, m)' \/ Holds(wire[c], m)'
  PROVE  FlowInv'
  <1>1. ASSUME NEW d \in Dirs, Live(d)' PROVE FlowOK(d)'
    <2>1. Live(d) /\ d[2] \in Peers
      BY <1>1, DirFacts DEF Live, Linked
    <2>2. \A m : Coming(d, m) => Coming(d, m)' \/ Come(d, m)'
      <3>1. CASE d = c
        BY <3>1 DEF Coming
      <3>2. CASE d # c
        BY <3>2 DEF Coming
      <3> QED BY <3>1, <3>2
    <2> QED BY <2>1, <2>2, FlowKept
  <1> QED BY <1>1 DEF FlowInv

\* p writes m, and m sets out on every live channel of p.
LEMMA FlowOwes ==
  ASSUME TypeOK, FlowInv, NEW p, NEW m, owed' = Owing(p, m),
         UNCHANGED <<ends, open, greeting>>,
         \A q \in Peers : reached[q] \subseteq reached'[q],
         \A d \in Dirs : withheld[d] \subseteq withheld'[d],
         \A d \in Dirs, x \in Messages : Coming(d, x) => Coming(d, x)',
         \A d \in Dirs : Live(d) /\ d[1] = p /\ m \in Texts => Coming(d, m)' \/ m \in withheld'[d]
  PROVE  FlowInv'
  <1>1. \A d \in Dirs : owed'[d] = IF d[1] = p /\ d[2] \in Peers /\ d \in open /\ Linked(p, d[2])
                                   THEN owed[d] \cup ({m} \cap Texts) ELSE owed[d]
    BY DEF Owing, Noted
  <1>2. ASSUME NEW d \in Dirs, Live(d)' PROVE FlowOK(d)'
    <2>1. Live(d) /\ d[2] \in Peers
      BY <1>2, DirFacts DEF Live, Linked
    <2>2. ASSUME NEW x \in owed'[d] PROVE Come(d, x)' \/ Coming(d, x)'
      <3>1. CASE x \in owed[d]
        <4>1. Come(d, x) \/ Coming(d, x)
          BY <2>1, <3>1 DEF FlowInv, FlowOK
        <4>2. x \in Messages
          BY <3>1, DirFacts DEF TypeOK
        <4> QED BY <2>1, <4>1, <4>2 DEF Come, Excused
      <3>2. CASE x \notin owed[d]
        <4>1. x = m /\ m \in Texts /\ d[1] = p
          BY <1>1, <2>2, <3>2
        <4> QED BY <2>1, <4>1 DEF Come, Excused
      <3> QED BY <3>1, <3>2
    <2> QED BY <2>2 DEF FlowOK
  <1>3. ASSUME NEW d \in Dirs, owed'[d] # {} \/ greeting'[d] # <<>> PROVE d \in open'
    <2>1. d \in open \/ owed[d] # {} \/ greeting[d] # <<>>
      BY <1>1, <1>3
    <2> QED BY <2>1 DEF FlowInv
  <1> QED BY <1>2, <1>3 DEF FlowInv

LEMMA FlowEngine ==
  ASSUME TypeOK, FlowInv, NEW e \in Engines
  PROVE  /\ \A q \in Peers \ {e} : Ingest(e, q) => FlowInv'
         /\ \A m \in Messages : Publish(e, m) \/ Broadcast(e, m) \/ ReceiveFile(e, m) => FlowInv'
         /\ Restart(e) => FlowInv'
  <1>1. ASSUME NEW q \in Peers \ {e}, Ingest(e, q) PROVE FlowInv'
    <2> DEFINE c == <<q, e>>
               h == Head(wire[c])
    <2>1. c \in Dirs /\ c[2] = e /\ Texts \subseteq Messages
      BY DirFacts
    <2>2. wire[c] # <<>> /\ Ingested(e, Head(h))
      BY <1>1 DEF Ingest
    <2>3. /\ h \in Packet /\ Head(h) \in Texts /\ Tail(wire[c]) \in Seq(Packet)
          /\ Len(h) # 1 => <<Tail(h)>> \o Tail(wire[c]) \in Seq(Packet)
      BY <2>1, <2>2, HeadFacts
    <2>4. Head(h) \in reached'[e] /\ \A p \in Peers : reached[p] \subseteq reached'[p]
      BY <2>1, <2>2, <2>3, IngestedFacts
    <2>5. /\ wire'[c] = IF Len(h) = 1 THEN Tail(wire[c]) ELSE <<Tail(h)>> \o Tail(wire[c])
          /\ \A d \in Dirs : d # c => wire'[d] = wire[d]
          /\ UNCHANGED <<ends, open, greeting, owed, withheld, publishing, pushes>>
      BY <1>1, <2>1 DEF Ingest, TypeOK
    <2>6. \A x : Holds(wire[c], x) <=> x \in Elements(h) \/ Holds(Tail(wire[c]), x)
      <3>1. wire[c] \in Seq(Packet)
        BY <2>1 DEF TypeOK, Packet
      <3>2. Elements(wire[c]) = {h} \cup Elements(Tail(wire[c]))
        BY <2>2, <3>1, HeadOrTail
      <3> HIDE DEF h, c
      <3> QED BY <3>2 DEF Holds
    <2>7. Elements(h) = {Head(h)} \cup Elements(Tail(h))
      <3>1. h \in Seq(Texts) /\ h # <<>>
        BY <2>3 DEF Packet
      <3> HIDE DEF h
      <3> QED BY <3>1, HeadOrTail
    <2>8. Len(h) = 1 => Elements(Tail(h)) = {}
      <3>1. h \in Seq(Texts) /\ h # <<>>
        BY <2>3 DEF Packet
      <3> HIDE DEF h
      <3>2. Len(h) = 1 => Len(Tail(h)) = 0
        BY <3>1
      <3>3. 1..0 = {}
        OBVIOUS
      <3> QED BY <3>2, <3>3 DEF Elements
    <2>9. Len(h) # 1 => \A x : x \in Elements(Tail(h)) \/ Holds(Tail(wire[c]), x)
                                 => Holds(<<Tail(h)>> \o Tail(wire[c]), x)
      <3> SUFFICES ASSUME Len(h) # 1, NEW x
                   PROVE  x \in Elements(Tail(h)) \/ Holds(Tail(wire[c]), x)
                            => Holds(<<Tail(h)>> \o Tail(wire[c]), x)
        OBVIOUS
      <3>1. Tail(h) \in Seq(Texts) /\ Tail(wire[c]) \in Seq(Packet)
        BY <2>3 DEF Packet
      <3> DEFINE T == Seq(Texts)
                 one == <<Tail(h)>>
                 rest == Tail(wire[c])
      <3>2. one \in Seq(T) /\ (Holds(one, x) <=> x \in Elements(Tail(h)))
        <4>1. one \in Seq(T)
          BY <3>1
        <4>2. Holds(one, x) <=> x \in Elements(Tail(h))
          BY HoldsOne
        <4> QED BY <4>1, <4>2
      <3>3. rest \in Seq(T)
        <4>1. Packet \subseteq T
          BY DEF Packet
        <4> HIDE DEF T, rest, Packet
        <4> QED BY <3>1, <4>1, SeqMonotonic DEF rest
      <3> HIDE DEF T, one, rest
      <3>4. Holds(one \o rest, x) <=> Holds(one, x) \/ Holds(rest, x)
        BY <3>2, <3>3, HoldsConcat
      <3> QED BY <3>2, <3>4 DEF one, rest
    <2> HIDE DEF c, h
    <2>10. \A x : Holds(wire[c], x) => x \in reached'[c[2]] \/ Holds(wire[c], x)'
      <3>1. \A x : Holds(wire'[c], x) <=> Holds(wire[c], x)'
        BY DEF Holds
      <3>2. ASSUME NEW x, Holds(wire[c], x), x # Head(h) PROVE Holds(wire'[c], x)
        <4>1. CASE Len(h) = 1
          BY <2>5, <2>6, <2>7, <2>8, <3>2, <4>1
        <4>2. CASE Len(h) # 1
          BY <2>5, <2>6, <2>7, <2>9, <3>2, <4>2
        <4> QED BY <4>1, <4>2
      <3> QED BY <2>1, <2>4, <3>1, <3>2
    <2>11. \A x : Holds(wire[c], x) => Come(c, x)' \/ Holds(wire[c], x)'
      BY <2>10 DEF Come
    <2> QED BY <2>1, <2>4, <2>5, <2>11, FlowTaken
  <1>2. ASSUME NEW m \in Messages, Publish(e, m) PROVE FlowInv'
    <2>1. /\ owed' = Owing(e, m) /\ publishing' = publishing \cup {m} /\ Author[m] = e
          /\ UNCHANGED <<ends, open, greeting, wire, withheld, pushes>>
      BY <1>2 DEF Publish
    <2>2. \A q \in Peers : reached[q] \subseteq reached'[q]
      BY <1>2 DEF Publish, TypeOK
    <2>3. \A d \in Dirs, x \in Messages : Coming(d, x) => Coming(d, x)'
      BY <2>1 DEF Coming
    <2>4. \A d \in Dirs : d[1] = e => Coming(d, m)'
      BY <2>1 DEF Coming
    <2> QED BY <2>1, <2>2, <2>3, <2>4, FlowOwes
  <1>3. ASSUME NEW m \in Messages, Broadcast(e, m) PROVE FlowInv'
    <2>1. /\ publishing' = publishing \ {m} /\ pushes \subseteq pushes'
          /\ Author[m] = e
          /\ m \in Texts => \A d \in ends : d[1] = e => <<m, d[2]>> \in pushes'
          /\ UNCHANGED <<ends, open, greeting, wire, owed, withheld, reached>>
      BY <1>3 DEF Broadcast, feeds
    <2>2. ASSUME NEW d \in Dirs, Live(d)' PROVE FlowOK(d)'
      <3>1. Live(d) /\ d \in ends
        BY <2>1, <2>2 DEF Live, Linked, TypeOK
      <3>2. \A x \in owed[d] : Coming(d, x) => Coming(d, x)'
        BY <2>1, <3>1 DEF Coming, TypeOK
      <3> QED BY <2>1, <3>1, <3>2, FlowKept
    <2> QED BY <2>1, <2>2 DEF FlowInv
  <1>4. ASSUME NEW m \in Messages, ReceiveFile(e, m) PROVE FlowInv'
    <2>1. \A p \in Peers : reached[p] \subseteq reached'[p]
      BY <1>4, IngestedFacts DEF ReceiveFile
    <2> QED BY <1>4, <2>1, FlowQuiet DEF ReceiveFile
  <1>5. ASSUME Restart(e) PROVE FlowInv'
    BY <1>5, FlowGone, DirFacts DEF Restart, feeds
  <1> QED BY <1>1, <1>2, <1>3, <1>4, <1>5

LEMMA FlowTab ==
  ASSUME TypeOK, FlowInv, NEW t \in Tabs
  PROVE  /\ \A q \in Peers \ {t} : OpenTab(t, q) \/ Accept(t, q) => FlowInv'
         /\ \A m \in Messages :
              SendDraft(t, m) \/ SendDraftThrows(t, m) \/ SendFile(t, m) => FlowInv'
         /\ Reload(t) => FlowInv'
  <1>1. ASSUME NEW q \in Peers \ {t}, OpenTab(t, q) PROVE FlowInv'
    <2> DEFINE c == <<t, q>>
    <2>1. c \in Dirs
      BY DirFacts
    <2>2. PICK packets \in Seq(Packet) :
            /\ wire' = [wire EXCEPT ![c] = @ \o packets]
            /\ withheld' = [withheld EXCEPT ![c] = messages[t] \ Carried(packets)]
      BY <1>1, OpenTabOut DEF OpenTab
    <2>3. \A m : m \in Carried(packets) => Holds(packets, m)
      BY DEF Carried, Holds
    <2>4. /\ c \notin open /\ open' = open \cup {c}
          /\ wire'[c] = wire[c] \o packets /\ owed'[c] = messages[t]
          /\ withheld'[c] = messages[t] \ Carried(packets)
          /\ \A d \in Dirs : d # c => /\ wire'[d] = wire[d] /\ owed'[d] = owed[d]
                                      /\ withheld'[d] = withheld[d]
          /\ UNCHANGED <<ends, greeting, publishing, pushes, reached>>
      BY <1>1, <2>1, <2>2 DEF OpenTab, TypeOK, feeds
    <2> HIDE DEF c
    <2>5. \A m : Holds(wire'[c], m) <=> Holds(wire[c], m) \/ Holds(packets, m)
      <3>1. wire[c] \in Seq(Packet)
        BY <2>1 DEF TypeOK, Packet
      <3> QED BY <2>4, <3>1, HoldsConcat
    <2>6. \A m : Holds(wire'[c], m) <=> Holds(wire[c], m)'
      BY DEF Holds
    <2>7. ASSUME NEW d \in Dirs, Live(d)' PROVE FlowOK(d)'
      <3>1. CASE d = c
        <4>2. \A m \in owed'[c] : Come(c, m)' \/ Coming(c, m)'
          BY <2>3, <2>4, <2>5, <2>6 DEF Coming, Come, Excused
        <4> QED BY <3>1, <4>2 DEF FlowOK
      <3>2. CASE d # c
        <4>1. Live(d)
          BY <2>4, <2>7, <3>2 DEF Live, Linked
        <4>2. \A m : Coming(d, m) => Coming(d, m)'
          BY <2>4, <3>2 DEF Coming
        <4> QED BY <2>4, <3>2, <4>1, <4>2, FlowKept
      <3> QED BY <3>1, <3>2
    <2>8. ASSUME NEW d \in Dirs, owed'[d] # {} \/ greeting'[d] # <<>> PROVE d \in open'
      <3>1. d = c \/ owed[d] # {} \/ greeting[d] # <<>>
        BY <2>4, <2>8
      <3> QED BY <2>4, <3>1 DEF FlowInv
    <2> QED BY <2>7, <2>8 DEF FlowInv
  <1>2. ASSUME NEW q \in Peers \ {t}, Accept(t, q) PROVE FlowInv'
    <2> DEFINE c == <<q, t>>
               packet == Elements(Head(wire[c])) \ TooLong
    <2>1. c \in Dirs /\ c[2] = t
      BY DirFacts
    <2>2. wire[c] # <<>> /\ Accepted(t, packet) /\ (Saves(t) \/ SaveFails(t, packet))
      BY <1>2 DEF Accept
    <2>3. packet \in SUBSET Texts
      BY <2>1, <2>2, HeadFacts
    <2>4. /\ wire'[c] = Tail(wire[c])
          /\ \A d \in Dirs : d # c => wire'[d] = wire[d]
          /\ UNCHANGED <<ends, open, greeting, owed, withheld, publishing, pushes>>
      BY <1>2, <2>1 DEF Accept, TypeOK
    <2>5. Elements(wire[c]) = {Head(wire[c])} \cup Elements(Tail(wire[c]))
      <3>1. wire[c] \in Seq(Packet)
        BY <2>1 DEF TypeOK, Packet
      <3> HIDE DEF c
      <3> QED BY <2>2, <3>1, HeadOrTail
    <2> HIDE DEF c
    <2>6. \A m : Holds(wire[c], m) => m \in packet \/ m \in TooLong \/ Holds(wire'[c], m)
      BY <2>4, <2>5 DEF Holds
    <2>7. \A m : Holds(wire'[c], m) <=> Holds(wire[c], m)'
      BY DEF Holds
    <2> HIDE DEF packet
    <2>8. packet \subseteq reached'[t] /\ \A p \in Peers : reached[p] \subseteq reached'[p]
      BY <2>2, <2>3, AcceptedFacts
    <2>9. \A m : Holds(wire[c], m) => Come(c, m)' \/ Holds(wire[c], m)'
      BY <2>1, <2>6, <2>7, <2>8 DEF Come, Excused
    <2> QED BY <2>1, <2>4, <2>8, <2>9, FlowTaken
  <1>3. ASSUME NEW m \in Messages, SendDraft(t, m) PROVE FlowInv'
    <2> DEFINE packets == <<<<m>>>>
    <2>1. /\ m \in Texts /\ Accepted(t, {m}) /\ Saves(t) /\ {m} \in SUBSET Texts
          /\ owed' = Owing(t, m)
          /\ UNCHANGED <<ends, open, greeting, publishing, pushes>>
      BY <1>3 DEF SendDraft, Writes
    <2>2. PICK to : wire' = Wired(t, to, packets) /\ withheld' = Noted(withheld, t, Peers \ to, {m})
      BY <1>3 DEF SendDraft
    <2>3. packets \in Seq(Packet) /\ Holds(packets, m)
      BY <2>1, OnePacket DEF Holds
    <2> HIDE DEF packets
    <2>4. \A q \in Peers : reached[q] \subseteq reached'[q]
      BY <2>1, AcceptedFacts
    <2>5. \A d \in Dirs : /\ withheld[d] \subseteq withheld'[d]
                          /\ Live(d) /\ d[1] = t /\ d[2] \notin to => m \in withheld'[d]
      <3>1. \A d \in Dirs : /\ withheld[d] \subseteq withheld'[d]
                            /\ d[1] = t /\ d[2] \in Peers \ to /\ d \in open /\ Linked(t, d[2])
                                 => {m} \subseteq withheld'[d]
        <4>1. withheld \in [Dirs -> SUBSET Texts]
          BY DEF TypeOK
        <4> QED BY <2>1, <2>2, <4>1, NotedFacts
      <3> QED BY <3>1, DirFacts DEF Live
    <2>6. \A d \in Dirs : \A x : /\ Holds(wire[d], x) => Holds(wire[d], x)'
                                 /\ Live(d) /\ d[1] = t /\ d[2] \in to /\ Holds(packets, x)
                                      => Holds(wire[d], x)'
      BY <2>2, <2>3, FlowWired
    <2>7. \A d \in Dirs, x \in Messages : Coming(d, x) => Coming(d, x)'
      BY <2>1, <2>6 DEF Coming
    <2>8. \A d \in Dirs : Live(d) /\ d[1] = t => Coming(d, m)' \/ m \in withheld'[d]
      BY <2>3, <2>5, <2>6 DEF Coming
    <2> QED BY <2>1, <2>4, <2>5, <2>7, <2>8, FlowOwes
  <1>4. ASSUME NEW m \in Messages, SendDraftThrows(t, m) PROVE FlowInv'
    <2>1. /\ Accepted(t, {m}) /\ SaveFails(t, {m}) /\ {m} \in SUBSET Texts
          /\ owed' = Owing(t, m) /\ withheld' = Noted(withheld, t, Peers, {m})
          /\ UNCHANGED <<ends, open, greeting, wire, publishing, pushes>>
      BY <1>4 DEF SendDraftThrows, Writes
    <2>2. \A p \in Peers : reached[p] \subseteq reached'[p]
      BY <2>1, AcceptedFacts
    <2>3. \A d \in Dirs : /\ withheld[d] \subseteq withheld'[d]
                          /\ Live(d) /\ d[1] = t => m \in withheld'[d]
      <3>1. \A d \in Dirs : /\ withheld[d] \subseteq withheld'[d]
                            /\ d[1] = t /\ d[2] \in Peers /\ d \in open /\ Linked(t, d[2])
                                 => {m} \subseteq withheld'[d]
        <4>1. withheld \in [Dirs -> SUBSET Texts]
          BY DEF TypeOK
        <4> QED BY <2>1, <4>1, NotedFacts
      <3> QED BY <3>1, DirFacts DEF Live
    <2>4. \A d \in Dirs, x \in Messages : Coming(d, x) => Coming(d, x)'
      BY <2>1 DEF Coming
    <2> QED BY <2>1, <2>2, <2>3, <2>4, FlowOwes
  <1>5. ASSUME NEW m \in Messages, SendFile(t, m) PROVE FlowInv'
    BY <1>5, FlowQuiet DEF SendFile, feeds
  <1>6. ASSUME Reload(t) PROVE FlowInv'
    <2>1. t \in Peers /\ Gone(t) /\ \A q \in Peers : q # t => reached'[q] = reached[q]
      BY <1>6, DirFacts DEF Reload, TypeOK
    <2> QED BY <2>1, FlowGone
  <1> QED BY <1>1, <1>2, <1>3, <1>4, <1>5, <1>6

LEMMA FlowInit == Init => FlowInv
  BY DEF Init, FlowInv, FlowOK

LEMMA FlowStep == TypeOK /\ FlowInv /\ [Next]_vars => FlowInv'
  <1> SUFFICES ASSUME TypeOK, FlowInv, [Next]_vars PROVE FlowInv'
    OBVIOUS
  <1>1. CASE UNCHANGED vars
    BY <1>1, FlowQuiet DEF vars, feeds, channels
  <1>2. ASSUME NEW e \in Engines, Engine(e) PROVE FlowInv'
    BY <1>2, FlowOpens, FlowEngine DEF Engine
  <1>3. ASSUME NEW t \in Tabs, Tab(t) PROVE FlowInv'
    BY <1>3, FlowTab DEF Tab
  <1> QED BY <1>1, <1>2, <1>3, FlowChannels, FlowPush DEF Next

LEMMA FlowEnds == TypeOK /\ FlowInv => Delivered
  <1> SUFFICES ASSUME TypeOK, FlowInv, NEW p \in Peers, NEW q \in Peers, p # q, Settled(p, q),
                      NEW m \in owed[<<p, q>>], m \notin Excused(<<p, q>>)
               PROVE  m \in reached[q]
    BY DEF Delivered
  <1> DEFINE d == <<p, q>>
  <1>1. d \in Dirs /\ Live(d)
    BY DirFacts DEF Settled, Live
  <1>2. m \in reached[q] \/ Coming(d, m)
    BY <1>1 DEF FlowInv, FlowOK, Come
  <1>3. m \in Messages
    BY <1>1, DirFacts DEF TypeOK
  <1>4. \A x : ~ Holds(<<>>, x)
    <2>1. Elements(<<>>) = {}
      BY DEF Elements
    <2> QED BY <2>1 DEF Holds
  <1>5. ~ Coming(d, m)
    BY <1>3, <1>4 DEF Settled, Coming
  <1> QED BY <1>2, <1>5

\* A message is not lost between the two ways it may take to a neighbour, the tail that an
\* opening channel sends (wireChannel, client.go:421) and the broadcast of its author, in
\* whatever order the reading of the history, the write and the broadcast come.  Excused are
\* the texts that a failed send (sendPacket, client.go:709) or a refused save kept from a
\* channel that stayed open, and those too long for a tab (validChatMessage, app.js:576).
THEOREM DeliveredCorrect == Spec => []Delivered
  <1>1. TypeOK /\ FlowInv /\ [Next]_vars => (TypeOK /\ FlowInv)'
    BY TypeStep, FlowStep
  <1> QED BY <1>1, TypeInit, FlowInit, FlowEnds, PTL DEF Spec

-----------------------------------------------------------------------------
(***************************************************************************)
(* What all tabs show in a quiet mesh.  A text a tab sent stays among what *)
(* its author has saved, and among what each of its channels owes, unless  *)
(* MaxTail others are there that are not older: the window forgets a       *)
(* message only to such, and hands both over when a channel opens.         *)
(***************************************************************************)
NotOlder(S, m) == {n \in S \ {m} : Stamp[n] >= Stamp[m]}
Has(S, m) == m \in S \/ Cardinality(NotOlder(S, m)) >= MaxTail

LEMMA NotOlderFacts ==
  ASSUME NEW B \in SUBSET Texts, NEW A \in SUBSET B, NEW m
  PROVE  /\ NotOlder(A, m) \in SUBSET A /\ Cardinality(NotOlder(A, m)) \in Nat
         /\ Cardinality(NotOlder(B, m)) \in Nat
         /\ Cardinality(NotOlder(A, m)) <= Cardinality(NotOlder(B, m))
  <1>1. /\ NotOlder(B, m) \in SUBSET Texts /\ NotOlder(A, m) \in SUBSET NotOlder(B, m)
        /\ NotOlder(A, m) \in SUBSET A
    BY DEF NotOlder
  <1> QED BY <1>1, FiniteTexts, LargerSet

LEMMA SavedGiven ==
  ASSUME TabInv, NEW t \in Tabs
  PROVE  saved[t] \subseteq reached[t] \cap Texts
  BY DEF TabInv, TabOK, Windows

LEMMA HasMore ==
  ASSUME NEW B \in SUBSET Texts, NEW A \in SUBSET B, NEW m \in Texts, Has(A, m)
  PROVE  Has(B, m)
  <1>1. MaxTail \in Nat
    BY BoundsAssumption
  <1> QED BY <1>1, NotOlderFacts DEF Has

\* A window has what its set has.
LEMMA HasWindow ==
  ASSUME NEW R \in SUBSET Texts, NEW W \in Windows(R), NEW m \in Texts, Has(R, m)
  PROVE  Has(W, m)
  <1>1. /\ W \in SUBSET R /\ Cardinality(W) \in Nat
        /\ W # R => Cardinality(W) = MaxTail
        /\ \A k \in W, n \in R \ W : Stamp[n] <= Stamp[k]
    BY WindowFacts
  <1>2. CASE m \in W \/ W = R
    BY <1>2 DEF Has
  <1>3. CASE m \notin W /\ W # R
    <2>1. Cardinality(W) = MaxTail /\ MaxTail \in Nat
      BY <1>1, <1>3, BoundsAssumption
    <2>2. \A n \in R : Stamp[n] \in Nat
      BY StampAssumption
    <2>3. ASSUME NEW w \in W PROVE Stamp[w] >= Stamp[m]
      <3>1. CASE m \in R
        BY <1>1, <1>3, <2>2, <3>1
      <3>2. CASE m \notin R
        <4> SUFFICES ASSUME Stamp[w] < Stamp[m] PROVE FALSE
          BY <1>1, <2>2, StampAssumption
        <4>1. NotOlder(R, m) \in SUBSET W /\ w \notin NotOlder(R, m)
          <5>1. ASSUME NEW n \in R \ W PROVE Stamp[n] < Stamp[m]
            <6>1. Stamp[n] <= Stamp[w] /\ Stamp[n] \in Nat /\ Stamp[w] \in Nat /\ Stamp[m] \in Nat
              BY <1>1, <2>2, StampAssumption
            <6> QED BY <6>1
          <5>2. Stamp[w] \in Nat /\ Stamp[m] \in Nat /\ \A n \in R : Stamp[n] \in Nat
            BY <1>1, <2>2, StampAssumption
          <5> QED BY <5>1, <5>2 DEF NotOlder
        <4>2. Cardinality(NotOlder(R, m)) < MaxTail
          <5> W \in SUBSET Texts /\ NotOlder(R, m) # W
            BY <1>1, <4>1
          <5> QED BY <2>1, <4>1, LargerSet
        <4>3. Cardinality(NotOlder(R, m)) >= MaxTail /\ Cardinality(NotOlder(R, m)) \in Nat
          BY <3>2, NotOlderFacts DEF Has
        <4> QED BY <2>1, <4>2, <4>3
      <3> QED BY <3>1, <3>2
    <2>4. NotOlder(W, m) = W
      BY <1>3, <2>3 DEF NotOlder
    <2> QED BY <2>1, <2>4 DEF Has
  <1> QED BY <1>2, <1>3

\* What no window of All leaves out is in all that has it.
LEMMA SureHas ==
  ASSUME NEW All \in SUBSET Texts, NEW m \in Sure(All), NEW S \in SUBSET All, Has(S, m)
  PROVE  m \in S
  <1>1. Cardinality(NotOlder(All, m)) < MaxTail /\ MaxTail \in Nat
    BY BoundsAssumption DEF Sure, NotOlder
  <1>2. Cardinality(NotOlder(S, m)) <= Cardinality(NotOlder(All, m))
        /\ Cardinality(NotOlder(S, m)) \in Nat /\ Cardinality(NotOlder(All, m)) \in Nat
    BY NotOlderFacts
  <1> QED BY <1>1, <1>2 DEF Has

OfTab(m) == m \in sent \cap Texts /\ Author[m] \in Tabs

KeepInv ==
  \A m \in Texts : OfTab(m) =>
    /\ Has(saved[Author[m]], m)
    /\ \A d \in Dirs : d[1] = Author[m] /\ Live(d) => Has(owed[d], m)

\* What a tab has saved is no more than what it was given.
LEMMA HasShown ==
  ASSUME TypeOK, TabInv, KeepInv, NEW m \in Texts, OfTab(m)
  PROVE  Has(messages[Author[m]], m)
  <1> DEFINE t == Author[m]
             R == reached[t] \cap Texts
  <1>1. t \in Tabs /\ Has(saved[t], m) /\ messages[t] \in Windows(R) /\ saved[t] \subseteq R
    BY SavedGiven DEF OfTab, KeepInv, TabInv, TabOK
  <1>2. R \in SUBSET Texts
    OBVIOUS
  <1> HIDE DEF R, t
  <1>3. Has(R, m)
    BY <1>1, <1>2, HasMore
  <1> QED BY <1>1, <1>2, <1>3, HasWindow DEF t

\* Steps that lose nothing: a channel that lives has lived, and owes what it owed.
LEMMA KeepKept ==
  ASSUME TypeOK', KeepInv, UNCHANGED saved,
         \A m \in Texts : OfTab(m)' => OfTab(m),
         \A d \in Dirs : d[1] \in Tabs /\ Live(d)' => Live(d) /\ owed[d] \subseteq owed'[d]
  PROVE  KeepInv'
  <1> SUFFICES ASSUME NEW m \in Texts, OfTab(m)'
               PROVE  /\ Has(saved'[Author[m]], m)
                      /\ \A d \in Dirs : d[1] = Author[m] /\ Live(d)' => Has(owed'[d], m)
    BY DEF KeepInv, Has, NotOlder
  <1>1. Author[m] \in Tabs /\ Has(saved[Author[m]], m)
    BY DEF OfTab, KeepInv
  <1>2. ASSUME NEW d \in Dirs, d[1] = Author[m], Live(d)' PROVE Has(owed'[d], m)
    <2>1. Has(owed[d], m) /\ owed[d] \subseteq owed'[d]
      BY <1>1, <1>2 DEF KeepInv
    <2>2. owed'[d] \in SUBSET Texts
      BY DEF TypeOK
    <2> QED BY <2>1, <2>2, HasMore
  <1> QED BY <1>1, <1>2

\* A tab that takes a packet has no less in its localStorage than before.
LEMMA KeepSaved ==
  ASSUME TypeOK, TypeOK', TabInv, TabInv', KeepInv, NEW t \in Tabs, NEW packet \in SUBSET Texts,
         Accepted(t, packet), Saves(t) \/ SaveFails(t, packet), NEW m \in Texts,
         Author[m] \in Tabs, OfTab(m) \/ (m \in packet /\ Author[m] = t /\ Saves(t))
  PROVE  Has(saved'[Author[m]], m)
  <1>1. CASE saved'[Author[m]] = saved[Author[m]] /\ OfTab(m)
    BY <1>1 DEF KeepInv
  <1>2. CASE Saves(t) /\ Author[m] = t
    <2> DEFINE R == reached'[t] \cap Texts
    <2>1. saved'[t] = messages'[t] /\ messages'[t] \in Windows(R)
      <3>1. saved'[t] = messages'[t]
        BY <1>2 DEF Saves, TypeOK
      <3>2. messages'[t] \in Windows(reached'[t] \cap Texts)
        BY DEF TabInv, TabOK, Windows
      <3> QED BY <3>1, <3>2
    <2>2. R \in SUBSET Texts /\ packet \subseteq R /\ reached[t] \cap Texts \subseteq R
      <3>1. packet \subseteq reached'[t] /\ \A p \in Peers : reached[p] \subseteq reached'[p]
        BY AcceptedFacts
      <3>2. t \in Peers
        BY DirFacts
      <3> QED BY <3>1, <3>2
    <2>3. saved[t] \in SUBSET R
      BY <2>2, SavedGiven
    <2> HIDE DEF R
    <2>4. Has(R, m)
      <3>1. CASE m \in packet
        BY <2>2, <3>1 DEF Has
      <3>2. CASE OfTab(m)
        <4> Has(saved[t], m) BY <1>2, <3>2 DEF KeepInv
        <4> QED BY <2>2, <2>3, HasMore
      <3> QED BY <3>1, <3>2
    <2>5. Has(saved'[t], m)
      BY <2>1, <2>2, <2>4, HasWindow
    <2> QED BY <1>2, <2>5
  <1>3. Author[m] # t \/ ~ Saves(t) => saved'[Author[m]] = saved[Author[m]]
    BY DEF Saves, SaveFails, TypeOK
  <1> QED BY <1>1, <1>2, <1>3

LEMMA KeepTab ==
  ASSUME TypeOK, TypeOK', TabInv, TabInv', KeepInv, NEW t \in Tabs, Tab(t)
  PROVE  KeepInv'
  <1>1. \A d \in Dirs : d = <<d[1], d[2]>>
    BY DirFacts
  <1>2. ASSUME NEW q \in Peers \ {t}, OpenTab(t, q) PROVE KeepInv'
    <2>1. /\ <<t, q>> \in Dirs /\ owed'[<<t, q>>] = messages[t] /\ UNCHANGED <<saved, sent, ends>>
          /\ open' = open \cup {<<t, q>>}
          /\ \A d \in Dirs : d # <<t, q>> => owed'[d] = owed[d]
      BY <1>2, DirFacts DEF OpenTab, feeds, TypeOK
    <2> SUFFICES ASSUME NEW m \in Texts, OfTab(m)'
                 PROVE  /\ Has(saved'[Author[m]], m)
                        /\ \A d \in Dirs : d[1] = Author[m] /\ Live(d)' => Has(owed'[d], m)
      BY DEF KeepInv, Has, NotOlder
    <2>2. OfTab(m)
      BY <2>1 DEF OfTab
    <2>3. Has(saved'[Author[m]], m)
      BY <2>1, <2>2 DEF KeepInv
    <2>4. ASSUME NEW d \in Dirs, d[1] = Author[m], Live(d)' PROVE Has(owed'[d], m)
      <3>1. CASE d = <<t, q>>
        BY <2>1, <2>2, <2>4, <3>1, HasShown
      <3>2. CASE d # <<t, q>>
        <4> Live(d) BY <2>1, <2>4, <3>2 DEF Live, Linked
        <4> QED BY <2>1, <2>2, <2>4, <3>2 DEF KeepInv
      <3> QED BY <3>1, <3>2
    <2> QED BY <2>3, <2>4
  <1>3. ASSUME NEW packet \in SUBSET Texts, Accepted(t, packet), Saves(t) \/ SaveFails(t, packet),
               UNCHANGED <<ends, open, owed, sent>>
        PROVE  KeepInv'
    <2> SUFFICES ASSUME NEW m \in Texts, OfTab(m)'
                 PROVE  /\ Has(saved'[Author[m]], m)
                        /\ \A d \in Dirs : d[1] = Author[m] /\ Live(d)' => Has(owed'[d], m)
      BY DEF KeepInv, Has, NotOlder
    <2>1. OfTab(m) /\ Author[m] \in Tabs
      BY <1>3 DEF OfTab
    <2>2. Has(saved'[Author[m]], m)
      BY <1>3, <2>1, KeepSaved
    <2>3. \A d \in Dirs : (Live(d)' <=> Live(d)) /\ owed'[d] = owed[d]
      BY <1>3 DEF Live, Linked
    <2> QED BY <2>1, <2>2, <2>3 DEF KeepInv
  <1>4. ASSUME NEW q \in Peers \ {t}, Accept(t, q) PROVE KeepInv'
    <2> DEFINE packet == Elements(Head(wire[<<q, t>>])) \ TooLong
    <2>1. wire[<<q, t>>] # <<>> /\ Accepted(t, packet) /\ (Saves(t) \/ SaveFails(t, packet))
      BY <1>4 DEF Accept
    <2>2. packet \in SUBSET Texts
      BY <2>1, HeadFacts, DirFacts
    <2> HIDE DEF packet
    <2> QED BY <1>3, <1>4, <2>1, <2>2 DEF Accept
  <1>5. ASSUME NEW m \in Messages, SendDraft(t, m) PROVE KeepInv'
    <2>1. /\ m \in Texts /\ Author[m] = t /\ Accepted(t, {m}) /\ Saves(t) /\ {m} \in SUBSET Texts
          /\ sent' = sent \cup {m} /\ UNCHANGED <<ends, open>> /\ owed' = Owing(t, m)
      BY <1>5 DEF SendDraft, Writes
    <2> SUFFICES ASSUME NEW n \in Texts, OfTab(n)'
                 PROVE  /\ Has(saved'[Author[n]], n)
                        /\ \A d \in Dirs : d[1] = Author[n] /\ Live(d)' => Has(owed'[d], n)
      BY DEF KeepInv, Has, NotOlder
    <2>2. Author[n] \in Tabs /\ (OfTab(n) \/ n = m)
      BY <2>1 DEF OfTab
    <2>3. Has(saved'[Author[n]], n)
      BY <2>1, <2>2, KeepSaved
    <2>4. ASSUME NEW d \in Dirs, d[1] = Author[n], Live(d)' PROVE Has(owed'[d], n)
      <3>1. Live(d) /\ owed'[d] \in SUBSET Texts
        BY <2>1, <2>4 DEF Live, Linked, TypeOK
      <3>2. CASE n = m
        <4> n \in owed'[d] BY <2>1, <2>4, <3>1, <3>2, DirFacts DEF Owing, Noted, Live
        <4> QED BY DEF Has
      <3>3. CASE OfTab(n)
        <4>1. owed[d] \in SUBSET owed'[d]
          BY <2>1, <3>1 DEF Owing, Noted
        <4>2. Has(owed[d], n)
          BY <2>4, <3>1, <3>3 DEF KeepInv
        <4> QED BY <3>1, <4>1, <4>2, HasMore
      <3> QED BY <2>2, <3>2, <3>3
    <2> QED BY <2>3, <2>4
  <1>6. ASSUME NEW m \in Messages, SendDraftThrows(t, m) PROVE KeepInv'
    <2>1. /\ UNCHANGED <<saved, sent, ends, open>> /\ owed' = Owing(t, m)
      BY <1>6 DEF SendDraftThrows, SaveFails
    <2>2. \A d \in Dirs : owed[d] \subseteq owed'[d]
      BY <2>1 DEF Owing, Noted
    <2> QED BY <2>1, <2>2, KeepKept DEF OfTab, Live, Linked
  <1>7. ASSUME NEW m \in Messages, SendFile(t, m) PROVE KeepInv'
    <2>1. m \notin Texts /\ sent' = sent \cup {m} /\ UNCHANGED <<saved, ends, open, owed>>
      BY <1>7, MessagesAssumption DEF SendFile, feeds
    <2> QED BY <2>1, KeepKept DEF OfTab, Live, Linked
  <1>8. CASE Reload(t)
    <2>1. UNCHANGED <<saved, sent>> /\ Gone(t)
      BY <1>8 DEF Reload
    <2>2. \A d \in Dirs : Live(d)' => Live(d) /\ owed[d] \subseteq owed'[d]
      BY <1>1, <2>1 DEF Gone, Live, Linked
    <2> QED BY <2>1, <2>2, KeepKept DEF OfTab
  <1> QED BY <1>2, <1>4, <1>5, <1>6, <1>7, <1>8 DEF Tab

LEMMA KeepStep ==
  TypeOK /\ TypeOK' /\ TabInv /\ TabInv' /\ KeepInv /\ [Next]_vars => KeepInv'
  <1> SUFFICES ASSUME TypeOK, TypeOK', TabInv, TabInv', KeepInv, [Next]_vars PROVE KeepInv'
    OBVIOUS
  <1>1. \A d \in Dirs : d = <<d[1], d[2]>> /\ (d[1] \in Tabs => d[1] \notin Engines)
    BY DirFacts
  <1>2. UNCHANGED <<saved, sent, ends, open, owed>> => KeepInv'
    BY KeepKept DEF OfTab, Live, Linked
  <1>3. CASE UNCHANGED vars
    BY <1>2, <1>3 DEF vars, feeds, channels
  <1>4. ASSUME NEW d \in Dirs, Pair(d[1], d[2]) PROVE KeepInv'
    <2>1. UNCHANGED <<saved, sent, open, owed>> /\ ends' = ends \cup {<<d[1], d[2]>>, <<d[2], d[1]>>}
          /\ {<<d[1], d[2]>>, <<d[2], d[1]>>} \cap open = {}
      BY <1>4 DEF Pair, feeds, TypeOK
    <2>2. \A x \in Dirs : Live(x)' => Live(x)
      BY <1>1, <2>1 DEF Live, Linked
    <2> QED BY <2>1, <2>2, KeepKept DEF OfTab
  <1>5. ASSUME NEW d \in Dirs, Remove(d[1], d[2]) PROVE KeepInv'
    <2>1. UNCHANGED <<saved, sent>> /\ ends' = ends \ {<<d[1], d[2]>>}
          /\ open' = open \ {<<d[1], d[2]>>}
          /\ \A x \in Dirs : x \notin {<<d[1], d[2]>>, <<d[2], d[1]>>} => owed'[x] = owed[x]
      BY <1>5 DEF Remove, feeds, TypeOK
    <2>2. ASSUME NEW x \in Dirs, Live(x)' PROVE Live(x) /\ owed[x] \subseteq owed'[x]
      <3>1. x = <<x[1], x[2]>> /\ <<x[1], x[2]>> \in ends' /\ <<x[2], x[1]>> \in ends' /\ x \in open'
        BY <1>1, <2>2 DEF Live, Linked
      <3>2. x # <<d[1], d[2]>> /\ <<x[2], x[1]>> # <<d[1], d[2]>>
        BY <2>1, <3>1
      <3> QED BY <2>1, <3>1, <3>2 DEF Live, Linked
    <2> QED BY <2>1, <2>2, KeepKept DEF OfTab
  <1>6. ASSUME NEW q \in Peers, NEW m \in Texts, Push(m, q) PROVE KeepInv'
    BY <1>2, <1>6 DEF Push, feeds
  <1>7. ASSUME NEW e \in Engines, Engine(e) PROVE KeepInv'
    <2>1. CASE \E q \in Peers \ {e} : SendTail(e, q) \/ Ingest(e, q)
      BY <1>2, <2>1 DEF SendTail, Ingest, Ingested, feeds
    <2>2. ASSUME NEW q \in Peers \ {e}, OpenEngine(e, q) PROVE KeepInv'
      <3>1. UNCHANGED <<saved, sent, ends, owed>> /\ open' = open \cup {<<e, q>>}
        BY <2>2 DEF OpenEngine, feeds
      <3>2. \A d \in Dirs : d[1] \in Tabs /\ Live(d)' => Live(d)
        BY <1>1, <3>1 DEF Live, Linked
      <3> QED BY <3>1, <3>2, KeepKept DEF OfTab
    <2>3. ASSUME NEW q \in Peers \ {e}, ReadHistory(e, q) PROVE KeepInv'
      <3>1. UNCHANGED <<saved, sent, ends, open>> /\ \A d \in Dirs : owed[d] \subseteq owed'[d]
        BY <2>3 DEF ReadHistory, feeds, TypeOK
      <3> QED BY <3>1, KeepKept DEF OfTab, Live, Linked
    <2>4. ASSUME NEW m \in Messages, Publish(e, m) PROVE KeepInv'
      <3>1. UNCHANGED <<saved, sent, ends, open>> /\ \A d \in Dirs : owed[d] \subseteq owed'[d]
        BY <2>4 DEF Publish, Owing, Noted
      <3> QED BY <3>1, KeepKept DEF OfTab, Live, Linked
    <2>5. ASSUME NEW m \in Messages, Broadcast(e, m) PROVE KeepInv'
      <3>1. UNCHANGED <<saved, ends, open, owed>> /\ sent' = sent \cup {m} /\ Author[m] \notin Tabs
        BY <2>5, DirFacts DEF Broadcast, feeds
      <3> QED BY <3>1, KeepKept DEF OfTab, Live, Linked
    <2>6. CASE \E m \in Messages : ReceiveFile(e, m)
      BY <1>2, <2>6 DEF ReceiveFile, Ingested
    <2>7. CASE Restart(e)
      <3>1. UNCHANGED <<saved, sent>> /\ Gone(e)
        BY <2>7 DEF Restart, feeds
      <3>2. \A d \in Dirs : Live(d)' => Live(d) /\ owed[d] \subseteq owed'[d]
        BY <1>1, <3>1 DEF Gone, Live, Linked
      <3> QED BY <3>1, <3>2, KeepKept DEF OfTab
    <2> QED BY <1>7, <2>1, <2>2, <2>3, <2>4, <2>5, <2>6, <2>7 DEF Engine
  <1>8. ASSUME NEW t \in Tabs, Tab(t) PROVE KeepInv'
    BY <1>8, KeepTab
  <1> QED BY <1>3, <1>4, <1>5, <1>6, <1>7, <1>8 DEF Next

\* What a tab's channels owe has come to the tab; what tabs send is not too long for them.
OwedInv ==
  /\ \A d \in Dirs : d[1] \in Tabs => owed[d] \subseteq reached[d[1]]
  /\ \A m \in sent : Author[m] \in Tabs => m \notin TooLong

LEMMA OwedKept ==
  ASSUME OwedInv,
         \A d \in Dirs : d[1] \in Tabs =>
            owed'[d] = {} \/ (owed'[d] = owed[d] /\ reached[d[1]] \subseteq reached'[d[1]]),
         \A m \in sent' : m \in sent \/ Author[m] \notin Tabs \/ m \notin TooLong
  PROVE  OwedInv'
  BY DEF OwedInv

LEMMA OwedTab ==
  ASSUME TypeOK, TabInv, OwedInv, NEW t \in Tabs, Tab(t)
  PROVE  OwedInv'
  <1>1. t \in Peers /\ \A d \in Dirs : d[1] \in Peers /\ d = <<d[1], d[2]>>
    BY DirFacts
  <1>2. ASSUME NEW q \in Peers \ {t}, OpenTab(t, q) PROVE OwedInv'
    <2>1. /\ <<t, q>> \in Dirs /\ owed'[<<t, q>>] = messages[t] /\ UNCHANGED <<reached, sent>>
          /\ \A d \in Dirs : d # <<t, q>> => owed'[d] = owed[d]
      BY <1>2, DirFacts DEF OpenTab, feeds, TypeOK
    <2>2. messages[t] \subseteq reached[t]
      BY DEF TabInv, TabOK, Windows
    <2>3. \A d \in Dirs : d[1] \in Tabs => owed'[d] \subseteq reached'[d[1]]
      BY <2>1, <2>2 DEF OwedInv
    <2> QED BY <2>1, <2>3 DEF OwedInv
  <1>3. ASSUME NEW packet \in SUBSET Texts, Accepted(t, packet), Saves(t) \/ SaveFails(t, packet)
        PROVE  packet \subseteq reached'[t] /\ \A p \in Peers : reached[p] \subseteq reached'[p]
    BY <1>3, AcceptedFacts
  <1>4. ASSUME NEW q \in Peers \ {t}, Accept(t, q) PROVE OwedInv'
    <2> DEFINE packet == Elements(Head(wire[<<q, t>>])) \ TooLong
    <2>1. wire[<<q, t>>] # <<>> /\ Accepted(t, packet) /\ (Saves(t) \/ SaveFails(t, packet))
      BY <1>4 DEF Accept
    <2>2. packet \in SUBSET Texts
      BY <2>1, HeadFacts, DirFacts
    <2> HIDE DEF packet
    <2>3. UNCHANGED <<owed, sent>>
      BY <1>4 DEF Accept
    <2> QED BY <1>1, <1>3, <2>1, <2>2, <2>3, OwedKept
  <1>5. ASSUME NEW m \in Messages, SendDraft(t, m) \/ SendDraftThrows(t, m) PROVE OwedInv'
    <2>1. /\ m \in Texts \ TooLong /\ Accepted(t, {m}) /\ (Saves(t) \/ SaveFails(t, {m}))
          /\ {m} \in SUBSET Texts /\ owed' = Owing(t, m) /\ sent' \subseteq sent \cup {m}
      BY <1>5 DEF SendDraft, SendDraftThrows, Writes
    <2>2. m \in reached'[t] /\ \A p \in Peers : reached[p] \subseteq reached'[p]
      BY <1>3, <2>1
    <2>3. \A d \in Dirs : owed'[d] = owed[d] \/ (d[1] = t /\ owed'[d] \subseteq owed[d] \cup {m})
      BY <2>1 DEF Owing, Noted
    <2>4. \A d \in Dirs : d[1] \in Tabs => owed'[d] \subseteq reached'[d[1]]
      BY <1>1, <2>2, <2>3 DEF OwedInv
    <2> QED BY <2>1, <2>4 DEF OwedInv
  <1>6. ASSUME NEW m \in Messages, SendFile(t, m) PROVE OwedInv'
    <2>1. UNCHANGED <<owed, reached>> /\ sent' = sent \cup {m} /\ m \notin TooLong
      BY <1>6, MessagesAssumption, BoundsAssumption DEF SendFile, feeds
    <2> QED BY <2>1, OwedKept
  <1>7. CASE Reload(t)
    <2>1. /\ \A d \in Dirs : owed'[d] = IF t \in {d[1], d[2]} THEN {} ELSE owed[d]
          /\ UNCHANGED sent /\ \A p \in Peers : p # t => reached'[p] = reached[p]
      BY <1>1, <1>7 DEF Reload, Gone, TypeOK
    <2> QED BY <1>1, <2>1, OwedKept
  <1> QED BY <1>2, <1>4, <1>5, <1>6, <1>7 DEF Tab

LEMMA OwedStep == TypeOK /\ TabInv /\ OwedInv /\ [Next]_vars => OwedInv'
  <1> SUFFICES ASSUME TypeOK, TabInv, OwedInv, [Next]_vars PROVE OwedInv'
    OBVIOUS
  <1>1. \A d \in Dirs : /\ d[1] \in Peers /\ d = <<d[1], d[2]>>
                        /\ d[1] \in Tabs => d[1] \notin Engines
    BY DirFacts
  <1>2. UNCHANGED <<owed, reached, sent>> => OwedInv'
    BY DEF OwedInv
  <1>3. CASE UNCHANGED vars
    BY <1>2, <1>3 DEF vars, feeds, channels
  <1>4. ASSUME NEW d \in Dirs, Pair(d[1], d[2]) PROVE OwedInv'
    BY <1>2, <1>4 DEF Pair, feeds
  <1>5. ASSUME NEW d \in Dirs, Remove(d[1], d[2]) PROVE OwedInv'
    <2>1. UNCHANGED <<reached, sent>> /\ \A c \in Dirs : owed'[c] = {} \/ owed'[c] = owed[c]
      BY <1>5 DEF Remove, feeds, TypeOK
    <2> QED BY <2>1, OwedKept
  <1>6. ASSUME NEW q \in Peers, NEW m \in Texts, Push(m, q) PROVE OwedInv'
    BY <1>2, <1>6 DEF Push, feeds
  <1>7. ASSUME NEW e \in Engines, Engine(e) PROVE OwedInv'
    <2>1. ASSUME NEW m \in Messages, Ingested(e, m), UNCHANGED <<owed, sent>> PROVE OwedInv'
      <3>1. \A p \in Peers : reached[p] \subseteq reached'[p]
        BY <2>1, IngestedFacts
      <3> QED BY <1>1, <2>1, <3>1, OwedKept
    <2>2. CASE \E q \in Peers \ {e} : OpenEngine(e, q) \/ SendTail(e, q)
      BY <1>2, <2>2 DEF OpenEngine, SendTail, feeds
    <2>3. ASSUME NEW q \in Peers \ {e}, ReadHistory(e, q) PROVE OwedInv'
      <3>1. UNCHANGED <<reached, sent>> /\ \A d \in Dirs : d # <<e, q>> => owed'[d] = owed[d]
        BY <2>3 DEF ReadHistory, feeds, TypeOK
      <3>2. \A d \in Dirs : d[1] \in Tabs => owed'[d] = owed[d]
        BY <1>1, <3>1
      <3> QED BY <3>1, <3>2, OwedKept
    <2>4. ASSUME NEW q \in Peers \ {e}, Ingest(e, q) PROVE OwedInv'
      <3>1. wire[<<q, e>>] # <<>> /\ Ingested(e, Head(Head(wire[<<q, e>>]))) /\ UNCHANGED <<owed, sent>>
        BY <2>4 DEF Ingest
      <3> QED BY <2>1, <3>1, HeadFacts, DirFacts
    <2>5. ASSUME NEW m \in Messages, Publish(e, m) PROVE OwedInv'
      <3>1. /\ UNCHANGED sent /\ \A p \in Peers : reached[p] \subseteq reached'[p]
            /\ owed' = Owing(e, m)
        BY <2>5 DEF Publish, TypeOK
      <3>2. \A d \in Dirs : d[1] \in Tabs => owed'[d] = owed[d]
        BY <1>1, <3>1 DEF Owing, Noted
      <3> QED BY <1>1, <3>1, <3>2, OwedKept
    <2>6. ASSUME NEW m \in Messages, Broadcast(e, m) PROVE OwedInv'
      <3>1. UNCHANGED <<owed, reached>> /\ sent' = sent \cup {m} /\ Author[m] \notin Tabs
        BY <2>6, DirFacts DEF Broadcast, feeds
      <3> QED BY <3>1, OwedKept
    <2>7. ASSUME NEW m \in Messages, ReceiveFile(e, m) PROVE OwedInv'
      BY <2>1, <2>7 DEF ReceiveFile
    <2>8. CASE Restart(e)
      <3>1. /\ UNCHANGED <<reached, sent>> /\ \A d \in Dirs : owed'[d] = {} \/ owed'[d] = owed[d]
        BY <2>8 DEF Restart, Gone, feeds
      <3> QED BY <3>1, OwedKept
    <2> QED BY <1>7, <2>2, <2>3, <2>4, <2>5, <2>6, <2>7, <2>8 DEF Engine
  <1>8. ASSUME NEW t \in Tabs, Tab(t) PROVE OwedInv'
    BY <1>8, OwedTab
  <1> QED BY <1>3, <1>4, <1>5, <1>6, <1>7, <1>8 DEF Next

LEMMA KeepEnds == TypeOK /\ TabInv /\ KeepInv /\ OwedInv /\ FlowInv => TabsKeepNewest
  <1> SUFFICES ASSUME TypeOK, TabInv, KeepInv, OwedInv, FlowInv, Complete,
                      \A t, u \in Tabs : t # u => {t, u} \in Reachable,
                      NEW U, U = UNION {reached[p] : p \in Peers},
                      NEW m \in sent \cap Sure(U \cap Texts),
                      Author[m] \in Tabs, NEW t \in Tabs,
                      ~ (t # Author[m] /\ m \in withheld[<<Author[m], t>>])
               PROVE  m \in messages[t]
    BY Zenon DEF TabsKeepNewest
  <1> DEFINE a == Author[m]
             R == reached[t] \cap Texts
             All == U \cap Texts
  <1>1. All \in SUBSET Texts /\ m \in Sure(All) /\ m \in All /\ m \in Texts /\ OfTab(m)
    BY DEF OfTab, Sure
  <1>2. \A p \in Peers : reached[p] \cap Texts \subseteq All
    <2>1. \A p \in Peers : reached[p] \subseteq U
      OBVIOUS
    <2> QED BY <2>1
  <1>3. a \in Peers /\ t \in Peers /\ R \in SUBSET Texts /\ R \in SUBSET All
    BY <1>2, DirFacts
  <1> HIDE DEF All
  <1>4. ASSUME NEW S \in SUBSET All, Has(S, m) PROVE m \in S
    BY <1>1, <1>4, SureHas
  <1>5. m \in R
    <2>1. CASE t = a
      <3>1. saved[a] \subseteq R /\ Has(saved[a], m)
        BY <1>1, <2>1, SavedGiven DEF KeepInv
      <3> QED BY <1>3, <1>4, <3>1
    <2>2. CASE t # a
      <3>1. <<a, t>> \in Dirs /\ <<a, t>>[1] = a /\ <<a, t>>[2] = t
        BY <1>3, <2>2, DirFacts
      <3>2. Settled(a, t)
        <4>1. {a, t} \in Reachable
          BY <2>2
        <4> QED BY <3>1, <4>1 DEF Complete
      <3>3. owed[<<a, t>>] \ Excused(<<a, t>>) \subseteq reached[t]
        BY <1>3, <2>2, <3>2, FlowEnds DEF Delivered
      <3>4. m \notin Excused(<<a, t>>)
        BY <2>2, <3>1 DEF Excused, OwedInv
      <3>5. Has(owed[<<a, t>>], m)
        <4>1. Live(<<a, t>>)
          BY <3>2 DEF Settled, Live
        <4> QED BY <1>1, <3>1, <4>1 DEF KeepInv
      <3>6. owed[<<a, t>>] \in SUBSET All
        BY <1>2, <1>3, <3>1 DEF OwedInv, TypeOK
      <3>7. m \in owed[<<a, t>>]
        BY <1>4, <3>5, <3>6
      <3> QED BY <1>1, <3>3, <3>4, <3>7
    <2> QED BY <2>1, <2>2
  <1>6. messages[t] \in Windows(R) /\ messages[t] \in SUBSET All /\ Has(R, m)
    <2>1. messages[t] \in Windows(R)
      BY DEF TabInv, TabOK
    <2> HIDE DEF R
    <2>2. messages[t] \in SUBSET R
      BY <1>3, <2>1, WindowFacts
    <2> QED BY <1>3, <1>5, <2>1, <2>2 DEF Has
  <1>7. Has(messages[t], m)
    <2> HIDE DEF R
    <2> QED BY <1>1, <1>3, <1>6, HasWindow
  <1> QED BY <1>4, <1>6, <1>7

\* In a quiet mesh a text that a tab sent out is on every tab's screen until MAX_HISTORY other
\* texts exist that are not older, for any mesh, whatever was lost, reloaded, reconnected or
\* not saved on the way; excused is a screen whose channel from the author stayed open after
\* a send on it had failed.
THEOREM TabsKeepCorrect == Spec => []TabsKeepNewest
  <1>1. Init => TypeOK /\ TabInv /\ FlowInv /\ KeepInv /\ OwedInv
    BY TypeInit, TabsInit, FlowInit DEF Init, KeepInv, OfTab, OwedInv
  <1>2. TypeOK /\ TabInv /\ FlowInv /\ KeepInv /\ OwedInv /\ [Next]_vars
          => (TypeOK /\ TabInv /\ FlowInv /\ KeepInv /\ OwedInv)'
    BY TypeStep, TabStep, FlowStep, KeepStep, OwedStep
  <1> QED BY <1>1, <1>2, KeepEnds, PTL DEF Spec

=============================================================================
