------------------------------- MODULE LanProofs -------------------------------
(***************************************************************************)
(* Proofs about Lan, for any number of nodes and messages, any firewall    *)
(* and any history of upgrades: type correctness, and that no table lists  *)
(* an instance that speaks another version.                                *)
(*                                                                         *)
(* The register of an instance that has ended may still be under way, and  *)
(* what it carries is written to a table that the check did not see.  The  *)
(* invariant says, for every stage of a register, which instance is known  *)
(* to be compatible with which.                                            *)
(***************************************************************************)
EXTENDS Lan, TLAPS, FiniteSetTheorems, SequenceTheorems, DataProofs

\* A register; its lines do not matter here.
Shape(c) ==
  c \in [from : Nodes, to : Nodes, by : By, inst : Nat, known : BOOLEAN,
         at : {"asked", "noting", "answered", "recording", "reading"}, lines : {c.lines}]

\* Until it answers the server is the process that was asked and the client the one that
\* asked; from the check on, the instance the register carries is of the other's version.
CallOK(c) ==
  /\ Shape(c) /\ c.from \in up
  /\ c.at \in {"asked", "noting"} => c.to \in up /\ c.inst = inst[c.from]
  /\ c.at = "noting" => Compatible(c.from, c.inst, c.to, inst[c.to])
  /\ c.at \in {"answered", "recording"} => Compatible(c.from, inst[c.from], c.to, c.inst)

TableOK ==
  /\ up \subseteq Nodes /\ inst \in [Nodes -> Nat] /\ table \in [Nodes -> [Nodes -> Nat]]
  /\ \A n \in Nodes \ up : \A m \in Nodes : table[n][m] = 0

VersionInv == TableOK /\ OneVersion /\ \A c \in calls : CallOK(c)

-----------------------------------------------------------------------------
LEMMA InitVersion == Init => VersionInv
  BY DEF Init, VersionInv, TableOK, OneVersion

\* Steps that leave the processes and the tables alone, and begin at most one call.
LEMMA QuietStep ==
  ASSUME VersionInv, UNCHANGED <<inst, up, table>>,
         \A c \in calls' \ calls : CallOK(c)
  PROVE  VersionInv'
  <1>1. TableOK' /\ OneVersion'
    BY DEF VersionInv, TableOK, OneVersion, Compatible
  <1>2. \A c \in calls' : CallOK(c)
    BY DEF VersionInv
  <1>3. ASSUME NEW c \in calls' PROVE CallOK(c)'
    BY <1>2 DEF CallOK, Shape, Compatible
  <1> QED BY <1>1, <1>3 DEF VersionInv

\* A step of a register may write one entry of one table.
LEMMA WriteStep ==
  ASSUME VersionInv, UNCHANGED <<inst, up>>,
         NEW n \in up, NEW m \in Nodes, NEW i \in Nat,
         table' = table \/ table' = [table EXCEPT ![n][m] = i],
         Compatible(n, inst[n], m, i),
         \A c \in calls' \ calls : CallOK(c)
  PROVE  VersionInv'
  <1>1. n \in Nodes
    BY DEF VersionInv, TableOK
  <1>2. /\ table' \in [Nodes -> [Nodes -> Nat]]
        /\ \A k, l \in Nodes : table'[k][l] = table[k][l] \/ (k = n /\ l = m /\ table'[k][l] = i)
    BY <1>1 DEF VersionInv, TableOK
  <1>3. TableOK'
    BY <1>2 DEF VersionInv, TableOK
  <1>4. OneVersion'
    BY <1>2 DEF VersionInv, OneVersion, Compatible
  <1>5. \A c \in calls' : CallOK(c)
    BY DEF VersionInv
  <1>6. ASSUME NEW c \in calls' PROVE CallOK(c)'
    BY <1>5 DEF CallOK, Shape, Compatible
  <1> QED BY <1>3, <1>4, <1>6 DEF VersionInv

LEMMA AskedOK ==
  ASSUME VersionInv, NEW n \in Nodes, NEW m \in Nodes, NEW by \in By, NEW c \in Asked(n, m, by)
  PROVE  CallOK(c)
  <1>1. n \in up /\ m \in up
    BY DEF Asked, Reaches
  <1>2. c = [from |-> n, to |-> m, by |-> by, inst |-> inst[n], known |-> FALSE, at |-> "asked",
             lines |-> <<>>]
    BY <1>1 DEF Asked
  <1>3. inst[n] \in Nat
    BY DEF VersionInv, TableOK
  <1> QED BY <1>1, <1>2, <1>3 DEF CallOK, Shape

LEMMA StartStop ==
  ASSUME VersionInv, NEW n \in Nodes, Start(n) \/ Stop(n)
  PROVE  VersionInv'
  <1>1. CASE Start(n)
    <2>1. /\ inst' \in [Nodes -> Nat] /\ \A m \in Nodes : m # n => inst'[m] = inst[m]
          /\ n \notin up /\ up' = up \cup {n} /\ UNCHANGED <<table, calls>>
      BY <1>1 DEF Start, VersionInv, TableOK
    <2>2. \A m \in Nodes : table[n][m] = 0
      BY <2>1 DEF VersionInv, TableOK
    <2>3. TableOK' /\ OneVersion'
      BY <2>1, <2>2 DEF VersionInv, TableOK, OneVersion, Compatible
    <2>4. ASSUME NEW c \in calls PROVE CallOK(c)'
      <3>1. CallOK(c) /\ c.from # n /\ c.from \in Nodes /\ c.to \in Nodes
        BY <2>1 DEF VersionInv, CallOK, Shape
      <3>2. c.at \in {"asked", "noting"} => c.to # n
        BY <2>1, <3>1 DEF CallOK
      <3> QED BY <2>1, <3>1, <3>2 DEF CallOK, Shape, Compatible
    <2> QED BY <2>1, <2>3, <2>4 DEF VersionInv
  <1>2. CASE Stop(n)
    <2>1. /\ up' = up \ {n} /\ inst' = inst
          /\ calls' = {c \in calls : c.from # n
                         /\ (c.to # n \/ c.at \in {"answered", "recording", "reading"})}
      BY <1>2 DEF Stop
    <2>2. /\ table' \in [Nodes -> [Nodes -> Nat]]
          /\ \A k, l \in Nodes : table'[k][l] = IF k = n THEN 0 ELSE table[k][l]
      BY <1>2 DEF Stop, VersionInv, TableOK
    <2>3. TableOK' /\ OneVersion'
      BY <2>1, <2>2 DEF VersionInv, TableOK, OneVersion, Compatible
    <2>4. ASSUME NEW c \in calls' PROVE CallOK(c)'
      <3>1. c \in calls /\ c.from # n /\ (c.to # n \/ c.at \in {"answered", "recording", "reading"})
        BY <2>1
      <3>2. CallOK(c)
        BY <3>1 DEF VersionInv
      <3> QED BY <2>1, <3>1, <3>2 DEF CallOK, Shape, Compatible
    <2> QED BY <2>3, <2>4 DEF VersionInv
  <1> QED BY <1>1, <1>2

LEMMA PruneStep ==
  ASSUME VersionInv, NEW n \in Nodes, Prune(n)
  PROVE  VersionInv'
  <1>1. /\ table' \in [Nodes -> [Nodes -> Nat]]
        /\ \A k, l \in Nodes : table'[k][l] \in {0, table[k][l]}
    BY DEF Prune, VersionInv, TableOK
  <1>2. UNCHANGED <<inst, up, calls>>
    BY DEF Prune
  <1>3. TableOK' /\ OneVersion'
    BY <1>1, <1>2 DEF VersionInv, TableOK, OneVersion, Compatible
  <1> QED BY <1>2, <1>3 DEF VersionInv, CallOK, Shape, Compatible

LEMMA CallStepOK ==
  ASSUME VersionInv, NEW c \in calls, CallStep(c)
  PROVE  VersionInv'
  <1>1. CallOK(c)
    BY DEF VersionInv
  <1>2. CASE Refuse(c)
    BY <1>2, QuietStep DEF Refuse
  <1>3. CASE LookUp(c)
    <2> DEFINE d == [c EXCEPT !.at = "noting", !.known = table[c.to][c.from] = c.inst]
    <2>1. /\ Shape(d) /\ d.from = c.from /\ d.to = c.to /\ d.inst = c.inst /\ d.at = "noting"
      BY <1>1 DEF CallOK, Shape
    <2>2. CallOK(d)
      BY <1>1, <1>3, <2>1 DEF LookUp, CallOK
    <2>3. UNCHANGED <<inst, up, table>> /\ calls' = (calls \ {c}) \cup {d}
      BY <1>3 DEF LookUp, Becomes, registry
    <2> HIDE DEF d
    <2> QED BY <2>2, <2>3, QuietStep
  <1>4. CASE Answer(c)
    <2> DEFINE d == [c EXCEPT !.at = "answered", !.inst = inst[c.to], !.lines = Backlog(c.to)]
    <2>1. inst[c.to] \in Nat /\ inst[c.from] \in Nat
      BY <1>1 DEF CallOK, Shape, VersionInv, TableOK
    <2>2. /\ Shape(d) /\ d.from = c.from /\ d.to = c.to /\ d.inst = inst[c.to] /\ d.at = "answered"
      BY <1>1, <2>1 DEF CallOK, Shape
    <2>3. /\ c.to \in up /\ c.from \in Nodes /\ c.inst \in Nat
          /\ c.inst = inst[c.from] /\ Compatible(c.from, c.inst, c.to, inst[c.to])
      BY <1>1, <1>4 DEF CallOK, Shape, Answer
    <2>4. CallOK(d)
      BY <1>1, <2>2, <2>3 DEF CallOK
    <2>5. /\ UNCHANGED <<inst, up>> /\ calls' = (calls \ {c}) \cup {d}
          /\ table' = table \/ table' = [table EXCEPT ![c.to][c.from] = c.inst]
      BY <1>4 DEF Answer, Becomes, Remember
    <2>6. Compatible(c.to, inst[c.to], c.from, c.inst)
      BY <2>3 DEF Compatible
    <2> HIDE DEF d
    <2> QED BY <2>3, <2>4, <2>5, <2>6, WriteStep
  <1>5. CASE LookUpServer(c)
    <2> DEFINE d == [c EXCEPT !.at = "recording", !.known = table[c.from][c.to] = c.inst]
    <2>1. /\ Shape(d) /\ d.from = c.from /\ d.to = c.to /\ d.inst = c.inst /\ d.at = "recording"
      BY <1>1 DEF CallOK, Shape
    <2>2. CallOK(d)
      BY <1>1, <1>5, <2>1 DEF LookUpServer, CallOK
    <2>3. UNCHANGED <<inst, up, table>> /\ calls' = (calls \ {c}) \cup {d}
      BY <1>5 DEF LookUpServer, Becomes, registry
    <2> HIDE DEF d
    <2> QED BY <2>2, <2>3, QuietStep
  <1>6. CASE Record(c)
    <2> DEFINE d == [c EXCEPT !.at = "reading"]
    <2>1. Shape(d) /\ d.from = c.from /\ d.at = "reading"
      BY <1>1 DEF CallOK, Shape
    <2>2. CallOK(d)
      BY <1>1, <2>1 DEF CallOK
    <2>3. /\ UNCHANGED <<inst, up>> /\ calls' = (calls \ {c}) \cup {d}
          /\ table' = table \/ table' = [table EXCEPT ![c.from][c.to] = c.inst]
      BY <1>6 DEF Record, Becomes, Remember
    <2>4. /\ c.from \in up /\ c.to \in Nodes /\ c.inst \in Nat
          /\ Compatible(c.from, inst[c.from], c.to, c.inst)
      BY <1>1, <1>6 DEF CallOK, Shape, Record
    <2> HIDE DEF d
    <2> QED BY <2>2, <2>3, <2>4, WriteStep
  <1>7. CASE ReadLine(c)
    <2> DEFINE d == [c EXCEPT !.lines = Tail(@)]
    <2>1. Shape(d) /\ d.from = c.from /\ d.at = "reading"
      BY <1>1, <1>7 DEF CallOK, Shape, ReadLine
    <2>2. CallOK(d)
      BY <1>1, <2>1 DEF CallOK
    <2>3. UNCHANGED <<inst, up, table>> /\ calls' = (calls \ {c}) \cup {d}
      BY <1>7 DEF ReadLine, Becomes, registry
    <2> HIDE DEF d
    <2> QED BY <2>2, <2>3, QuietStep
  <1>8. CASE EndOfBacklog(c)
    BY <1>8, QuietStep DEF EndOfBacklog, registry
  <1> QED BY <1>2, <1>3, <1>4, <1>5, <1>6, <1>7, <1>8 DEF CallStep

LEMMA VersionStep == VersionInv /\ [Next]_vars => VersionInv'
  <1> SUFFICES ASSUME VersionInv, [Next]_vars PROVE VersionInv' OBVIOUS
  <1>1. CASE UNCHANGED vars
    BY <1>1, QuietStep DEF vars, registry
  <1>2. ASSUME NEW n \in Nodes, SyncStep(n) \/ FetchBreaks(n) PROVE VersionInv'
    BY <1>2, QuietStep DEF SyncStep, SyncTail, PickKeeper, FetchTail, ReadTail, Leave, FetchBreaks,
       registry
  <1>3. ASSUME NEW d \in Pairs, Announce(d[1], d[2]) \/ Scan(d[1], d[2]) \/ FallSilent(d[1], d[2])
        PROVE  VersionInv'
    <2>1. d[1] \in Nodes /\ d[2] \in Nodes /\ "announce" \in By /\ "scan" \in By
      BY DEF Pairs, By
    <2>2. UNCHANGED <<inst, up, table>>
      BY <1>3 DEF Announce, Scan, FallSilent, registry
    <2>3. \/ calls' = calls \/ calls' = calls \cup Asked(d[2], d[1], "announce")
          \/ calls' = calls \cup Asked(d[1], d[2], "scan")
      BY <1>3 DEF Announce, Scan, FallSilent
    <2>4. \A c \in calls' \ calls : CallOK(c)
      BY <2>1, <2>3, AskedOK
    <2> QED BY <2>2, <2>4, QuietStep
  <1>4. ASSUME NEW c \in calls, Break(c) PROVE VersionInv'
    BY <1>4, QuietStep DEF Break, registry
  <1>5. ASSUME NEW n \in Nodes, NEW x \in Messages, Publish(n, x) \/ Fan(x, n) PROVE VersionInv'
    BY <1>5, QuietStep DEF Publish, Fan, registry
  <1> QED BY <1>1, <1>2, <1>3, <1>4, <1>5, StartStop, PruneStep, CallStepOK DEF Next

\* No neighbour is listed under an instance that speaks another version, whoever stops, is
\* upgraded and comes back while registers are under way.
THEOREM VersionCorrect == Spec => []OneVersion
  <1>1. VersionInv => OneVersion
    BY DEF VersionInv
  <1> QED BY <1>1, InitVersion, VersionStep, PTL DEF Spec

-----------------------------------------------------------------------------
(***************************************************************************)
(* Type correctness.  A process that ends has used one of the upsets, so   *)
(* that no node ever starts more often than there are instances.           *)
(***************************************************************************)
InstOK ==
  \A n \in Nodes : /\ n \in up => inst[n] >= 1
                   /\ inst[n] + (IF n \in up THEN 0 ELSE 1) <= upsets + 1

RegistryOK ==
  /\ inst \in [Nodes -> {0} \cup Instances] /\ up \subseteq Nodes
  /\ table \in [Nodes -> [Nodes -> {0} \cup Instances]]
  /\ silent \subseteq Pairs
  /\ mismatch \in [Nodes -> SUBSET Nodes]
  /\ upsets \in 0..MaxUpsets /\ InstOK

FeedsOK ==
  /\ msgs \in [Nodes -> Seq(Messages)] /\ \A n \in Nodes : Len(msgs[n]) <= MaxTail
  /\ fans \subseteq Messages \X Nodes
  /\ got \in [Nodes -> SUBSET Messages]

Syncs == [at : {"idle", "picking", "asking", "reading", "leaving"},
          with : {0} \cup Nodes, tail : Seq(Messages)]

SyncOK == wakes \in [Nodes -> Nat] /\ sync \in [Nodes -> Syncs]

TypeInv == RegistryOK /\ calls \subseteq Calls /\ FeedsOK /\ SyncOK

-----------------------------------------------------------------------------
LEMMA InstancesAreNats == (\A i \in Instances : i \in Nat /\ i >= 1) /\ MaxUpsets \in Nat
  BY BoundsAssumption DEF Instances

\* A store keeps its type and its size, whatever is put into it.
LEMMA StoredFits ==
  ASSUME NEW s \in Seq(Messages), Len(s) <= MaxTail, NEW x \in Messages
  PROVE  Stored(s, x) \in Seq(Messages) /\ Len(Stored(s, x)) <= MaxTail
  <1>1. Len(s) \in Nat /\ MaxTail \in Nat \ {0}
    BY BoundsAssumption
  <1>2. CASE x \in Elements(s) \/ Len(s) < MaxTail
    <2>1. Append(s, x) \in Seq(Messages) /\ Len(Append(s, x)) = Len(s) + 1
      OBVIOUS
    <2> QED BY <1>1, <1>2, <2>1 DEF Stored
  <1>3. CASE ~ (x \in Elements(s) \/ Len(s) < MaxTail)
    <2> DEFINE t == SubSeq(s, Len(s) - MaxTail + 2, Len(s))
    <2>1. Len(s) = MaxTail
      BY <1>1, <1>3
    <2>2. t \in Seq(Messages) /\ Len(t) < MaxTail
      <3>1. \A i \in 2..Len(s) : s[i] \in Messages
        BY <1>1
      <3>2. t = SubSeq(s, 2, Len(s))
        BY <1>1, <2>1
      <3>3. 2 \in Int /\ Len(s) \in Int
        BY <1>1
      <3>4. /\ SubSeq(s, 2, Len(s)) \in Seq(Messages)
            /\ Len(SubSeq(s, 2, Len(s))) = IF 2 <= Len(s) THEN Len(s) - 2 + 1 ELSE 0
        BY <3>1, <3>3, SubSeqProperties
      <3> QED BY <1>1, <2>1, <3>2, <3>4
    <2> HIDE DEF t
    <2>3. Append(t, x) \in Seq(Messages) /\ Len(Append(t, x)) = Len(t) + 1 /\ Len(t) \in Nat
      BY <2>2
    <2>4. Stored(s, x) = Append(t, x)
      BY <1>3 DEF Stored, t
    <2> QED BY <1>1, <2>2, <2>3, <2>4
  <1> QED BY <1>2, <1>3

LEMMA BacklogType ==
  ASSUME FeedsOK, NEW n \in Nodes
  PROVE  Backlog(n) \in Seq(Messages)
  <1> DEFINE s == msgs[n]
             own == {x \in Messages : Author[x] = n}
             first == IF Len(s) > Recent THEN Len(s) - Recent + 1 ELSE 1
  <1>1. s \in Seq(Messages) /\ Len(s) \in Nat /\ Recent \in Nat \ {0}
    BY BoundsAssumption DEF FeedsOK
  <1>2. first \in Nat \ {0} /\ \A i \in first..Len(s) : s[i] \in Messages
    BY <1>1
  <1>3. RecentOf(s) \in Seq(Messages)
    <2>1. first \in Int /\ Len(s) \in Int /\ RecentOf(s) = SubSeq(s, first, Len(s))
      BY <1>1, <1>2 DEF RecentOf
    <2> HIDE DEF first, s
    <2> QED BY <1>2, <2>1, SubSeqProperties
  <1> HIDE DEF s, own
  <1>4. Only(RecentOf(s), own) \in Seq(Messages \cap own)
    BY <1>3, OnlyFacts
  <1>5. Messages \cap own \subseteq Messages
    OBVIOUS
  <1>6. Seq(Messages \cap own) \subseteq Seq(Messages)
    BY <1>5
  <1> QED BY <1>4, <1>6 DEF Backlog, s, own

\* The keeper is a node.
LEMMA KeeperType ==
  ASSUME RegistryOK, NEW n \in Nodes
  PROVE  Keeper(n) \in Nodes
  <1> DEFINE K == Listed(n) \cup {n}
  <1>1. K \in SUBSET Nat /\ K # {} /\ K \subseteq Nodes
    BY NodesAssumption DEF Listed
  <1> HIDE DEF K
  <1>2. \E k \in K : \A m \in K : k <= m
    BY <1>1, LeastNatural
  <1>3. Keeper(n) = CHOOSE k \in K : \A m \in K : k <= m
    BY DEF Keeper, K
  <1> QED BY <1>1, <1>2, <1>3

LEMMA TakesOK ==
  ASSUME FeedsOK, NEW n \in Nodes, NEW x \in Messages, Takes(n, x),
         fans' \subseteq Messages \X Nodes
  PROVE  FeedsOK'
  <1>1. Stored(msgs[n], x) \in Seq(Messages) /\ Len(Stored(msgs[n], x)) <= MaxTail
    BY StoredFits DEF FeedsOK
  <1> QED BY <1>1 DEF Takes, FeedsOK

LEMMA HandleOK ==
  ASSUME FeedsOK, NEW n \in Nodes, NEW x \in Messages, HandleChatLine(n, x),
         fans' \subseteq Messages \X Nodes
  PROVE  FeedsOK'
  <1>1. CASE Takes(n, x)
    BY <1>1, TakesOK
  <1>2. ASSUME NEW k \in Unused(n, x),
               msgs' = [msgs EXCEPT ![n] = Stored(Stored(@, x), k)],
               got' = [got EXCEPT ![n] = @ \cup {x, k}]
        PROVE  FeedsOK'
    <2>1. k \in Messages
      BY DEF Unused, Messages
    <2>2. Stored(msgs[n], x) \in Seq(Messages) /\ Len(Stored(msgs[n], x)) <= MaxTail
      BY StoredFits DEF FeedsOK
    <2> DEFINE t == Stored(Stored(msgs[n], x), k)
    <2>3. t \in Seq(Messages) /\ Len(t) <= MaxTail
      BY <2>1, <2>2, StoredFits
    <2>4. msgs' = [msgs EXCEPT ![n] = t]
      BY <1>2
    <2> HIDE DEF t
    <2> QED BY <1>2, <2>1, <2>3, <2>4 DEF FeedsOK
  <1> QED BY <1>1, <1>2 DEF HandleChatLine

LEMMA RegistryKept ==
  ASSUME RegistryOK, UNCHANGED <<inst, up>>,
         table' \in [Nodes -> [Nodes -> {0} \cup Instances]],
         silent' \subseteq Pairs, mismatch' \in [Nodes -> SUBSET Nodes],
         upsets' = upsets \/ (upsets < MaxUpsets /\ upsets' = upsets + 1)
  PROVE  RegistryOK'
  <1>1. upsets' \in 0..MaxUpsets /\ upsets' >= upsets
    BY InstancesAreNats DEF RegistryOK
  <1>2. InstOK'
    <2>1. upsets \in Nat /\ upsets' \in Nat
      BY <1>1, InstancesAreNats DEF RegistryOK
    <2>2. ASSUME NEW n \in Nodes
          PROVE  /\ n \in up => inst[n] >= 1
                 /\ inst[n] + (IF n \in up THEN 0 ELSE 1) <= upsets' + 1
      <3>1. inst[n] \in Nat
        <4>1. inst[n] \in {0} \cup Instances
          BY DEF RegistryOK
        <4> QED BY <4>1, InstancesAreNats
      <3>2. /\ n \in up => inst[n] >= 1
            /\ inst[n] + (IF n \in up THEN 0 ELSE 1) <= upsets + 1
        BY DEF RegistryOK, InstOK
      <3> QED BY <1>1, <2>1, <3>1, <3>2
    <2> QED BY <2>2 DEF InstOK
  <1> QED BY <1>1, <1>2 DEF RegistryOK

\* rememberPeer writes an instance that the register carries.
LEMMA RememberOK ==
  ASSUME RegistryOK, SyncOK, NEW n \in Nodes, NEW m \in Nodes, NEW i \in Instances, NEW known,
         Remember(n, m, i, known), UNCHANGED <<inst, up, mismatch, sync, upsets>>
  PROVE  RegistryOK' /\ SyncOK'
  <1>1. table' \in [Nodes -> [Nodes -> {0} \cup Instances]] /\ silent' \subseteq Pairs
    <2>1. CASE known
      BY <2>1 DEF Remember, RegistryOK
    <2>2. CASE ~ known
      <3>1. table' = [table EXCEPT ![n][m] = i] /\ silent' = silent \ {<<n, m>>}
        BY <2>2 DEF Remember
      <3> QED BY <3>1 DEF RegistryOK
    <2> QED BY <2>1, <2>2
  <1>2. RegistryOK'
    BY <1>1, RegistryKept DEF RegistryOK
  <1>3. wakes' \in [Nodes -> Nat]
    BY DEF Remember, SyncOK
  <1> QED BY <1>2, <1>3 DEF SyncOK

-----------------------------------------------------------------------------
(* Every action keeps the types.                                           *)

LEMMA StartTypes == ASSUME TypeInv, NEW n \in Nodes, Start(n) PROVE TypeInv'
  <1>1. /\ n \notin up /\ up' = up \cup {n} /\ inst' = [inst EXCEPT ![n] = @ + 1]
        /\ UNCHANGED <<table, silent, mismatch, calls, feeds, wakes, sync, upsets>>
    BY DEF Start
  <1>2. \A m \in Nodes : inst[m] \in Nat /\ upsets \in Nat /\ upsets <= MaxUpsets
    <2>1. \A m \in Nodes : inst[m] \in {0} \cup Instances
      BY DEF TypeInv, RegistryOK
    <2> QED BY <2>1, InstancesAreNats DEF TypeInv, RegistryOK
  <1>3. \A m \in Nodes : inst'[m] = IF m = n THEN inst[n] + 1 ELSE inst[m]
    BY <1>1 DEF TypeInv, RegistryOK
  <1>4. inst[n] + 1 <= upsets + 1
    BY <1>1 DEF TypeInv, RegistryOK, InstOK
  <1>5. inst[n] + 1 \in Instances
    BY <1>2, <1>4, InstancesAreNats DEF Instances
  <1>6. inst' \in [Nodes -> {0} \cup Instances]
    BY <1>1, <1>5 DEF TypeInv, RegistryOK
  <1>7. InstOK'
    <2>1. ASSUME NEW m \in Nodes
          PROVE  /\ m \in up' => inst'[m] >= 1
                 /\ inst'[m] + (IF m \in up' THEN 0 ELSE 1) <= upsets + 1
      <3>1. CASE m = n
        BY <1>1, <1>2, <1>3, <1>4, <3>1
      <3>2. CASE m # n
        BY <1>1, <1>3, <3>2 DEF TypeInv, RegistryOK, InstOK
      <3> QED BY <3>1, <3>2
    <2> QED BY <1>1, <2>1 DEF InstOK
  <1> QED BY <1>1, <1>6, <1>7 DEF TypeInv, RegistryOK, FeedsOK, SyncOK, feeds

LEMMA IdleTypes == Idle \in Syncs /\ Leaving \in Syncs
  <1>1. <<>> \in Seq(Messages)
    OBVIOUS
  <1> QED BY <1>1 DEF Idle, Leaving, Syncs

LEMMA StopTypes == ASSUME TypeInv, NEW n \in Nodes, Stop(n) PROVE TypeInv'
  <1>1. /\ up' = up \ {n} /\ inst' = inst
        /\ upsets < MaxUpsets /\ upsets' = upsets + 1
        /\ table' = [table EXCEPT ![n] = [m \in Nodes |-> 0]]
        /\ silent' \subseteq silent /\ calls' \subseteq calls /\ fans' \subseteq fans
        /\ mismatch' = [mismatch EXCEPT ![n] = {}]
        /\ wakes' = [wakes EXCEPT ![n] = 0]
        /\ sync' = [sync EXCEPT ![n] = Idle]
        /\ UNCHANGED <<msgs, got>>
    BY DEF Stop, Upset
  <1>2. upsets \in Nat /\ upsets' \in 0..MaxUpsets
    BY <1>1, InstancesAreNats DEF TypeInv, RegistryOK
  <1>3. InstOK'
    <2>1. ASSUME NEW m \in Nodes
          PROVE  /\ m \in up' => inst[m] >= 1
                 /\ inst[m] + (IF m \in up' THEN 0 ELSE 1) <= upsets' + 1
      <3>1. inst[m] \in Nat
        <4>1. inst[m] \in {0} \cup Instances
          BY DEF TypeInv, RegistryOK
        <4> QED BY <4>1, InstancesAreNats
      <3>2. /\ m \in up => inst[m] >= 1
            /\ inst[m] + (IF m \in up THEN 0 ELSE 1) <= upsets + 1
        BY DEF TypeInv, RegistryOK, InstOK
      <3> QED BY <1>1, <1>2, <3>1, <3>2
    <2> QED BY <1>1, <2>1 DEF InstOK
  <1>4. RegistryOK'
    BY <1>1, <1>2, <1>3 DEF TypeInv, RegistryOK
  <1>5. FeedsOK' /\ SyncOK' /\ calls' \subseteq Calls
    BY <1>1, IdleTypes DEF TypeInv, FeedsOK, SyncOK
  <1> QED BY <1>4, <1>5 DEF TypeInv

LEMMA PruneTypes == ASSUME TypeInv, NEW n \in Nodes, Prune(n) PROVE TypeInv'
  <1> DEFINE gone == {m \in Nodes : <<n, m>> \in silent /\ table[n][m] # 0}
  <1>1. /\ table' = [table EXCEPT ![n] = [m \in Nodes |-> IF m \in gone THEN 0 ELSE @[m]]]
        /\ silent' \subseteq silent
        /\ wakes' = [wakes EXCEPT ![n] = @ + Cardinality(gone)]
        /\ UNCHANGED <<inst, up, mismatch, calls, feeds, sync, upsets>>
    BY DEF Prune
  <1>2. Cardinality(gone) \in Nat
    <2>1. gone \subseteq Nodes
      OBVIOUS
    <2> HIDE DEF gone
    <2> QED BY <2>1, NodesAssumption, FS_Subset, FS_CardinalityType
  <1> HIDE DEF gone
  <1>3. table' \in [Nodes -> [Nodes -> {0} \cup Instances]]
    BY <1>1 DEF TypeInv, RegistryOK
  <1>4. RegistryOK'
    BY <1>1, <1>3, RegistryKept DEF TypeInv, RegistryOK
  <1>5. FeedsOK' /\ SyncOK' /\ calls' \subseteq Calls
    BY <1>1, <1>2 DEF TypeInv, FeedsOK, SyncOK, feeds
  <1> QED BY <1>4, <1>5 DEF TypeInv

LEMMA AskedTypes ==
  ASSUME TypeInv, NEW n \in Nodes, NEW m \in Nodes, NEW by \in By
  PROVE  Asked(n, m, by) \subseteq Calls
  <1>1. CASE Reaches(n, m)
    <2>1. inst[n] \in Instances
      <3>1. inst[n] \in {0} \cup Instances /\ inst[n] >= 1
        BY <1>1 DEF TypeInv, RegistryOK, InstOK, Reaches
      <3> QED BY <3>1
    <2>2. <<>> \in Seq(Messages)
      OBVIOUS
    <2> QED BY <1>1, <2>1, <2>2 DEF Asked, Calls
  <1>2. CASE ~ Reaches(n, m)
    BY <1>2 DEF Asked
  <1> QED BY <1>1, <1>2

LEMMA HearTypes ==
  ASSUME TypeInv, NEW d \in Pairs, Announce(d[1], d[2]) \/ Scan(d[1], d[2]) \/ FallSilent(d[1], d[2])
  PROVE  TypeInv'
  <1>1. /\ d[1] \in Nodes /\ d[2] \in Nodes /\ <<d[1], d[2]>> \in Pairs
        /\ "announce" \in By /\ "scan" \in By
    BY DEF Pairs, By
  <1>2. calls' \subseteq Calls
    <2>1. /\ Asked(d[2], d[1], "announce") \subseteq Calls
          /\ Asked(d[1], d[2], "scan") \subseteq Calls
      BY <1>1, AskedTypes
    <2>2. \/ calls' = calls \/ calls' = calls \cup Asked(d[2], d[1], "announce")
          \/ calls' = calls \cup Asked(d[1], d[2], "scan")
      BY DEF Announce, Scan, FallSilent
    <2> QED BY <2>1, <2>2 DEF TypeInv
  <1>3. UNCHANGED <<inst, up, table, feeds, wakes, sync>>
    BY DEF Announce, Scan, FallSilent, registry
  <1>4. upsets' = upsets \/ (upsets < MaxUpsets /\ upsets' = upsets + 1)
    BY DEF Announce, Scan, FallSilent, Upset
  <1>5. silent' \subseteq Pairs
    BY <1>1 DEF Announce, Scan, FallSilent, registry, TypeInv, RegistryOK
  <1>6. mismatch' \in [Nodes -> SUBSET Nodes]
    BY <1>1 DEF Announce, Scan, FallSilent, registry, Noted, TypeInv, RegistryOK
  <1>7. RegistryOK'
    BY <1>3, <1>4, <1>5, <1>6, RegistryKept DEF TypeInv, RegistryOK
  <1> QED BY <1>2, <1>3, <1>7 DEF TypeInv, FeedsOK, SyncOK, feeds

LEMMA CallTypes ==
  ASSUME TypeInv, VersionInv, NEW c \in calls, CallStep(c)
  PROVE  TypeInv'
  <1>1. /\ c \in Calls /\ c.from \in Nodes /\ c.to \in Nodes /\ c.inst \in Instances
        /\ c.lines \in Seq(Messages)
    BY DEF TypeInv, Calls
  <1>2. CASE Refuse(c)
    <2>1. mismatch' \in [Nodes -> SUBSET Nodes]
      BY <1>1, <1>2 DEF Refuse, Noted, TypeInv, RegistryOK
    <2>2. RegistryOK'
      BY <1>2, <2>1, RegistryKept DEF Refuse, TypeInv, RegistryOK
    <2> QED BY <1>2, <2>2 DEF Refuse, TypeInv, FeedsOK, SyncOK, feeds
  <1>3. ASSUME UNCHANGED <<registry, feeds, wakes, sync, upsets>>, calls' \subseteq Calls
        PROVE  TypeInv'
    BY <1>3 DEF registry, feeds, TypeInv, RegistryOK, InstOK, FeedsOK, SyncOK
  <1>4. CASE LookUp(c)
    <2>1. [c EXCEPT !.at = "noting", !.known = table[c.to][c.from] = c.inst] \in Calls
      BY <1>1 DEF Calls
    <2>2. calls' \subseteq Calls
      BY <1>4, <2>1 DEF LookUp, Becomes, TypeInv
    <2> QED BY <1>3, <1>4, <2>2 DEF LookUp
  <1>5. CASE Answer(c)
    <2>1. Remember(c.to, c.from, c.inst, c.known) /\ UNCHANGED <<inst, up, mismatch, feeds, sync, upsets>>
      BY <1>5 DEF Answer
    <2>2. RegistryOK' /\ SyncOK'
      BY <1>1, <2>1, RememberOK DEF TypeInv
    <2>3. inst[c.to] \in Instances
      <3>1. c.to \in up
        BY <1>5 DEF Answer, VersionInv, CallOK
      <3>2. inst[c.to] \in {0} \cup Instances /\ inst[c.to] >= 1
        BY <1>1, <3>1 DEF TypeInv, RegistryOK, InstOK
      <3> QED BY <3>2
    <2>4. Backlog(c.to) \in Seq(Messages)
      BY <1>1, BacklogType DEF TypeInv
    <2>5. [c EXCEPT !.at = "answered", !.inst = inst[c.to], !.lines = Backlog(c.to)] \in Calls
      BY <1>1, <2>3, <2>4 DEF Calls
    <2>6. calls' \subseteq Calls
      BY <1>5, <2>5 DEF Answer, Becomes, TypeInv
    <2> QED BY <2>1, <2>2, <2>6 DEF TypeInv, FeedsOK, feeds
  <1>6. CASE LookUpServer(c)
    <2>1. [c EXCEPT !.at = "recording", !.known = table[c.from][c.to] = c.inst] \in Calls
      BY <1>1 DEF Calls
    <2>2. calls' \subseteq Calls
      BY <1>6, <2>1 DEF LookUpServer, Becomes, TypeInv
    <2> QED BY <1>3, <1>6, <2>2 DEF LookUpServer
  <1>7. CASE Record(c)
    <2>1. Remember(c.from, c.to, c.inst, c.known) /\ UNCHANGED <<inst, up, mismatch, feeds, sync, upsets>>
      BY <1>7 DEF Record
    <2>2. RegistryOK' /\ SyncOK'
      BY <1>1, <2>1, RememberOK DEF TypeInv
    <2>3. [c EXCEPT !.at = "reading"] \in Calls
      BY <1>1 DEF Calls
    <2>4. calls' \subseteq Calls
      BY <1>7, <2>3 DEF Record, Becomes, TypeInv
    <2> QED BY <2>1, <2>2, <2>4 DEF TypeInv, FeedsOK, feeds
  <1>8. CASE ReadLine(c)
    <2>1. Head(c.lines) \in Messages /\ Tail(c.lines) \in Seq(Messages)
      BY <1>1, <1>8 DEF ReadLine
    <2>2. [c EXCEPT !.lines = Tail(@)] \in Calls
      BY <1>1, <2>1 DEF Calls
    <2>3. calls' \subseteq Calls /\ UNCHANGED <<registry, wakes, sync, upsets>>
      BY <1>8, <2>2 DEF ReadLine, Becomes, TypeInv
    <2>4. FeedsOK'
      <3>1. CASE HandleChatLine(c.from, Head(c.lines)) /\ UNCHANGED fans
        <4>1. fans' \subseteq Messages \X Nodes
          BY <3>1 DEF TypeInv, FeedsOK
        <4> QED BY <1>1, <2>1, <3>1, <4>1, HandleOK DEF TypeInv
      <3>2. CASE UNCHANGED feeds
        BY <3>2 DEF feeds, TypeInv, FeedsOK
      <3> QED BY <1>8, <3>1, <3>2 DEF ReadLine
    <2> QED BY <2>3, <2>4 DEF registry, TypeInv, RegistryOK, InstOK, SyncOK
  <1>9. CASE EndOfBacklog(c)
    BY <1>3, <1>9 DEF EndOfBacklog, TypeInv
  <1> QED BY <1>2, <1>4, <1>5, <1>6, <1>7, <1>8, <1>9 DEF CallStep

LEMMA MessageTypes ==
  ASSUME TypeInv, NEW n \in Nodes, NEW x \in Messages, Publish(n, x) \/ Fan(x, n)
  PROVE  TypeInv'
  <1>1. UNCHANGED <<registry, calls, wakes, sync, upsets>>
    BY DEF Publish, Fan
  <1>2. FeedsOK'
    <2>1. CASE Publish(n, x)
      <3>1. fans' \subseteq Messages \X Nodes
        BY <2>1 DEF Publish, Listed, TypeInv, FeedsOK
      <3> QED BY <2>1, <3>1, TakesOK DEF Publish, TypeInv
    <2>2. CASE Fan(x, n)
      <3>1. fans' \subseteq Messages \X Nodes
        BY <2>2 DEF Fan, TypeInv, FeedsOK
      <3>2. CASE HandleChatLine(n, x)
        BY <3>1, <3>2, HandleOK DEF TypeInv
      <3>3. CASE UNCHANGED <<msgs, got>>
        BY <3>1, <3>3 DEF TypeInv, FeedsOK
      <3> QED BY <2>2, <3>2, <3>3 DEF Fan
    <2> QED BY <2>1, <2>2
  <1> QED BY <1>1, <1>2 DEF registry, TypeInv, RegistryOK, InstOK, SyncOK

LEMMA SyncTypes ==
  ASSUME TypeInv, NEW n \in Nodes, SyncStep(n) \/ FetchBreaks(n)
  PROVE  TypeInv'
  <1>1. sync[n] \in Syncs /\ wakes[n] \in Nat
    BY DEF TypeInv, SyncOK
  <1>2. /\ UNCHANGED <<inst, up, table, silent, mismatch, calls, fans>>
        /\ upsets' = upsets \/ (upsets < MaxUpsets /\ upsets' = upsets + 1)
    BY DEF SyncStep, SyncTail, PickKeeper, FetchTail, ReadTail, Leave, FetchBreaks, registry, feeds,
           Upset
  <1>3. RegistryOK' /\ calls' \subseteq Calls
    BY <1>2, RegistryKept DEF TypeInv, RegistryOK
  <1>4. ASSUME NEW s \in Syncs, sync' = [sync EXCEPT ![n] = s], wakes' = wakes PROVE SyncOK'
    BY <1>4 DEF TypeInv, SyncOK
  <1>5. ASSUME UNCHANGED <<msgs, got>> PROVE FeedsOK'
    BY <1>2, <1>5 DEF TypeInv, FeedsOK
  <1>6. CASE SyncTail(n)
    <2>1. wakes[n] - 1 \in Nat
      BY <1>1, <1>6 DEF SyncTail
    <2>2. wakes' \in [Nodes -> Nat]
      BY <1>6, <2>1 DEF SyncTail, TypeInv, SyncOK
    <2>3. [sync[n] EXCEPT !.at = IF @ = "idle" THEN "picking" ELSE @] \in Syncs
      BY <1>1 DEF Syncs
    <2>4. sync' = [sync EXCEPT ![n] = [sync[n] EXCEPT !.at = IF @ = "idle" THEN "picking" ELSE @]]
      BY <1>6 DEF SyncTail
    <2>5. sync' \in [Nodes -> Syncs]
      BY <2>3, <2>4 DEF TypeInv, SyncOK
    <2> QED BY <1>3, <1>5, <1>6, <2>2, <2>5 DEF SyncTail, feeds, TypeInv, SyncOK
  <1>7. CASE PickKeeper(n)
    <2>1. <<>> \in Seq(Messages) /\ Keeper(n) \in Nodes
      BY KeeperType DEF TypeInv
    <2>2. [at |-> "asking", with |-> Keeper(n), tail |-> <<>>] \in Syncs
      BY <2>1 DEF Syncs
    <2> QED BY <1>3, <1>4, <1>5, <1>7, <2>2, IdleTypes DEF PickKeeper, feeds, TypeInv
  <1>8. CASE FetchTail(n)
    <2> DEFINE k == sync[n].with
    <2>1. CASE Reaches(n, k)
      <3>1. k \in Nodes
        BY <2>1 DEF Reaches, TypeInv, RegistryOK
      <3>2. [at |-> "reading", with |-> k, tail |-> msgs[k]] \in Syncs
        BY <3>1 DEF TypeInv, FeedsOK, Syncs
      <3> QED BY <1>3, <1>4, <1>5, <1>8, <2>1, <3>2 DEF FetchTail, feeds, TypeInv
    <2>2. CASE ~ Reaches(n, k)
      BY <1>3, <1>4, <1>5, <1>8, <2>2, IdleTypes DEF FetchTail, feeds, TypeInv
    <2> QED BY <2>1, <2>2
  <1>9. CASE ReadTail(n)
    <2>1. sync[n].tail \in Seq(Messages) /\ UNCHANGED <<fans, wakes>>
      BY <1>1, <1>9 DEF Syncs, ReadTail
    <2>2. CASE sync[n].tail = <<>>
      BY <1>3, <1>4, <1>5, <1>9, <2>1, <2>2, IdleTypes DEF ReadTail, TypeInv
    <2>3. CASE sync[n].tail # <<>>
      <3>1. Head(sync[n].tail) \in Messages /\ Tail(sync[n].tail) \in Seq(Messages)
        BY <2>1, <2>3
      <3>2. [sync[n] EXCEPT !.tail = Tail(@)] \in Syncs
        BY <1>1, <3>1 DEF Syncs
      <3>3. /\ Takes(n, Head(sync[n].tail))
            /\ sync' = [sync EXCEPT ![n] = [sync[n] EXCEPT !.tail = Tail(@)]]
        BY <1>9, <2>3 DEF ReadTail
      <3>4. fans' \subseteq Messages \X Nodes
        BY <2>1 DEF TypeInv, FeedsOK
      <3>5. FeedsOK'
        BY <3>1, <3>3, <3>4, TakesOK DEF TypeInv
      <3>6. SyncOK'
        BY <1>4, <2>1, <3>2, <3>3
      <3> QED BY <1>3, <3>5, <3>6 DEF TypeInv
    <2> QED BY <2>2, <2>3
  <1>10. CASE Leave(n)
    BY <1>3, <1>4, <1>5, <1>10, IdleTypes DEF Leave, feeds, TypeInv
  <1>11. CASE FetchBreaks(n)
    BY <1>3, <1>4, <1>5, <1>11, IdleTypes DEF FetchBreaks, feeds, TypeInv
  <1> QED BY <1>6, <1>7, <1>8, <1>9, <1>10, <1>11 DEF SyncStep

LEMMA InitTypes == Init => TypeInv
  <1> SUFFICES ASSUME Init PROVE TypeInv
    OBVIOUS
  <1>1. RegistryOK
    BY InstancesAreNats DEF Init, RegistryOK, InstOK
  <1>2. FeedsOK
    <2>1. <<>> \in Seq(Messages) /\ Len(<<>>) = 0
      OBVIOUS
    <2> QED BY <2>1, BoundsAssumption DEF Init, FeedsOK
  <1>3. SyncOK /\ calls \subseteq Calls
    BY IdleTypes DEF Init, SyncOK
  <1> QED BY <1>1, <1>2, <1>3 DEF TypeInv

LEMMA NextTypes == TypeInv /\ VersionInv /\ [Next]_vars => TypeInv'
  <1> SUFFICES ASSUME TypeInv, VersionInv, [Next]_vars PROVE TypeInv'
    OBVIOUS
  <1>1. CASE UNCHANGED vars
    BY <1>1 DEF vars, registry, feeds, TypeInv, RegistryOK, InstOK, FeedsOK, SyncOK
  <1>2. ASSUME NEW n \in Nodes,
               Start(n) \/ Stop(n) \/ Prune(n) \/ SyncStep(n) \/ FetchBreaks(n)
        PROVE  TypeInv'
    BY <1>2, StartTypes, StopTypes, PruneTypes, SyncTypes
  <1>3. ASSUME NEW d \in Pairs,
               Announce(d[1], d[2]) \/ Scan(d[1], d[2]) \/ FallSilent(d[1], d[2])
        PROVE  TypeInv'
    BY <1>3, HearTypes
  <1>4. ASSUME NEW c \in calls, Break(c) PROVE TypeInv'
    <2>1. /\ calls' \subseteq Calls /\ UNCHANGED <<registry, feeds, wakes, sync>>
          /\ upsets < MaxUpsets /\ upsets' = upsets + 1
      BY <1>4 DEF Break, Upset, TypeInv
    <2>2. RegistryOK'
      BY <2>1, RegistryKept DEF TypeInv, RegistryOK, registry
    <2> QED BY <2>1, <2>2 DEF feeds, TypeInv, FeedsOK, SyncOK
  <1>5. ASSUME NEW n \in Nodes, NEW x \in Messages, Publish(n, x) \/ Fan(x, n) PROVE TypeInv'
    BY <1>5, MessageTypes
  <1> QED BY <1>1, <1>2, <1>3, <1>4, <1>5, CallTypes DEF Next

\* Every variable keeps its type, a feed never outgrows MaxTailMessages, and what an answer
\* carries of a feed is of that feed's type, for any history of registers.
THEOREM LanTypes == Spec => []TypeOK
  <1>1. Spec => []VersionInv
    BY InitVersion, VersionStep, PTL DEF Spec
  <1>2. Spec => []TypeInv
    BY <1>1, InitTypes, NextTypes, PTL DEF Spec
  <1>3. TypeInv => TypeOK
    BY DEF TypeInv, RegistryOK, FeedsOK, SyncOK, Syncs, TypeOK
  <1> QED BY <1>2, <1>3, PTL
=============================================================================
