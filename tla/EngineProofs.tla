------------------------------ MODULE EngineProofs ------------------------------
(***************************************************************************)
(* Theorems about Engine, for any number of processes, clients, requests   *)
(* and nicks.                                                              *)
(***************************************************************************)
EXTENDS Engine, TLAPS


LEMMA TypeInit == Init => TypeOK
  <1> SUFFICES ASSUME Init PROVE TypeOK OBVIOUS
  <1>1. /\ idFile \in Ids \cup {None, Empty} /\ nameFile \in Names \cup {None, Empty}
        /\ consentFile \in BOOLEAN /\ meshOn \subseteq Procs /\ born \in 0..MaxIds
        /\ served \subseteq Ids /\ agreed \in BOOLEAN /\ raced \in BOOLEAN
        /\ crossed \in BOOLEAN /\ upsets \in 0..MaxUpsets
    <2>1. born \in 0..MaxIds /\ upsets \in 0..MaxUpsets
      BY BoundsAssumption DEF Init
    <2> QED BY <2>1 DEF Init
  <1>2. /\ at \in [Procs -> Stages] /\ asAgent \in [Procs -> BOOLEAN]
        /\ flag \in [Procs -> Names \cup {None}] /\ id \in [Procs -> Ids \cup {0}]
        /\ name \in [Procs -> Names \cup {None}]
        /\ mesh \in [Procs -> Names \cup {None}] /\ hub \in [Procs -> Names \cup {None}]
    BY DEF Init, Stages
  <1>3. /\ post \in [Posts -> [at : {"none", "checking", "saving", "filling", "saved", "told"},
                               to : Procs \cup {None}]]
        /\ client \in [Clients -> {"new", "waiting", "asking", "allowing", "in", "left"}]
        /\ \A r \in Posts : post[r].at # "none" => post[r].to \in Serving
    BY DEF Init, Idle
  <1>4. \A p \in Procs : /\ at[p] \notin {"off", "id"} => id[p] \in Ids
                         /\ at[p] \in Named => name[p] \in Names
    BY DEF Init, Named
  <1> QED BY <1>1, <1>2, <1>3, <1>4 DEF TypeOK

LEMMA TypeStart ==
  ASSUME TypeOK, NEW p \in Procs, LoadId(p) \/ OpenId(p) \/ FillId(p)
  PROVE  TypeOK'
  <1>1. CASE LoadId(p)
    <2>1. CASE idFile \in Ids /\ id' = [id EXCEPT ![p] = idFile] /\ Goes(p, "name")
               /\ UNCHANGED <<born, raced>>
      BY <1>1, <2>1 DEF TypeOK, LoadId, Goes, Stages, Named, Serving, files, nicks, users
    <2>2. CASE born < MaxIds /\ Creates(p)
      <3>1. born + 1 \in Ids /\ born + 1 \in 0..MaxIds
        BY <2>2, BoundsAssumption DEF TypeOK, Ids
      <3> QED BY <1>1, <2>2, <3>1 DEF TypeOK, LoadId, Creates, Goes, Stages, Named, Serving, files, nicks, users
    <2> QED BY <1>1, <2>1, <2>2 DEF LoadId
  <1>2. CASE OpenId(p)
    BY <1>2, BoundsAssumption DEF TypeOK, OpenId, Goes, Ids, Stages, Named, Serving, nicks, users
  <1>3. CASE FillId(p)
    BY <1>3, BoundsAssumption DEF TypeOK, FillId, Goes, Ids, Stages, Named, Serving, nicks, users
  <1> QED BY <1>1, <1>2, <1>3

LEMMA TypeName ==
  ASSUME TypeOK, NEW p \in Procs, LoadName(p) \/ OpenName(p) \/ FillName(p)
  PROVE  TypeOK'
  <1>1. CASE LoadName(p)
    BY <1>1, NamesAssumption DEF TypeOK, LoadName, Resolve, Goes, Stages, Named, Serving, files, users
  <1>2. CASE OpenName(p)
    BY <1>2 DEF TypeOK, OpenName, Writes, Goes, Stages, Named, Serving, users
  <1>3. CASE FillName(p)
    BY <1>3 DEF TypeOK, FillName, Writes, Goes, Stages, Named, Serving, users
  <1> QED BY <1>1, <1>2, <1>3

LEMMA TypeEnds ==
  ASSUME TypeOK, NEW p \in Procs, Ends(p)
  PROVE  /\ at' \in [Procs -> Stages] /\ asAgent' \in [Procs -> BOOLEAN]
         /\ flag' \in [Procs -> Names \cup {None}] /\ id' \in [Procs -> Ids \cup {0}]
         /\ name' \in [Procs -> Names \cup {None}]
         /\ mesh' \in [Procs -> Names \cup {None}] /\ hub' \in [Procs -> Names \cup {None}]
         /\ meshOn' \subseteq Procs
         /\ post' \in [Posts -> [at : {"none", "checking", "saving", "filling", "saved", "told"},
                         to : Procs \cup {None}]]
         /\ \A q \in Procs : /\ at'[q] \notin {"off", "id"} => id'[q] \in Ids
                             /\ at'[q] \in Named => name'[q] \in Names
         /\ \A r \in Posts : post'[r].at # "none" => post'[r].to \in Serving'
  BY DEF TypeOK, Ends, Forgets, Goes, Stages, Named, Serving, Idle

LEMMA TypeRest ==
  ASSUME TypeOK, NEW p \in Procs, Check(p) \/ Consent(p) \/ Listen(p) \/ Kill(p) \/ Fail(p)
  PROVE  TypeOK'
  <1>1. CASE Check(p)
    <2>1. CASE Allowed(name[p], asAgent[p])
      BY <1>1, <2>1 DEF TypeOK, Check, Goes, Stages, Named, Serving, files, users
    <2>2. CASE ~ Allowed(name[p], asAgent[p])
      BY <1>1, <2>2, TypeEnds DEF TypeOK, Check, files, users
    <2> QED BY <2>1, <2>2
  <1>2. CASE Consent(p)
    BY <1>2, BoundsAssumption DEF TypeOK, Consent, Upset, Goes, Stages, Named, Serving, files, nicks, users
  <1>3. CASE Listen(p)
    <2>1. CASE Serving = {}
      BY <1>3, <2>1 DEF TypeOK, Listen, Goes, Stages, Named, Serving, files, users
    <2>2. CASE Serving # {}
      BY <1>3, <2>2, TypeEnds DEF TypeOK, Listen, files, users
    <2> QED BY <2>1, <2>2
  <1>4. CASE Kill(p)
    BY <1>4, TypeEnds, BoundsAssumption DEF TypeOK, Kill, Upset, files, users
  <1>5. CASE Fail(p)
    BY <1>5, TypeEnds, BoundsAssumption DEF TypeOK, Fail, Upset, files, users
  <1> QED BY <1>1, <1>2, <1>3, <1>4, <1>5

LEMMA TypeNick ==
  ASSUME TypeOK, NEW r \in Posts, HandleNick(r) \/ \E p \in Procs : PostNick(r, p)
  PROVE  TypeOK'
  <1> USE NamesAssumption DEF TypeOK, Serving, Stages, Named
  <1>1. CASE CheckNick(r)
    <2>1. CASE PostGoes(r, "saving") /\ UNCHANGED crossed
      BY <1>1, <2>1 DEF CheckNick, PostGoes, files, start, users
    <2>2. CASE Finish(r) /\ crossed' = TRUE
      BY <1>1, <2>2 DEF CheckNick, Finish, Idle, files, start, users
    <2> QED BY <1>1, <2>1, <2>2 DEF CheckNick
  <1>2. CASE OpenNick(r)
    BY <1>2 DEF OpenNick, Writes, PostGoes, start, users
  <1>3. CASE FillNick(r)
    BY <1>3 DEF FillNick, Writes, PostGoes, start, users
  <1>4. CASE SaveFails(r)
    BY <1>4, BoundsAssumption DEF SaveFails, Finish, Idle, Upset, files, start, users
  <1>5. CASE TellMesh(r)
    BY <1>5 DEF TellMesh, PostGoes, files, start, users
  <1>6. CASE TellHub(r)
    BY <1>6 DEF TellHub, Finish, Idle, files, start, users
  <1>7. ASSUME NEW p \in Procs, PostNick(r, p) PROVE TypeOK'
    BY <1>7 DEF PostNick, files, start, users
  <1> QED BY <1>1, <1>2, <1>3, <1>4, <1>5, <1>6, <1>7 DEF HandleNick

LEMMA TypeClient ==
  ASSUME TypeOK, NEW c \in Clients, Dudka(c) \/ \E p \in Procs : StartEngine(c, p)
  PROVE  TypeOK'
  <1> USE DEF TypeOK, Serving, Stages, Named, ClientGoes
  <1>1. CASE FindEngine(c)
    BY <1>1 DEF FindEngine, files, start, nicks
  <1>2. CASE GiveUp(c)
    BY <1>2, BoundsAssumption DEF GiveUp, Upset, files, start, nicks
  <1>3. CASE Ask(c)
    BY <1>3 DEF Ask, files, start, nicks
  <1>4. CASE Allow(c)
    <2>1. /\ consentFile' \in BOOLEAN /\ meshOn' \subseteq Procs /\ upsets' \in 0..MaxUpsets
          /\ client' \in [Clients -> {"new", "waiting", "asking", "allowing", "in", "left"}]
      <3>1. CASE UNCHANGED <<consentFile, meshOn, upsets>> /\ ClientGoes(c, "left")
        BY <3>1
      <3>2. ASSUME NEW p \in Serving, Enabled(p), ClientGoes(c, "in"),
                   UNCHANGED <<consentFile, meshOn, upsets>>
            PROVE  <2>1!:
        BY <3>2
      <3>3. ASSUME NEW p \in Serving, ClientGoes(c, "in"), consentFile' = TRUE,
                   meshOn' = meshOn \cup {p}, UNCHANGED upsets
            PROVE  <2>1!:
        BY <3>3
      <3>4. ASSUME NEW p \in Serving, ClientGoes(c, "left"), Upset("disk"),
                   consentFile' \in {consentFile, TRUE}, UNCHANGED meshOn
            PROVE  <2>1!:
        <4>1. consentFile' \in BOOLEAN
          BY <3>4, Zenon
        <4> QED BY <3>4, <4>1, BoundsAssumption DEF Upset
      <3> QED BY <1>4, <3>1, <3>2, <3>3, <3>4 DEF Allow
    <2> QED BY <1>4, <2>1 DEF Allow, start, nicks
  <1>5. ASSUME NEW p \in Procs, StartEngine(c, p) PROVE TypeOK'
    BY <1>5 DEF StartEngine, Goes, files, nicks
  <1> QED BY <1>1, <1>2, <1>3, <1>4, <1>5 DEF Dudka

LEMMA TypeLaunch ==
  ASSUME TypeOK, NEW p \in Procs, NEW f \in Flags, NEW agent \in BOOLEAN, Launch(p, f, agent)
  PROVE  TypeOK'
  BY NamesAssumption DEF TypeOK, Launch, Goes, Stages, Named, Serving, files, nicks, users

LEMMA TypeStep == TypeOK /\ [Next]_vars => TypeOK'
  <1> SUFFICES ASSUME TypeOK, [Next]_vars PROVE TypeOK' OBVIOUS
  <1>1. CASE UNCHANGED vars
    BY <1>1 DEF TypeOK, vars, files, start, nicks, users, Serving
  <1>2. CASE Next
    BY <1>2, TypeStart, TypeName, TypeRest, TypeNick, TypeClient, TypeLaunch DEF Next, Main
  <1> QED BY <1>1, <1>2

\* The variables of the start-up model keep their types, and only a process that serves
\* handles requests.
THEOREM TypeCorrect == Spec => []TypeOK
  BY TypeInit, TypeStep, PTL DEF Spec

-----------------------------------------------------------------------------
(***************************************************************************)
(* Consent: whoever is about to post it was asked.                         *)
(***************************************************************************)
ConsentInv == ConsentFirst /\ \A c \in Clients : client[c] = "allowing" => agreed

LEMMA ConsentStep == TypeOK /\ ConsentInv /\ [Next]_vars => ConsentInv'
  <1> SUFFICES ASSUME TypeOK, ConsentInv, [Next]_vars PROVE ConsentInv' OBVIOUS
  <1> DEFINE Quiet == /\ UNCHANGED <<consentFile, client, agreed>>
                      /\ meshOn' \subseteq meshOn \/ consentFile
  <1>1. Quiet => ConsentInv'
    BY DEF ConsentInv, ConsentFirst
  <1>2. CASE UNCHANGED vars
    BY <1>1, <1>2 DEF vars, files, users
  <1>3. ASSUME NEW p \in Procs, Main(p) \/ Kill(p) \/ Fail(p) PROVE ConsentInv'
    <2>1. CASE LoadId(p) \/ OpenId(p) \/ FillId(p)
      BY <1>1, <2>1 DEF LoadId, OpenId, FillId, files, users
    <2>2. CASE LoadName(p) \/ OpenName(p) \/ FillName(p)
      BY <1>1, <2>2 DEF LoadName, OpenName, FillName, files, users
    <2>3. CASE Check(p) \/ Consent(p) \/ Listen(p) \/ Kill(p) \/ Fail(p)
      BY <1>1, <2>3 DEF Check, Consent, Listen, Kill, Fail, Ends, Forgets, files, users
    <2> QED BY <1>3, <2>1, <2>2, <2>3 DEF Main
  <1>4. ASSUME NEW p \in Procs, NEW f \in Flags, NEW agent \in BOOLEAN, Launch(p, f, agent)
        PROVE  ConsentInv'
    BY <1>1, <1>4 DEF Launch, files, users
  <1>5. ASSUME NEW r \in Posts, HandleNick(r) \/ \E p \in Procs : PostNick(r, p)
        PROVE  ConsentInv'
    BY <1>1, <1>5 DEF HandleNick, CheckNick, OpenNick, FillNick, SaveFails, TellMesh, TellHub,
       PostNick, files, users
  <1>6. ASSUME NEW c \in Clients, Dudka(c) \/ \E p \in Procs : StartEngine(c, p)
        PROVE  ConsentInv'
    <2> USE DEF ConsentInv, ConsentFirst, ClientGoes
    <2> client \in [Clients -> {"new", "waiting", "asking", "allowing", "in", "left"}]
      BY DEF TypeOK
    <2>1. CASE FindEngine(c) \/ GiveUp(c) \/ \E p \in Procs : StartEngine(c, p)
      BY <2>1 DEF FindEngine, GiveUp, StartEngine, files
    <2>2. CASE Ask(c)
      BY <2>2 DEF Ask, files
    <2>3. CASE Allow(c)
      <3>1. agreed /\ UNCHANGED agreed
        BY <2>3 DEF Allow
      <3> QED BY <3>1
    <2> QED BY <1>6, <2>1, <2>2, <2>3 DEF Dudka
  <1> QED BY <1>2, <1>3, <1>4, <1>5, <1>6 DEF Next

\* No engine of the data directory has a mesh, and the directory has no consent, before a
\* user agreed, however engines are killed, fail and are started again.
THEOREM ConsentCorrect == Spec => []ConsentFirst
  <1>1. Init => ConsentInv
    BY DEF Init, ConsentInv, ConsentFirst
  <1>2. ConsentInv => ConsentFirst
    BY DEF ConsentInv
  <1> QED BY <1>1, <1>2, ConsentStep, TypeCorrect, PTL DEF Spec

-----------------------------------------------------------------------------
(***************************************************************************)
(* Identity: with one creator at a time the id on disk is the id of every  *)
(* process that has one.                                                   *)
(***************************************************************************)
Creator(p) == at[p] \in {"newid", "idopen"}
Known(p) == at[p] \notin {"off", "id", "newid", "idopen"}

IdentityInv == ~ raced =>
  /\ \A p, q \in Procs : Creator(p) /\ Creator(q) => p = q
  /\ \A p \in Procs : Creator(p) => idFile \notin Ids
  /\ \A p \in Procs : Known(p) => id[p] = idFile
  /\ \A i \in served : idFile = i

LEMMA IdentityStep == TypeOK /\ IdentityInv /\ [Next]_vars => IdentityInv'
  <1> SUFFICES ASSUME TypeOK, IdentityInv, [Next]_vars, ~ raced' PROVE IdentityInv'
    BY DEF IdentityInv
  <1>30. /\ at \in [Procs -> Stages] /\ id \in [Procs -> Ids \cup {0}] /\ served \subseteq Ids
        /\ \A p \in Procs : at[p] \notin {"off", "id"} => id[p] \in Ids
    BY DEF TypeOK
  <1>31. None \notin Ids /\ Empty \notin Ids
    BY NamesAssumption, BoundsAssumption DEF Ids
  <1> DEFINE Quiet == /\ UNCHANGED <<idFile, served, raced>>
                      /\ \A q \in Procs : (at'[q] = at[q] /\ id'[q] = id[q]) \/ at'[q] \in {"off", "id"}
                                          \/ (Known(q) /\ id'[q] = id[q] /\ Known(q)')
  <1>1. Quiet => IdentityInv'
    BY DEF IdentityInv, Creator, Known
  <1>2. CASE UNCHANGED vars
    BY <1>1, <1>2 DEF vars, files, start
  <1>32. ASSUME NEW p \in Procs, Ends(p), UNCHANGED <<idFile, served, raced>> PROVE IdentityInv'
    <2>1. \A q \in Procs : (at'[q] = at[q] /\ id'[q] = id[q]) \/ at'[q] = "off"
      BY <1>30, <1>32 DEF Ends, Forgets, Goes
    <2> QED BY <1>1, <1>32, <2>1
  <1>3. ASSUME NEW p \in Procs, LoadId(p) PROVE IdentityInv'
    <2>1. CASE idFile \in Ids /\ id' = [id EXCEPT ![p] = idFile] /\ Goes(p, "name")
               /\ UNCHANGED raced
      <3>1. \A q \in Procs : q # p => at'[q] = at[q] /\ id'[q] = id[q]
        BY <1>30, <2>1 DEF Goes
      <3>2. at'[p] = "name" /\ id'[p] = idFile
        BY <1>30, <2>1 DEF Goes
      <3>3. UNCHANGED <<idFile, served>>
        BY <1>3 DEF LoadId, files
      <3> QED BY <2>1, <3>1, <3>2, <3>3 DEF IdentityInv, Creator, Known
    <2>2. CASE idFile \notin Ids /\ Creates(p)
      <3>1. \A q \in Procs : q # p => at'[q] = at[q] /\ id'[q] = id[q]
        BY <1>30, <2>2 DEF Creates, Goes
      <3>2. at'[p] = "newid"
        BY <1>30, <2>2 DEF Creates, Goes
      <3>3. UNCHANGED <<idFile, served>>
        BY <1>3 DEF LoadId, files
      <3>4. ~ raced /\ \A q \in Procs : ~ Creator(q)
        BY <2>2 DEF Creates, Creator
      <3>5. Ids' = Ids
        BY DEF Ids
      <3> QED BY <2>2, <3>1, <3>2, <3>3, <3>4, <3>5 DEF IdentityInv, Creator, Known
    <2> QED BY <1>3, <2>1, <2>2 DEF LoadId
  <1>4. ASSUME NEW p \in Procs, OpenId(p) PROVE IdentityInv'
    <2>1. \A q \in Procs : q # p => at'[q] = at[q] /\ id'[q] = id[q]
      BY <1>30, <1>4 DEF OpenId, Goes
    <2>2. at[p] = "newid" /\ at'[p] = "idopen" /\ idFile' = Empty /\ UNCHANGED <<served, raced>>
      BY <1>30, <1>4 DEF OpenId, Goes
    <2>3. idFile \notin Ids
      BY <2>2 DEF IdentityInv, Creator
    <2>4. \A q \in Procs : ~ Known(q)
      BY <1>30, <2>2, <2>3 DEF IdentityInv, Known
    <2>5. served = {}
      BY <1>30, <2>2, <2>3 DEF IdentityInv
    <2> QED BY <1>31, <2>1, <2>2, <2>3, <2>4, <2>5 DEF IdentityInv, Creator, Known
  <1>5. ASSUME NEW p \in Procs, FillId(p) PROVE IdentityInv'
    <2>1. \A q \in Procs : q # p => at'[q] = at[q] /\ id'[q] = id[q]
      BY <1>30, <1>5 DEF FillId, Goes
    <2>2. /\ at[p] = "idopen" /\ at'[p] = "name" /\ idFile' = id[p] /\ id'[p] = id[p]
          /\ UNCHANGED <<served, raced>>
      BY <1>30, <1>5 DEF FillId, Goes
    <2>3. idFile \notin Ids /\ \A q \in Procs : Creator(q) => q = p
      BY <2>2 DEF IdentityInv, Creator
    <2>4. \A q \in Procs : ~ Known(q)
      BY <1>30, <2>2, <2>3 DEF IdentityInv, Known
    <2>5. served = {}
      BY <1>30, <2>2, <2>3 DEF IdentityInv
    <2> QED BY <2>1, <2>2, <2>3, <2>4, <2>5 DEF IdentityInv, Creator, Known
  <1>6. ASSUME NEW p \in Procs, LoadName(p) \/ OpenName(p) \/ FillName(p) \/ Consent(p)
        PROVE  IdentityInv'
    <2>1. \E s \in {"check", "newname", "nameopen", "listen"} :
             Known(p) /\ at' = [at EXCEPT ![p] = s]
      BY <1>6 DEF LoadName, OpenName, FillName, Consent, Goes, Known
    <2>2. UNCHANGED <<idFile, id, served, raced>>
      BY <1>6 DEF LoadName, OpenName, FillName, Consent, files
    <2>3. \A q \in Procs : at'[q] = at[q] \/ (Known(q) /\ Known(q)')
      BY <1>30, <2>1 DEF Known
    <2> QED BY <1>1, <2>2, <2>3
  <1>7. ASSUME NEW p \in Procs, Check(p) \/ Kill(p) \/ Fail(p) PROVE IdentityInv'
    <2>1. UNCHANGED <<idFile, served, raced>>
      BY <1>7 DEF Check, Kill, Fail, files
    <2>2. CASE Ends(p)
      BY <1>32, <2>1, <2>2
    <2>3. CASE Check(p) /\ Goes(p, "consent") /\ UNCHANGED id
      <3>1. \A q \in Procs : at'[q] = at[q] \/ (Known(q) /\ Known(q)')
        BY <1>30, <2>3 DEF Check, Goes, Known
      <3> QED BY <1>1, <2>1, <2>3, <3>1
    <2> QED BY <1>7, <2>2, <2>3 DEF Check, Kill, Fail
  <1>8. ASSUME NEW p \in Procs, Listen(p) PROVE IdentityInv'
    <2>1. UNCHANGED <<idFile, raced>>
      BY <1>8 DEF Listen, files
    <2>2. CASE Ends(p) /\ UNCHANGED served
      BY <1>32, <2>1, <2>2
    <2>3. CASE Goes(p, "serving") /\ UNCHANGED id /\ served' = served \cup {id[p]}
      <3>1. Known(p) /\ \A q \in Procs : at'[q] = at[q] \/ (Known(q) /\ Known(q)')
        BY <1>8, <1>30, <2>3 DEF Listen, Goes, Known
      <3> QED BY <2>1, <2>3, <3>1 DEF IdentityInv, Creator, Known
    <2> QED BY <1>8, <2>2, <2>3 DEF Listen
  <1>9. ASSUME NEW p \in Procs, NEW f \in Flags, NEW agent \in BOOLEAN, Launch(p, f, agent)
        PROVE  IdentityInv'
    <2>1. \A q \in Procs : at'[q] = at[q] \/ at'[q] = "id"
      BY <1>9, <1>30 DEF Launch, Goes
    <2>2. UNCHANGED <<idFile, id, served, raced>>
      BY <1>9 DEF Launch, files
    <2> QED BY <1>1, <2>1, <2>2
  <1>10. ASSUME NEW r \in Posts, HandleNick(r) \/ \E p \in Procs : PostNick(r, p)
         PROVE  IdentityInv'
    BY <1>1, <1>10 DEF HandleNick, CheckNick, OpenNick, FillNick, SaveFails, TellMesh, TellHub,
       PostNick, files, start
  <1>11. ASSUME NEW c \in Clients, Dudka(c) PROVE IdentityInv'
    BY <1>1, <1>11 DEF Dudka, FindEngine, GiveUp, Ask, Allow, files, start
  <1>12. ASSUME NEW c \in Clients, NEW p \in Procs, StartEngine(c, p) PROVE IdentityInv'
    <2>1. \A q \in Procs : at'[q] = at[q] \/ at'[q] = "id"
      BY <1>12, <1>30 DEF StartEngine, Goes
    <2>2. UNCHANGED <<idFile, id, served, raced>>
      BY <1>12 DEF StartEngine, files
    <2> QED BY <1>1, <2>1, <2>2
  <1> QED BY <1>2, <1>3, <1>4, <1>5, <1>6, <1>7, <1>8, <1>9, <1>10, <1>11, <1>12 DEF Next, Main

\* Unless two processes created an id at once, every engine that ever was ready on the data
\* directory was ready under the id that is on disk.
THEOREM IdentityCorrect == Spec => []IdentityKept
  <1>1. Init => IdentityInv
    BY DEF Init, IdentityInv, Creator, Known
  <1>2. IdentityInv => IdentityKept
    BY DEF IdentityInv, IdentityKept
  <1> QED BY <1>1, <1>2, IdentityStep, TypeCorrect, PTL DEF Spec

-----------------------------------------------------------------------------
(***************************************************************************)
(* Nicks: a request that was validated keeps being valid, for the process  *)
(* it was sent to has the same -agent flag until it ends.                  *)
(***************************************************************************)
Valid == {"saving", "filling", "saved", "told"}

NickInv ==
  /\ NickRules
  /\ \A r \in Posts : post[r].at \in Valid => Allowed(Nick[r], asAgent[post[r].to])

LEMMA NickStep == TypeOK /\ NickInv /\ [Next]_vars => NickInv'
  <1> SUFFICES ASSUME TypeOK, NickInv, [Next]_vars PROVE NickInv' OBVIOUS
  <1>1. /\ at \in [Procs -> Stages] /\ asAgent \in [Procs -> BOOLEAN]
        /\ mesh \in [Procs -> Names \cup {None}] /\ hub \in [Procs -> Names \cup {None}]
        /\ post \in [Posts -> [at : {"none", "checking", "saving", "filling", "saved", "told"},
                               to : Procs \cup {None}]]
        /\ \A r \in Posts : post[r].at # "none" => post[r].to \in Serving
    BY DEF TypeOK
  <1> DEFINE Same(p) == asAgent'[p] = asAgent[p] /\ mesh'[p] = mesh[p] /\ hub'[p] = hub[p]
             Proc(p) == (Same(p) /\ (at'[p] = at[p] \/ at'[p] \notin Made \/ at[p] \in Made))
                        \/ (at[p] \notin {"serving"} /\ at'[p] \notin Made)
             Req(r) == post'[r] = post[r] \/ post'[r].at \notin Valid
  <1>2. ASSUME \A p \in Procs : Proc(p), UNCHANGED post PROVE NickInv'
    <2>1. \A p \in Serving : asAgent'[p] = asAgent[p]
      BY <1>2 DEF Serving
    <2> QED BY <1>1, <1>2, <2>1 DEF NickInv, NickRules, Valid, Made, Allowed
  <1>3. ASSUME NEW p \in Procs, Ends(p) PROVE NickInv'
    <2>1. \A q \in Procs : q # p => at'[q] = at[q] /\ asAgent'[q] = asAgent[q]
                                     /\ mesh'[q] = mesh[q] /\ hub'[q] = hub[q]
      BY <1>1, <1>3 DEF Ends, Forgets, Goes
    <2>2. at'[p] = "off"
      BY <1>1, <1>3 DEF Ends, Goes
    <2>3. \A r \in Posts : post'[r].at = "none" \/ (post'[r] = post[r] /\ post[r].to # p)
      BY <1>1, <1>3 DEF Ends, Forgets, Idle
    <2>4. \A r \in Posts : post[r].at \in Valid => post[r].to \in Procs
      BY <1>1 DEF Valid, Serving
    <2> QED BY <2>1, <2>2, <2>3, <2>4 DEF NickInv, NickRules, Valid, Made, Allowed
  <1>4. CASE UNCHANGED vars
    BY <1>2, <1>4 DEF vars, start, nicks
  <1>5. ASSUME NEW p \in Procs, LoadId(p) \/ OpenId(p) \/ FillId(p) PROVE NickInv'
    <2>1. UNCHANGED <<asAgent, mesh, hub, post>>
      BY <1>5 DEF LoadId, OpenId, FillId, nicks
    <2>2. \E s \in {"name", "newid", "idopen"} : at' = [at EXCEPT ![p] = s]
      BY <1>5 DEF LoadId, OpenId, FillId, Creates, Goes
    <2>3. \A q \in Procs : at'[q] = at[q] \/ at'[q] \notin Made
      BY <1>1, <2>2 DEF Made
    <2> QED BY <1>2, <2>1, <2>3
  <1>6. ASSUME NEW p \in Procs, LoadName(p) \/ OpenName(p) \/ FillName(p) PROVE NickInv'
    <2>1. UNCHANGED <<asAgent, mesh, hub, post>>
      BY <1>6 DEF LoadName, OpenName, FillName
    <2>2. \E s \in {"newname", "nameopen", "check"} : at' = [at EXCEPT ![p] = s]
      BY <1>6 DEF LoadName, OpenName, FillName, Goes
    <2>3. \A q \in Procs : at'[q] = at[q] \/ at'[q] \notin Made
      BY <1>1, <2>2 DEF Made
    <2> QED BY <1>2, <2>1, <2>3
  <1>7. ASSUME NEW p \in Procs, Kill(p) \/ Fail(p) PROVE NickInv'
    BY <1>3, <1>7 DEF Kill, Fail
  <1>8. ASSUME NEW p \in Procs, Consent(p) PROVE NickInv'
    <2>1. \A q \in Procs : at'[q] = at[q] \/ at[q] \in Made
      BY <1>1, <1>8 DEF Consent, Goes, Made
    <2> QED BY <1>2, <1>8, <2>1 DEF Consent, nicks
  <1>9. ASSUME NEW p \in Procs, Listen(p) PROVE NickInv'
    <2>1. CASE Serving = {}
      <3>1. \A q \in Procs : at'[q] = at[q] \/ at[q] \in Made
        BY <1>1, <1>9, <2>1 DEF Listen, Goes, Made
      <3> QED BY <1>2, <1>9, <2>1, <3>1 DEF Listen
    <2>2. CASE Serving # {}
      BY <1>3, <1>9, <2>2 DEF Listen
    <2> QED BY <2>1, <2>2
  <1>10. ASSUME NEW p \in Procs, Check(p) PROVE NickInv'
    <2>1. CASE Allowed(name[p], asAgent[p])
      <3>1. /\ \A q \in Procs : q # p => at'[q] = at[q] /\ mesh'[q] = mesh[q] /\ hub'[q] = hub[q]
            /\ mesh'[p] = name[p] /\ hub'[p] = name[p]
        BY <1>1, <1>10, <2>1 DEF Check, Goes
      <3>2. UNCHANGED <<asAgent, post>>
        BY <1>10, <2>1 DEF Check
      <3> QED BY <2>1, <3>1, <3>2 DEF NickInv, NickRules, Allowed
    <2>2. CASE ~ Allowed(name[p], asAgent[p])
      BY <1>3, <1>10, <2>2 DEF Check
    <2> QED BY <2>1, <2>2
  <1>11. ASSUME NEW p \in Procs, at[p] = "off", Goes(p, "id"), UNCHANGED <<mesh, hub, post>>,
                \A q \in Procs : q # p => asAgent'[q] = asAgent[q]
         PROVE  NickInv'
    <2>1. at'[p] = "id" /\ \A q \in Procs : q # p => at'[q] = at[q]
      BY <1>1, <1>11 DEF Goes
    <2>2. \A q \in Procs : Proc(q)
      BY <1>11, <2>1 DEF Made
    <2> QED BY <1>2, <1>11, <2>2
  <1>12. ASSUME NEW p \in Procs, NEW f \in Flags, NEW agent \in BOOLEAN, Launch(p, f, agent)
         PROVE  NickInv'
    BY <1>1, <1>11, <1>12 DEF Launch, nicks
  <1>13. ASSUME NEW c \in Clients, NEW p \in Procs, StartEngine(c, p) PROVE NickInv'
    BY <1>1, <1>11, <1>13 DEF StartEngine, nicks
  <1>14. ASSUME NEW c \in Clients, Dudka(c) PROVE NickInv'
    BY <1>2, <1>14 DEF Dudka, FindEngine, GiveUp, Ask, Allow, start, nicks
  <1>15. ASSUME NEW r \in Posts, UNCHANGED <<at, asAgent, mesh, hub>>,
                \A q \in Posts : q # r => post'[q] = post[q],
                \/ post'[r].at \notin Valid
                \/ post'[r].to = post[r].to /\ Allowed(Nick[r], asAgent[post[r].to])
         PROVE  NickInv'
    BY <1>15 DEF NickInv, NickRules, Allowed
  <1>16. ASSUME NEW r \in Posts, NEW p \in Procs, PostNick(r, p) PROVE NickInv'
    <2>1. post'[r].at = "checking" /\ \A q \in Posts : q # r => post'[q] = post[q]
      BY <1>1, <1>16 DEF PostNick
    <2> QED BY <1>15, <1>16, <2>1 DEF PostNick, Valid, start
  <1>17. ASSUME NEW r \in Posts, CheckNick(r) PROVE NickInv'
    <2>1. \A q \in Posts : q # r => post'[q] = post[q]
      BY <1>1, <1>17 DEF CheckNick, PostGoes, Finish
    <2>2. CASE Allowed(Nick[r], asAgent[post[r].to])
      <3>1. post'[r].to = post[r].to
        BY <1>1, <1>17, <2>2 DEF CheckNick, PostGoes
      <3> QED BY <1>15, <1>17, <2>1, <2>2, <3>1 DEF CheckNick, start
    <2>3. CASE ~ Allowed(Nick[r], asAgent[post[r].to])
      <3>1. post'[r].at = "none"
        BY <1>1, <1>17, <2>3 DEF CheckNick, Finish, Idle
      <3> QED BY <1>15, <1>17, <2>1, <3>1 DEF CheckNick, Valid, start
    <2> QED BY <2>2, <2>3
  <1>18. ASSUME NEW r \in Posts, OpenNick(r) \/ FillNick(r) PROVE NickInv'
    <2>1. post[r].at \in Valid /\ UNCHANGED <<at, asAgent, mesh, hub>>
      BY <1>18 DEF OpenNick, FillNick, Valid, start
    <2>2. post'[r].to = post[r].to /\ \A q \in Posts : q # r => post'[q] = post[q]
      BY <1>1, <1>18 DEF OpenNick, FillNick, PostGoes
    <2> QED BY <1>15, <2>1, <2>2 DEF NickInv
  <1>19. ASSUME NEW r \in Posts, SaveFails(r) PROVE NickInv'
    <2>1. post'[r].at = "none" /\ \A q \in Posts : q # r => post'[q] = post[q]
      BY <1>1, <1>19 DEF SaveFails, Finish, Idle
    <2> QED BY <1>15, <1>19, <2>1 DEF SaveFails, Valid, start
  <1>20. ASSUME NEW r \in Posts, TellMesh(r) PROVE NickInv'
    <2>1. post[r].at = "saved" /\ UNCHANGED <<at, asAgent, hub>>
      BY <1>20 DEF TellMesh, start
    <2>2. /\ \A q \in Procs : mesh'[q] = mesh[q] \/ (q = post[r].to /\ mesh'[q] = Nick[r])
          /\ post'[r].to = post[r].to /\ \A q \in Posts : q # r => post'[q] = post[q]
      BY <1>1, <1>20 DEF TellMesh, PostGoes
    <2>3. Allowed(Nick[r], asAgent[post[r].to])
      BY <2>1 DEF NickInv, Valid
    <2> QED BY <2>1, <2>2, <2>3 DEF NickInv, NickRules, Allowed
  <1>21. ASSUME NEW r \in Posts, TellHub(r) PROVE NickInv'
    <2>1. post[r].at = "told" /\ UNCHANGED <<at, asAgent, mesh>>
      BY <1>21 DEF TellHub, start
    <2>2. /\ \A q \in Procs : hub'[q] = hub[q] \/ (q = post[r].to /\ hub'[q] = Nick[r])
          /\ post'[r].at = "none" /\ \A q \in Posts : q # r => post'[q] = post[q]
      BY <1>1, <1>21 DEF TellHub, Finish, Idle
    <2>3. Allowed(Nick[r], asAgent[post[r].to])
      BY <2>1 DEF NickInv, Valid
    <2> QED BY <2>1, <2>2, <2>3 DEF NickInv, NickRules, Allowed, Valid
  <1> QED BY <1>4, <1>5, <1>6, <1>7, <1>8, <1>9, <1>10, <1>12, <1>13, <1>14, <1>16, <1>17, <1>18,
             <1>19, <1>20, <1>21 DEF Next, Main, HandleNick

\* An engine with -agent speaks under agents' nicks only, one without it never under one,
\* however many requests overlap and whatever the file holds.
THEOREM NickRulesCorrect == Spec => []NickRules
  <1>1. Init => NickInv
    <2> SUFFICES ASSUME Init PROVE NickInv OBVIOUS
    <2>1. \A p \in Procs : at[p] \notin Made
      BY DEF Init, Made
    <2>2. \A r \in Posts : post[r].at \notin Valid
      BY DEF Init, Idle, Valid
    <2> QED BY <2>1, <2>2 DEF NickInv, NickRules
  <1>2. NickInv => NickRules
    BY DEF NickInv
  <1> QED BY <1>1, <1>2, NickStep, TypeCorrect, PTL DEF Spec
-----------------------------------------------------------------------------
(***************************************************************************)
(* One nick: what is said where while a request is under way.  Whoever     *)
(* writes the nick while another process runs sets crossed, so that the    *)
(* file is the process's own from the moment it was read or filled.        *)
(***************************************************************************)
HasNick == {"check", "consent", "listen", "serving"}

\* What a request has changed, by the stage it is at.
Changed(r) ==
  /\ post[r].at # "none" => name[post[r].to] = Nick[r]
  /\ post[r].at \in {"saved", "told"} => nameFile = Nick[r]
  /\ post[r].at = "told" => mesh[post[r].to] = Nick[r]

OneNickInv ==
  /\ \A r \in Posts : post[r].at = "none" => post[r].to = None
  /\ ~ crossed =>
       /\ \A p \in Procs : at[p] \in HasNick /\ Pending(p) = {} => nameFile = name[p]
       /\ \A p \in Procs : at[p] \in Made /\ Pending(p) = {} => hub[p] = name[p] /\ mesh[p] = name[p]
       /\ \A r \in Posts : Changed(r)
       /\ \A r, s \in Posts : post[r].at # "none" /\ post[r].to = post[s].to => r = s

\* A step that changes at most the stage and the nicks of one process p, and no request.
LEMMA OneProcess ==
  ASSUME TypeOK, OneNickInv, NEW p \in Procs, UNCHANGED <<post, mesh, hub>>,
         \A q \in Procs : q # p => at'[q] = at[q] /\ name'[q] = name[q],
         ~ crossed' => ~ crossed,
         Pending(p) = {} \/ name'[p] = name[p],
         ~ crossed' => \/ UNCHANGED nameFile
                       \/ \A q \in Procs : q # p => at[q] = "off",
         ~ crossed' /\ nameFile' # nameFile => Pending(p) = {},
         ~ crossed' /\ at'[p] \in HasNick /\ Pending(p) = {} => nameFile' = name'[p],
         ~ crossed' /\ at'[p] \in Made /\ Pending(p) = {} => hub[p] = name'[p] /\ mesh[p] = name'[p]
  PROVE  OneNickInv'
  <1>1. /\ \A r \in Posts : post[r].at # "none" => post[r].to \in Procs /\ at[post[r].to] = "serving"
        /\ \A q \in Procs : Pending(q)' = Pending(q)
    BY DEF TypeOK, Serving, Pending
  <1> SUFFICES ASSUME ~ crossed'
               PROVE  /\ \A q \in Procs : at'[q] \in HasNick /\ Pending(q) = {} => nameFile' = name'[q]
                      /\ \A q \in Procs : at'[q] \in Made /\ Pending(q) = {}
                                            => hub[q] = name'[q] /\ mesh[q] = name'[q]
                      /\ \A r \in Posts : Changed(r)'
    BY <1>1 DEF OneNickInv
  <1>2. ASSUME NEW q \in Procs, at'[q] \in HasNick, Pending(q) = {} PROVE nameFile' = name'[q]
    <2>1. CASE q # p
      BY <1>2, <2>1 DEF OneNickInv, HasNick
    <2> QED BY <1>2, <2>1
  <1>3. ASSUME NEW q \in Procs, at'[q] \in Made, Pending(q) = {}
        PROVE  hub[q] = name'[q] /\ mesh[q] = name'[q]
    BY <1>3 DEF OneNickInv
  <1>4. ASSUME NEW r \in Posts PROVE Changed(r)'
    <2>1. CASE post[r].at = "none"
      BY <2>1 DEF Changed
    <2>2. CASE post[r].at # "none"
      <3>1. post[r].to \in Procs /\ at[post[r].to] = "serving" /\ r \in Pending(post[r].to)
        BY <1>1, <2>2 DEF Pending
      <3>2. name'[post[r].to] = name[post[r].to] /\ UNCHANGED nameFile
        BY <3>1
      <3> QED BY <3>2 DEF Changed, OneNickInv
    <2> QED BY <2>1, <2>2
  <1> QED BY <1>2, <1>3, <1>4

\* The end of a process takes its requests along.
LEMMA OneEnds ==
  ASSUME TypeOK, OneNickInv, NEW p \in Procs, Ends(p), UNCHANGED <<nameFile, crossed>>
  PROVE  OneNickInv'
  <1>1. /\ at' = [at EXCEPT ![p] = "off"] /\ name' = [name EXCEPT ![p] = None]
        /\ mesh' = [mesh EXCEPT ![p] = None] /\ hub' = [hub EXCEPT ![p] = None]
        /\ post' = [r \in Posts |-> IF post[r].to = p THEN Idle ELSE post[r]]
    BY DEF Ends, Forgets, Goes
  <1>2. \A r \in Posts : \/ post[r].to = p /\ post'[r].at = "none" /\ post'[r].to = None
                         \/ post[r].to # p /\ post'[r] = post[r]
    BY <1>1 DEF Idle
  <1>3. \A q \in Procs : q # p => /\ at'[q] = at[q] /\ name'[q] = name[q] /\ mesh'[q] = mesh[q]
                                  /\ hub'[q] = hub[q] /\ Pending(q)' = Pending(q)
    BY <1>1, <1>2, NamesAssumption DEF TypeOK, Pending
  <1>4. at'[p] = "off"
    BY <1>1 DEF TypeOK
  <1>5. ASSUME NEW r \in Posts, ~ crossed PROVE Changed(r)'
    <2>1. CASE post[r].to # p /\ post[r].at # "none"
      <3>1. post[r].to \in Procs
        BY <2>1 DEF TypeOK, Serving
      <3>2. name'[post[r].to] = name[post[r].to] /\ mesh'[post[r].to] = mesh[post[r].to]
        BY <1>3, <2>1, <3>1
      <3> QED BY <1>2, <1>5, <2>1, <3>2 DEF OneNickInv, Changed
    <2>2. CASE post[r].to = p \/ post[r].at = "none"
      BY <1>2, <2>2 DEF Changed
    <2> QED BY <2>1, <2>2
  <1>6. ASSUME NEW r \in Posts, NEW s \in Posts, ~ crossed, post'[r].at # "none", post'[r].to = post'[s].to
        PROVE  r = s
    <2>1. post[r].to # p /\ post[r].at # "none" /\ post[r].to \in Procs
      BY <1>2, <1>6 DEF TypeOK, Serving
    <2>2. post[s].to = post[r].to
      BY <1>2, <1>6, <2>1, NamesAssumption
    <2> QED BY <1>6, <2>1, <2>2 DEF OneNickInv
  <1>7. \A r \in Posts : post'[r].at = "none" => post'[r].to = None
    BY <1>2 DEF OneNickInv
  <1>8. ASSUME NEW q \in Procs, ~ crossed
        PROVE  /\ at'[q] \in HasNick /\ Pending(q)' = {} => nameFile = name'[q]
               /\ at'[q] \in Made /\ Pending(q)' = {} => hub'[q] = name'[q] /\ mesh'[q] = name'[q]
    BY <1>3, <1>4, <1>8 DEF OneNickInv, HasNick, Made
  <1> QED BY <1>5, <1>6, <1>7, <1>8 DEF OneNickInv

\* Of a request and its process, what a step may do is written down in the order of the stages.
LEMMA OneRequest ==
  ASSUME TypeOK, OneNickInv, NEW r \in Posts, HandleNick(r)
  PROVE  OneNickInv'
  <1>0. PICK p \in Procs : p = post[r].to
    BY DEF HandleNick, CheckNick, OpenNick, FillNick, SaveFails, TellMesh, TellHub, TypeOK, Serving
  <1>1. /\ post[r].at # "none" /\ p = post[r].to /\ at[p] = "serving" /\ UNCHANGED <<at, name>>
    BY <1>0 DEF HandleNick, CheckNick, OpenNick, FillNick, SaveFails, TellMesh, TellHub, TypeOK, Serving, start
  <1>2. \A s \in Posts : s # r => post'[s] = post[s]
    BY <1>1 DEF HandleNick, CheckNick, OpenNick, FillNick, SaveFails, TellMesh, TellHub, TypeOK,
           PostGoes, Finish
  <1>3. \/ post'[r] = Idle
        \/ post'[r].to = p /\ post'[r].at # "none"
    BY <1>1 DEF HandleNick, CheckNick, OpenNick, FillNick, SaveFails, TellMesh, TellHub, TypeOK,
           PostGoes, Finish
  <1>4. \A s \in Posts : post'[s].at = "none" => post'[s].to = None
    BY <1>2, <1>3 DEF OneNickInv, Idle
  <1>5. CASE crossed'
    BY <1>4, <1>5 DEF OneNickInv
  <1> SUFFICES ASSUME ~ crossed' PROVE OneNickInv'
    BY <1>5
  <1>6. /\ ~ crossed
        /\ nameFile' # nameFile => \A q \in Procs : q # p => at[q] = "off"
    <2>1. ~ crossed
      BY DEF HandleNick, CheckNick, OpenNick, FillNick, SaveFails, TellMesh, TellHub, Writes, TypeOK
    <2>2. CASE OpenNick(r) \/ FillNick(r)
      <3>1. Writes(p)
        BY <1>1, <2>2 DEF OpenNick, FillNick
      <3> QED BY <2>1, <3>1 DEF Writes
    <2>3. CASE ~ OpenNick(r) /\ ~ FillNick(r)
      BY <2>1, <2>3 DEF HandleNick, CheckNick, SaveFails, TellMesh, TellHub, files
    <2> QED BY <2>2, <2>3
  <1>7. \A s \in Posts : post[s].to = p => s = r
    BY <1>1, <1>6 DEF OneNickInv
  <1>8. \A s, t \in Posts : post'[s].at # "none" /\ post'[s].to = post'[t].to => s = t
    <2> SUFFICES ASSUME NEW s \in Posts, NEW t \in Posts, s # t,
                        post'[s].at # "none", post'[s].to = post'[t].to
                 PROVE  FALSE
      OBVIOUS
    <2>1. CASE s # r /\ t # r
      BY <1>2, <1>6, <2>1 DEF OneNickInv
    <2>2. CASE s = r
      BY <1>2, <1>3, <1>7, <2>2 DEF Idle
    <2>3. CASE t = r
      <3>1. post'[s] = post[s] /\ post[s].to \in Procs
        BY <1>2, <2>3 DEF TypeOK, Serving
      <3> QED BY <1>3, <1>7, <2>3, <3>1, NamesAssumption DEF Idle
    <2> QED BY <2>1, <2>2, <2>3
  <1>9. \A q \in Procs : q # p => /\ Pending(q)' = Pending(q) /\ mesh'[q] = mesh[q] /\ hub'[q] = hub[q]
    <2>1. \A q \in Procs : q # p => mesh'[q] = mesh[q] /\ hub'[q] = hub[q]
      BY <1>1 DEF HandleNick, CheckNick, OpenNick, FillNick, SaveFails, TellMesh, TellHub, TypeOK
    <2>2. \A q \in Procs : q # p => Pending(q)' = Pending(q)
      BY <1>1, <1>2, <1>3, NamesAssumption DEF Pending, Idle
    <2> QED BY <2>1, <2>2
  <1>10. ASSUME NEW s \in Posts, s # r PROVE Changed(s)'
    <2>1. CASE post[s].at = "none"
      BY <1>2, <1>10, <2>1 DEF Changed
    <2>2. CASE post[s].at # "none"
      <3>1. post[s].to \in Procs /\ post[s].to # p /\ at[post[s].to] = "serving"
        BY <1>7, <1>10, <2>2 DEF TypeOK, Serving
      <3> QED BY <1>1, <1>2, <1>6, <1>9, <1>10, <3>1 DEF OneNickInv, Changed
    <2> QED BY <2>1, <2>2
  <1>11. ASSUME NEW q \in Procs, q # p
         PROVE  /\ at'[q] \in HasNick /\ Pending(q)' = {} => nameFile' = name'[q]
                /\ at'[q] \in Made /\ Pending(q)' = {} => hub'[q] = name'[q] /\ mesh'[q] = name'[q]
    BY <1>1, <1>6, <1>9, <1>11 DEF OneNickInv, HasNick
  <1>12. CASE TellHub(r)
    <2>1. post[r].at = "told" /\ hub'[p] = Nick[r] /\ UNCHANGED <<nameFile, mesh>> /\ post'[r] = Idle
      BY <1>1, <1>12 DEF TellHub, Finish, TypeOK, files
    <2>2. nameFile' = name'[p] /\ hub'[p] = name'[p] /\ mesh'[p] = name'[p]
      BY <1>1, <1>6, <2>1 DEF OneNickInv, Changed
    <2>3. Changed(r)'
      BY <2>1 DEF Changed, Idle
    <2> QED BY <1>4, <1>8, <1>10, <1>11, <2>2, <2>3 DEF OneNickInv
  <1>13. CASE ~ TellHub(r)
    <2>1. post'[r].to = p /\ post'[r].at # "none"
      BY <1>1, <1>13 DEF HandleNick, CheckNick, OpenNick, FillNick, SaveFails, TellMesh, TypeOK,
                   PostGoes, Finish
    <2>2. Pending(p)' # {}
      BY <2>1 DEF Pending
    <2>3. post'[r].at \in {"saved", "told"} => nameFile' = Nick[r]
      BY <1>6, <1>13 DEF HandleNick, CheckNick, OpenNick, FillNick, SaveFails, TellMesh, TypeOK,
                         PostGoes, Finish, OneNickInv, Changed, files
    <2>4. post'[r].at = "told" => mesh'[p] = Nick[r]
      BY <1>1, <1>6, <1>13 DEF HandleNick, CheckNick, OpenNick, FillNick, SaveFails, TellMesh, TypeOK,
                         PostGoes, Finish, OneNickInv, Changed
    <2>5. Changed(r)'
      BY <1>1, <1>6, <2>1, <2>3, <2>4 DEF OneNickInv, Changed
    <2>6. \A s \in Posts : Changed(s)'
      BY <1>10, <2>5
    <2>7. ASSUME NEW q \in Procs
          PROVE  /\ at'[q] \in HasNick /\ Pending(q)' = {} => nameFile' = name'[q]
                 /\ at'[q] \in Made /\ Pending(q)' = {} => hub'[q] = name'[q] /\ mesh'[q] = name'[q]
      BY <1>11, <2>2
    <2> QED BY <1>4, <1>8, <2>6, <2>7 DEF OneNickInv
  <1> QED BY <1>12, <1>13

LEMMA OnePost ==
  ASSUME TypeOK, OneNickInv, NEW r \in Posts, NEW p \in Procs, PostNick(r, p)
  PROVE  OneNickInv'
  <1>1. /\ post[r].at = "none" /\ at[p] = "serving" /\ UNCHANGED <<at, nameFile, mesh, hub>>
        /\ post'[r].at = "checking" /\ post'[r].to = p
        /\ name'[p] = Nick[r] /\ \A q \in Procs : q # p => name'[q] = name[q]
        /\ \A s \in Posts : s # r => post'[s] = post[s]
    BY DEF PostNick, Serving, TypeOK, files, start
  <1>2. \A s \in Posts : post'[s].at = "none" => post'[s].to = None
    BY <1>1 DEF OneNickInv
  <1> SUFFICES ASSUME ~ crossed' PROVE OneNickInv'
    BY <1>2 DEF OneNickInv
  <1>3. ~ crossed /\ \A s \in Posts : post[s].to # p
    BY DEF PostNick, Pending
  <1>4. \A s \in Posts : Changed(s)'
    <2> SUFFICES ASSUME NEW s \in Posts, s # r PROVE Changed(s)'
      BY <1>1 DEF Changed
    <2>1. post[s].at # "none" => post[s].to \in Procs
      BY DEF TypeOK, Serving
    <2> QED BY <1>1, <1>3, <2>1 DEF OneNickInv, Changed
  <1>5. \A s, t \in Posts : post'[s].at # "none" /\ post'[s].to = post'[t].to => s = t
    BY <1>1, <1>3 DEF OneNickInv
  <1>6. \A q \in Procs : q # p => Pending(q)' = Pending(q)
    BY <1>1, NamesAssumption DEF Pending, OneNickInv
  <1>7. Pending(p)' # {}
    BY <1>1 DEF Pending
  <1>8. ASSUME NEW q \in Procs
        PROVE  /\ at'[q] \in HasNick /\ Pending(q)' = {} => nameFile' = name'[q]
               /\ at'[q] \in Made /\ Pending(q)' = {} => hub'[q] = name'[q] /\ mesh'[q] = name'[q]
    BY <1>1, <1>3, <1>6, <1>7 DEF OneNickInv
  <1> QED BY <1>2, <1>4, <1>5, <1>8 DEF OneNickInv

LEMMA OneMain ==
  ASSUME TypeOK, OneNickInv, NEW p \in Procs, Main(p) \/ Kill(p) \/ Fail(p)
  PROVE  OneNickInv'
  <1> DEFINE Stage(s) == at' = [at EXCEPT ![p] = s]
             Free == Pending(p) = {}
  <1>1. at \in [Procs -> Stages] /\ name \in [Procs -> Names \cup {None}]
        /\ hub \in [Procs -> Names \cup {None}] /\ mesh \in [Procs -> Names \cup {None}]
    BY DEF TypeOK
  <1>2. at[p] # "serving" => Free
    BY NamesAssumption DEF Pending, TypeOK, Serving, OneNickInv
  <1>3. CASE Ends(p) /\ UNCHANGED <<nameFile, crossed>>
    BY <1>3, OneEnds
  <1>4. CASE Kill(p) \/ Fail(p)
    BY <1>3, <1>4 DEF Kill, Fail, files
  <1>5. CASE LoadId(p) \/ OpenId(p) \/ FillId(p)
    <2>1. UNCHANGED <<nameFile, name, mesh, hub, post, crossed>>
      BY <1>5 DEF LoadId, OpenId, FillId, files, nicks
    <2>2. \E s \in {"name", "newid", "idopen"} : Stage(s)
      BY <1>5 DEF LoadId, OpenId, FillId, Creates, Goes
    <2>3. /\ \A q \in Procs : q # p => at'[q] = at[q]
          /\ at'[p] \notin HasNick /\ at'[p] \notin Made
      BY <1>1, <2>2 DEF HasNick, Made
    <2> QED BY <2>1, <2>3, OneProcess
  <1>6. CASE LoadName(p)
    <2>1. UNCHANGED <<nameFile, mesh, hub, post, crossed>> /\ Free
      BY <1>2, <1>6 DEF LoadName, files
    <2>2. /\ \A q \in Procs : q # p => at'[q] = at[q] /\ name'[q] = name[q]
          /\ at'[p] \notin Made
          /\ at'[p] \in HasNick => name'[p] = nameFile
      BY <1>1, <1>6 DEF LoadName, Goes, HasNick, Made
    <2> QED BY <2>1, <2>2, OneProcess
  <1>7. CASE OpenName(p) \/ FillName(p)
    <2>1. UNCHANGED <<name, mesh, hub, post>> /\ Free
      BY <1>2, <1>7 DEF OpenName, FillName
    <2>2. /\ ~ crossed' => ~ crossed /\ \A q \in Procs : q # p => at[q] = "off"
          /\ at'[p] \notin Made
          /\ at'[p] \in HasNick => nameFile' = name[p]
          /\ \A q \in Procs : q # p => at'[q] = at[q]
      BY <1>1, <1>7 DEF OpenName, FillName, Writes, Goes, HasNick, Made
    <2> QED BY <2>1, <2>2, OneProcess
  <1>8. CASE Consent(p) \/ (Listen(p) /\ Serving = {})
    <2>1. UNCHANGED <<nameFile, name, mesh, hub, post, crossed>>
      BY <1>8 DEF Consent, Listen, files, nicks
    <2>2. at[p] \in HasNick /\ at[p] \in Made /\ \A q \in Procs : q # p => at'[q] = at[q]
      BY <1>1, <1>8 DEF Consent, Listen, Goes, HasNick, Made
    <2> QED BY <2>1, <2>2, OneProcess DEF OneNickInv
  <1>9. CASE Listen(p) /\ Serving # {}
    BY <1>3, <1>9 DEF Listen, files
  <1>10. CASE Check(p) /\ ~ Allowed(name[p], asAgent[p])
    BY <1>3, <1>10 DEF Check, files
  <1>11. CASE Check(p) /\ Allowed(name[p], asAgent[p])
    <2>1. /\ UNCHANGED <<nameFile, name, post, crossed>> /\ Free /\ at[p] \in HasNick
          /\ mesh'[p] = name[p] /\ hub'[p] = name[p]
          /\ \A q \in Procs : q # p => at'[q] = at[q] /\ mesh'[q] = mesh[q] /\ hub'[q] = hub[q]
      BY <1>1, <1>2, <1>11 DEF Check, Goes, files, HasNick
    <2>2. \A q \in Procs : Pending(q)' = Pending(q)
      BY <2>1 DEF Pending
    <2>3. ASSUME NEW q \in Procs, ~ crossed
          PROVE  /\ at'[q] \in HasNick /\ Pending(q)' = {} => nameFile' = name'[q]
                 /\ at'[q] \in Made /\ Pending(q)' = {} => hub'[q] = name'[q] /\ mesh'[q] = name'[q]
      BY <2>1, <2>2, <2>3 DEF OneNickInv
    <2>4. ASSUME NEW r \in Posts, ~ crossed PROVE Changed(r)'
      <3>1. post[r].at # "none" => post[r].to \in Procs /\ post[r].to # p
        BY <2>1 DEF TypeOK, Serving, Pending
      <3> QED BY <2>1, <2>4, <3>1 DEF OneNickInv, Changed
    <2> QED BY <2>1, <2>3, <2>4 DEF OneNickInv
  <1> QED BY <1>4, <1>5, <1>6, <1>7, <1>8, <1>9, <1>10, <1>11 DEF Main

LEMMA OneStep == TypeOK /\ OneNickInv /\ [Next]_vars => OneNickInv'
  <1> SUFFICES ASSUME TypeOK, OneNickInv, [Next]_vars PROVE OneNickInv' OBVIOUS
  <1>1. UNCHANGED <<nameFile, nicks, at>> => OneNickInv'
    BY DEF nicks, OneNickInv, Changed, Pending
  <1>2. CASE UNCHANGED vars
    BY <1>1, <1>2 DEF vars, files, start
  <1>3. ASSUME NEW p \in Procs, at[p] = "off", Goes(p, "id"), UNCHANGED <<nameFile, nicks>>
        PROVE  OneNickInv'
    <2>1. at'[p] = "id" /\ \A q \in Procs : q # p => at'[q] = at[q]
      BY <1>3 DEF Goes, TypeOK
    <2> QED BY <1>3, <2>1, OneProcess DEF nicks, HasNick, Made
  <1>4. ASSUME NEW p \in Procs, NEW f \in Flags, NEW agent \in BOOLEAN, Launch(p, f, agent)
        PROVE  OneNickInv'
    BY <1>3, <1>4 DEF Launch, files
  <1>5. ASSUME NEW c \in Clients, NEW p \in Procs, StartEngine(c, p) PROVE OneNickInv'
    BY <1>3, <1>5 DEF StartEngine, files
  <1>6. ASSUME NEW c \in Clients, Dudka(c) PROVE OneNickInv'
    BY <1>1, <1>6 DEF Dudka, FindEngine, GiveUp, Ask, Allow, files, start
  <1> QED BY <1>2, <1>4, <1>5, <1>6, OneMain, OneRequest, OnePost DEF Next

\* While requests are neither refused nor fail nor overlap, and no second process writes the
\* nick, an engine between two of them shows, signs, announces and keeps on disk one nick.
THEOREM OneNickCorrect == Spec => []OneNick
  <1>1. Init => OneNickInv
    <2> SUFFICES ASSUME Init PROVE OneNickInv OBVIOUS
    <2>1. /\ \A p \in Procs : at[p] \notin HasNick /\ at[p] \notin Made
          /\ \A r \in Posts : post[r].at = "none" /\ post[r].to = None
      BY DEF Init, Idle, HasNick, Made
    <2> QED BY <2>1 DEF OneNickInv, Changed
  <1>2. OneNickInv => OneNick
    BY DEF OneNickInv, OneNick, Serving, HasNick, Made
  <1> QED BY <1>1, <1>2, OneStep, TypeCorrect, PTL DEF Spec

=============================================================================
