--------------------------------- MODULE Engine --------------------------------
(***************************************************************************)
(* Starting and stopping the engine (src/cmd/dudkad), its identity and its *)
(* nick on disk (src/internal/identity), the requests that change the nick *)
(* and allow the network (src/internal/loopback), and the terminal client  *)
(* that starts an engine when it finds none (src/cmd/dudka).               *)
(*                                                                         *)
(* Several processes share one data directory and one listen address: two  *)
(* clients may start an engine each, and a user may start one by hand.     *)
(* os.WriteFile empties a file and then fills it, and a process that reads *)
(* in between, or a kill, meets the empty file.                            *)
(***************************************************************************)
EXTENDS Naturals, FiniteSets

CONSTANTS
  Procs,        \* dudkad processes
  Clients,      \* runs of dudka, the terminal client
  Posts,        \* those who send POST /nick
  Nick,         \* the nick each of them asks for
  Names,        \* nicks
  AgentNicks,   \* those of the form agent, model and host
  Flags,        \* the -name flags users give, None for none
  Host,         \* the nick made of the host name, or generated
  None,         \* no -name flag; no file
  Empty,        \* a file that was emptied and not filled
  Failing,      \* what may go wrong: "kill", "disk", "slow"
  MaxIds,       \* bound of the model: peer ids generated
  MaxUpsets     \* bound of the model: how often something goes wrong

Ids == 1..MaxIds

ASSUME NamesAssumption ==
  /\ Nick \in [Posts -> Names]
  /\ AgentNicks \subseteq Names /\ Flags \subseteq Names \cup {None} /\ Host \in Names \ AgentNicks
  /\ {None, Empty} \cap (Names \cup Nat) = {} /\ None \notin Procs \cup {Empty}
ASSUME BoundsAssumption ==
  Failing \subseteq {"kill", "disk", "slow"} /\ MaxIds \in Nat /\ MaxUpsets \in Nat

VARIABLES
  idFile, nameFile, consentFile,  \* peer_id, display_name and internet_consent
  at,        \* where each process is in main
  asAgent,   \* its -agent flag
  flag,      \* its -name flag
  id,        \* its peerID
  name,      \* main's displayName, and then the name that GET /me shows
  mesh,      \* the name the mesh announces
  hub,       \* the name the hub signs messages with
  meshOn,    \* the processes whose mesh was started (internetEnabled)
  post,      \* the POST /nick requests
  client,    \* where each client is
  born,      \* how many ids were generated
  served,    \* history: the ids an engine was ready under
  agreed,    \* history: a user allowed the network
  raced,     \* history: two processes were creating an id at once
  crossed,   \* history: POST /nick overlapped, was refused, failed or met another process
  upsets     \* how much of MaxUpsets was used

files == <<idFile, nameFile, consentFile>>
start == <<at, asAgent, flag, id>>
nicks == <<name, mesh, hub, post, crossed>>
users == <<client, agreed>>
vars == <<files, start, nicks, meshOn, users, born, served, raced, upsets>>

Stages == {"off", "id", "newid", "idopen", "name", "newname", "nameopen", "check",
           "consent", "listen", "serving"}
Idle == [at |-> "none", to |-> None]

Upset(kind) == kind \in Failing /\ upsets < MaxUpsets /\ upsets' = upsets + 1
Goes(p, stage) == at' = [at EXCEPT ![p] = stage]
Serving == {p \in Procs : at[p] = "serving"}
Pending(p) == {r \in Posts : post[r].to = p}

\* agent.ValidateAgentNick and LooksLikeAgentNick: agents have such nicks, others do not.
Allowed(n, agent) == n \in AgentNicks <=> agent

Init ==
  /\ idFile = None /\ nameFile = None /\ consentFile = FALSE
  /\ at = [p \in Procs |-> "off"]
  /\ asAgent = [p \in Procs |-> FALSE]
  /\ flag = [p \in Procs |-> None]
  /\ id = [p \in Procs |-> 0]
  /\ name = [p \in Procs |-> None]
  /\ mesh = [p \in Procs |-> None]
  /\ hub = [p \in Procs |-> None]
  /\ meshOn = {}
  /\ post = [r \in Posts |-> Idle]
  /\ client = [c \in Clients |-> "new"]
  /\ born = 0 /\ served = {} /\ agreed = FALSE /\ raced = FALSE /\ crossed = FALSE
  /\ upsets = 0

-----------------------------------------------------------------------------
(***************************************************************************)
(* main, from its flags to Serve.                                          *)
(***************************************************************************)

\* A user starts dudkad, with or without -name (or a nick at the prompt) and -agent.
Launch(p, f, agent) ==
  /\ at[p] = "off" /\ f \in Flags
  /\ Goes(p, "id")
  /\ flag' = [flag EXCEPT ![p] = f] /\ asAgent' = [asAgent EXCEPT ![p] = agent]
  /\ UNCHANGED <<files, id, nicks, meshOn, users, born, served, raced, upsets>>

\* The process ends, by os.Exit or a kill, and with it all that it had in memory.
Forgets(p) ==
  /\ asAgent' = [asAgent EXCEPT ![p] = FALSE] /\ flag' = [flag EXCEPT ![p] = None]
  /\ id' = [id EXCEPT ![p] = 0] /\ name' = [name EXCEPT ![p] = None]
  /\ mesh' = [mesh EXCEPT ![p] = None] /\ hub' = [hub EXCEPT ![p] = None]
  /\ meshOn' = meshOn \ {p}
  /\ post' = [r \in Posts |-> IF post[r].to = p THEN Idle ELSE post[r]]
Ends(p) == Goes(p, "off") /\ Forgets(p)

Kill(p) ==
  /\ at[p] # "off" /\ Upset("kill")
  /\ Ends(p)
  /\ UNCHANGED <<files, crossed, users, born, served, raced>>

\* A new id; another process may be creating one at the same time.
Creates(p) ==
  /\ born' = born + 1 /\ id' = [id EXCEPT ![p] = born + 1] /\ Goes(p, "newid")
  /\ raced' = (raced \/ \E q \in Procs : at[q] \in {"newid", "idopen"})

\* A mutant of LoadId: the file is not looked at.
MutantLoadId(p) ==
  /\ at[p] = "id" /\ born < MaxIds
  /\ Creates(p)
  /\ UNCHANGED <<files, asAgent, flag, nicks, meshOn, users, served, upsets>>

\* LoadOrCreate: a valid id is taken, anything else replaced by a new one.
LoadId(p) ==
  /\ at[p] = "id"
  /\ \/ /\ idFile \in Ids
        /\ id' = [id EXCEPT ![p] = idFile] /\ Goes(p, "name") /\ UNCHANGED <<born, raced>>
     \/ /\ idFile \notin Ids /\ born < MaxIds
        /\ Creates(p)
  /\ UNCHANGED <<files, asAgent, flag, nicks, meshOn, users, served, upsets>>

OpenId(p) ==
  /\ at[p] = "newid"
  /\ idFile' = Empty
  /\ Goes(p, "idopen")
  /\ UNCHANGED <<nameFile, consentFile, asAgent, flag, id, nicks, meshOn, users, born, served,
                 raced, upsets>>

FillId(p) ==
  /\ at[p] = "idopen"
  /\ idFile' = id[p]
  /\ Goes(p, "name")
  /\ UNCHANGED <<nameFile, consentFile, asAgent, flag, id, nicks, meshOn, users, born, served,
                 raced, upsets>>

\* NameResolver.Resolve: the flag, else the host's name or a generated one.  (A nick typed at
\* the prompt, of a process that finds none on disk, counts as the flag it was launched with:
\* both take what the user said, and leave the file out of account.)
Resolve(f) == IF f = None THEN Host ELSE f

\* A mutant of LoadName: an empty file is a nick.
MutantLoadName(p) ==
  /\ at[p] = "name"
  /\ LET known == flag[p] = None /\ nameFile # None
         n == IF known THEN nameFile ELSE Resolve(flag[p])
     IN /\ name' = [name EXCEPT ![p] = n]
        /\ Goes(p, IF known THEN "check" ELSE "newname")
  /\ flag' = [flag EXCEPT ![p] = None]
  /\ UNCHANGED <<files, asAgent, id, mesh, hub, post, crossed, meshOn, users, born, served, raced,
                 upsets>>

\* LoadOrCreateDisplayName: the file counts without a flag; what was not in the file is
\* written to it, before it is validated.
LoadName(p) ==
  /\ at[p] = "name"
  /\ LET known == flag[p] = None /\ nameFile \in Names
         n == IF known THEN nameFile ELSE Resolve(flag[p])
     IN /\ name' = [name EXCEPT ![p] = n]
        /\ Goes(p, IF known THEN "check" ELSE "newname")
  /\ flag' = [flag EXCEPT ![p] = None]
  /\ UNCHANGED <<files, asAgent, id, mesh, hub, post, crossed, meshOn, users, born, served, raced,
                 upsets>>

\* The nick on disk is written while another process runs.
Writes(p) == crossed' = (crossed \/ \E q \in Procs \ {p} : at[q] # "off")

OpenName(p) ==
  /\ at[p] = "newname"
  /\ nameFile' = Empty /\ Writes(p)
  /\ Goes(p, "nameopen")
  /\ UNCHANGED <<idFile, consentFile, asAgent, flag, id, name, mesh, hub, post, meshOn, users,
                 born, served, raced, upsets>>

FillName(p) ==
  /\ at[p] = "nameopen"
  /\ nameFile' = name[p] /\ Writes(p)
  /\ Goes(p, "check")
  /\ UNCHANGED <<idFile, consentFile, asAgent, flag, id, name, mesh, hub, post, meshOn, users,
                 born, served, raced, upsets>>

\* A nick of the other kind ends the process; otherwise the hub and the mesh are made.
Check(p) ==
  /\ at[p] = "check"
  /\ IF Allowed(name[p], asAgent[p])
     THEN /\ Goes(p, "consent")
          /\ hub' = [hub EXCEPT ![p] = name[p]] /\ mesh' = [mesh EXCEPT ![p] = name[p]]
          /\ UNCHANGED <<asAgent, flag, id, name, meshOn, post>>
     ELSE Ends(p)
  /\ UNCHANGED <<files, crossed, users, born, served, raced, upsets>>

\* A read or a write of a file fails: the process ends.
Fail(p) ==
  /\ at[p] \in {"id", "idopen", "name", "nameopen", "check"} /\ Upset("disk")
  /\ Ends(p)
  /\ UNCHANGED <<files, crossed, users, born, served, raced>>

\* A mutant of Consent: enableInternet is called whether or not internet_consent exists.
MutantConsent(p) ==
  /\ at[p] = "consent"
  /\ consentFile' = TRUE /\ meshOn' = meshOn \cup {p} /\ UNCHANGED upsets
  /\ Goes(p, "listen")
  /\ UNCHANGED <<idFile, nameFile, asAgent, flag, id, nicks, users, born, served, raced>>

\* The network is enabled when internet_consent exists, whatever is in it.  Writing it
\* again may fail: the engine then goes on without the network.
Consent(p) ==
  /\ at[p] = "consent"
  /\ \/ consentFile /\ meshOn' = meshOn \cup {p} /\ UNCHANGED upsets
     \/ consentFile /\ Upset("disk") /\ UNCHANGED meshOn
     \/ ~ consentFile /\ UNCHANGED <<meshOn, upsets>>
  /\ Goes(p, "listen")
  /\ UNCHANGED <<files, asAgent, flag, id, nicks, users, born, served, raced>>

\* One process holds the listen address; to the others it is an error, with their mesh
\* already started.
Listen(p) ==
  /\ at[p] = "listen"
  /\ IF Serving = {} THEN /\ Goes(p, "serving") /\ served' = served \cup {id[p]}
                          /\ UNCHANGED <<asAgent, flag, id, name, mesh, hub, meshOn, post>>
     ELSE Ends(p) /\ UNCHANGED served
  /\ UNCHANGED <<files, crossed, users, born, raced, upsets>>

-----------------------------------------------------------------------------
(***************************************************************************)
(* POST /nick.                                                             *)
(***************************************************************************)

PostGoes(r, stage) == post' = [post EXCEPT ![r].at = stage]
Finish(r) == post' = [post EXCEPT ![r] = Idle]

\* handleNick: the name is shown from here on ...
PostNick(r, p) ==
  /\ post[r].at = "none" /\ p \in Serving
  /\ name' = [name EXCEPT ![p] = Nick[r]]
  /\ post' = [post EXCEPT ![r] = [at |-> "checking", to |-> p]]
  /\ crossed' = (crossed \/ Pending(p) # {})
  /\ UNCHANGED <<files, start, mesh, hub, meshOn, users, born, served, raced, upsets>>

\* A mutant of CheckNick: a nick of any form is taken.
MutantCheckNick(r) ==
  /\ post[r].at = "checking"
  /\ PostGoes(r, "saving") /\ UNCHANGED crossed
  /\ UNCHANGED <<files, start, name, mesh, hub, meshOn, users, born, served, raced, upsets>>

\* ... and then validated ...
CheckNick(r) ==
  /\ post[r].at = "checking"
  /\ IF Allowed(Nick[r], asAgent[post[r].to])
     THEN PostGoes(r, "saving") /\ UNCHANGED crossed
     ELSE Finish(r) /\ crossed' = TRUE
  /\ UNCHANGED <<files, start, name, mesh, hub, meshOn, users, born, served, raced, upsets>>

\* ... saved ...
OpenNick(r) ==
  /\ post[r].at = "saving"
  /\ nameFile' = Empty /\ PostGoes(r, "filling")
  /\ Writes(post[r].to)
  /\ UNCHANGED <<idFile, consentFile, start, name, mesh, hub, meshOn, users, born, served, raced,
                 upsets>>

FillNick(r) ==
  /\ post[r].at = "filling"
  /\ nameFile' = Nick[r] /\ PostGoes(r, "saved")
  /\ Writes(post[r].to)
  /\ UNCHANGED <<idFile, consentFile, start, name, mesh, hub, meshOn, users, born, served, raced,
                 upsets>>

SaveFails(r) ==
  /\ post[r].at \in {"saving", "filling"} /\ Upset("disk")
  /\ Finish(r) /\ crossed' = TRUE
  /\ UNCHANGED <<files, start, name, mesh, hub, meshOn, users, born, served, raced>>

\* A mutant of TellMesh: the mesh is not told.
MutantTellMesh(r) ==
  /\ post[r].at = "saved" /\ PostGoes(r, "told")
  /\ UNCHANGED <<files, start, name, mesh, hub, crossed, meshOn, users, born, served, raced,
                 upsets>>

\* ... told to the mesh, and to the hub.
TellMesh(r) ==
  /\ post[r].at = "saved"
  /\ mesh' = [mesh EXCEPT ![post[r].to] = Nick[r]] /\ PostGoes(r, "told")
  /\ UNCHANGED <<files, start, name, hub, crossed, meshOn, users, born, served, raced, upsets>>

TellHub(r) ==
  /\ post[r].at = "told"
  /\ hub' = [hub EXCEPT ![post[r].to] = Nick[r]] /\ Finish(r)
  /\ UNCHANGED <<files, start, name, mesh, crossed, meshOn, users, born, served, raced, upsets>>

-----------------------------------------------------------------------------
(***************************************************************************)
(* dudka: ensureLocalEngine and ensureInternetConsent.                     *)
(***************************************************************************)

ClientGoes(c, stage) == client' = [client EXCEPT ![c] = stage]

\* An engine answers, or the client starts one ...
FindEngine(c) ==
  /\ client[c] \in {"new", "waiting"} /\ Serving # {}
  /\ ClientGoes(c, "asking")
  /\ UNCHANGED <<files, start, nicks, meshOn, agreed, born, served, raced, upsets>>

StartEngine(c, p) ==
  /\ client[c] = "new" /\ Serving = {} /\ at[p] = "off"
  /\ ClientGoes(c, "waiting") /\ Goes(p, "id")
  /\ flag' = [flag EXCEPT ![p] = None] /\ asAgent' = [asAgent EXCEPT ![p] = FALSE]
  /\ UNCHANGED <<files, id, nicks, meshOn, agreed, born, served, raced, upsets>>

\* ... and waits for it, for five seconds.
GiveUp(c) ==
  /\ client[c] = "waiting" /\ Serving = {} /\ Upset("slow")
  /\ ClientGoes(c, "left")
  /\ UNCHANGED <<files, start, nicks, meshOn, agreed, born, served, raced>>

\* GET /internet-consent.
Enabled(p) == p \in meshOn

\* The user is asked when the engine has no network yet.
Ask(c) ==
  /\ client[c] = "asking"
  /\ \/ Serving = {} /\ ClientGoes(c, "left") /\ UNCHANGED agreed
     \/ \E p \in Serving :
          \/ Enabled(p) /\ ClientGoes(c, "in") /\ UNCHANGED agreed
          \/ ~ Enabled(p) /\ ClientGoes(c, "left") /\ UNCHANGED agreed
          \/ ~ Enabled(p) /\ ClientGoes(c, "allowing") /\ agreed' = TRUE
  /\ UNCHANGED <<files, start, nicks, meshOn, born, served, raced, upsets>>

\* POST /internet-consent: enableInternet.  It has nothing to do when the network is on.
\* Otherwise it may fail before the file is opened, or after, when the file stays.
Allow(c) ==
  /\ client[c] = "allowing"
  /\ \/ /\ Serving = {} /\ ClientGoes(c, "left") /\ UNCHANGED <<consentFile, meshOn, upsets>>
     \/ \E p \in Serving :
          \/ /\ Enabled(p) /\ ClientGoes(c, "in")
             /\ UNCHANGED <<consentFile, meshOn, upsets>>
          \/ /\ ~ Enabled(p) /\ ClientGoes(c, "in")
             /\ consentFile' = TRUE /\ meshOn' = meshOn \cup {p} /\ UNCHANGED upsets
          \/ /\ ~ Enabled(p) /\ ClientGoes(c, "left")
             /\ Upset("disk") /\ consentFile' \in {consentFile, TRUE} /\ UNCHANGED meshOn
  /\ UNCHANGED <<idFile, nameFile, start, nicks, agreed, born, served, raced>>

-----------------------------------------------------------------------------
Main(p) ==
  \/ LoadId(p) \/ OpenId(p) \/ FillId(p)
  \/ LoadName(p) \/ OpenName(p) \/ FillName(p)
  \/ Check(p) \/ Consent(p) \/ Listen(p)
HandleNick(r) ==
  CheckNick(r) \/ OpenNick(r) \/ FillNick(r) \/ SaveFails(r) \/ TellMesh(r) \/ TellHub(r)
Dudka(c) == FindEngine(c) \/ GiveUp(c) \/ Ask(c) \/ Allow(c)

Next ==
  \/ \E p \in Procs : Main(p) \/ Kill(p) \/ Fail(p)
  \/ \E p \in Procs, f \in Flags, agent \in BOOLEAN : Launch(p, f, agent)
  \/ \E r \in Posts : HandleNick(r)
  \/ \E r \in Posts, p \in Procs : PostNick(r, p)
  \/ \E c \in Clients : Dudka(c) \/ \E p \in Procs : StartEngine(c, p)

Spec == Init /\ [][Next]_vars

-----------------------------------------------------------------------------
Named == {"newname", "nameopen", "check", "consent", "listen", "serving"}
Made == {"consent", "listen", "serving"}

\* TYPE INVARIANT.  The variables keep their types; a process has an id and a nick from the
\* stages on that give it one, and only a process that serves handles requests.
TypeOK ==
  /\ idFile \in Ids \cup {None, Empty} /\ nameFile \in Names \cup {None, Empty}
  /\ consentFile \in BOOLEAN
  /\ at \in [Procs -> Stages] /\ asAgent \in [Procs -> BOOLEAN]
  /\ flag \in [Procs -> Names \cup {None}]
  /\ id \in [Procs -> Ids \cup {0}]
  /\ name \in [Procs -> Names \cup {None}]
  /\ mesh \in [Procs -> Names \cup {None}] /\ hub \in [Procs -> Names \cup {None}]
  /\ meshOn \subseteq Procs
  /\ post \in [Posts -> [at : {"none", "checking", "saving", "filling", "saved", "told"},
                         to : Procs \cup {None}]]
  /\ client \in [Clients -> {"new", "waiting", "asking", "allowing", "in", "left"}]
  /\ born \in 0..MaxIds /\ served \subseteq Ids
  /\ agreed \in BOOLEAN /\ raced \in BOOLEAN /\ crossed \in BOOLEAN
  /\ upsets \in 0..MaxUpsets
  /\ \A p \in Procs : /\ at[p] \notin {"off", "id"} => id[p] \in Ids
                      /\ at[p] \in Named => name[p] \in Names
  /\ \A r \in Posts : post[r].at # "none" => post[r].to \in Serving

\* SAFETY.  Whatever is killed and restarted, the engine is ready under one peer id, the one
\* on disk (docs/specs/chat.md:45, LoadOrCreate), unless two first starts overlapped: one
\* then writes its id over the other's, which nothing in the code prevents.
IdentityKept == ~ raced => \A i \in served : idFile = i

\* SAFETY.  An engine without -agent never speaks under an agent's nick, nor one with it
\* under another's, whatever an earlier process left on disk and however requests overlap
\* (dudkad/main.go:54-62, handleNick).
NickRules ==
  \A p \in Procs : at[p] \in Made =>
    Allowed(hub[p], asAgent[p]) /\ Allowed(mesh[p], asAgent[p])

\* SAFETY.  Between requests the nick shown, the one messages are signed with, the one the
\* neighbours see and the one on disk are one nick, unless requests overlapped, were
\* refused or failed, or a second process wrote the nick: then the code lets them differ.
OneNick ==
  ~ crossed => \A p \in Serving :
    Pending(p) = {} => name[p] = hub[p] /\ hub[p] = mesh[p] /\ mesh[p] = nameFile

\* SAFETY.  No engine of the data directory opens signaling before a user has agreed, now
\* or before a restart (docs/specs/network.md:177).
ConsentFirst == consentFile \/ meshOn # {} => agreed
=============================================================================
