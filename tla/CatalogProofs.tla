---------------------------- MODULE CatalogProofs ----------------------------
(***************************************************************************)
(* For any number of clients, hosts, credentials, profiles, agents and     *)
(* containers, and from every whole install: the transports HostManager    *)
(* keeps are the ones it would build now, a password change ends the       *)
(* cookies before it, nothing runs into a dropped transport unless its     *)
(* host changed, and the install stays whole, its secrets and volumes      *)
(* included, as long as no two calls that write overlap.                   *)
(*                                                                         *)
(* IInv says what a call has in hand and what it may have in the queue     *)
(* (CatalogTypeOK), that the cache is current and that who runs on a       *)
(* transport runs on a cached one (CacheOK, Holding), and, until two       *)
(* writers overlap, that what was checked still holds when the write has   *)
(* its turn (Undisturbed).  Every operation of a client either waits for   *)
(* something else than the queue or queues one write (Ordinary); only a    *)
(* write's turn (Turn) changes the config, and it may queue the next one.  *)
(***************************************************************************)
EXTENDS Catalog, FiniteSetTheorems, SequenceTheorems, TLAPS

Writing(k) == k # NoCall /\ k.op \notin Reads

\* What a call that is under way has in hand.
CallTypeOK(k) ==
  /\ k \in [op : {k.op}, at : {k.at}, host : {k.host}, what : {k.what}, rest : {k.rest},
            of : {k.of}, cut : BOOLEAN]
  /\ k.at \in {"queue", "endpoints", "work", "hash", "verify", "engine", "volumes"}
  /\ k.at \in {"queue", "endpoints", "work", "hash", "volumes"} => k.op \notin Reads
  /\ k.at = "engine" => k.op \in {"view", "test", "info"}
  /\ k.at = "verify" => k.op = "login"
  /\ k.at = "endpoints" => k.op = "import"
  /\ k.at = "volumes" => k.op = "removeProfile"
  /\ k.at = "work" => k.op = "container" /\ k.what \in [def : Containers]
  /\ k.at = "hash" => k.op = "password" /\ k.what \in [hash : Passwords]
  /\ k.op = "import" => k.what \in [cred : Creds] /\ k.rest \in Seq(Endpoints)
  /\ k.op # "import" => k.rest \in {<<>>, <<<<"setDefault", k.host>>>>}
  /\ k.op \notin {"import", "create", "update"} => k.rest = <<>>

\* The writes a call of each kind may have in the queue.
Asks(k, op, arg) ==
  \/ /\ k.op \in {"create", "update", "agents", "import"} /\ op = "putHost"
     /\ arg \in HostRecords({arg.id})
     /\ k.op \in {"create", "update"} => arg.id = k.host
  \/ k.op \in {"create", "update", "default"} /\ op = "setDefault" /\ k.rest = <<>> /\ arg = k.host
  \/ k.op = "remove" /\ op = "deleteHost" /\ arg = k.host
  \/ k.op = "credential" /\ op = "putCredential" /\ arg \in CredentialRecords({arg.id})
  \/ k.op = "credential" /\ op = "deleteCredential"
  \/ k.op = "profile" /\ op = "putProfile" /\ arg \in ProfileRecords
  \/ k.op = "removeProfile" /\ op = "dropProfile" /\ arg \in ProfileIds
  \/ k.op = "agent" /\ op \in {"putAgent", "dropAgent"} /\ arg \in Agents
  \/ k.op = "container" /\ op = "putContainer" /\ arg \in ContainerRecords
  \/ k.op = "container" /\ op = "deleteContainer"
  \/ k.op = "password" /\ op = "setPassword" /\ arg \in Passwords

CallsTypeOK ==
  /\ call = [c \in Clients |-> call[c]]
  /\ \A c \in Clients : call[c] = NoCall \/ CallTypeOK(call[c])

QueueTypeOK ==
  /\ queue \in Seq(ToSet(queue))
  /\ \A i \in DOMAIN queue :
       /\ queue[i] = <<queue[i][1], queue[i][2], queue[i][3]>>
       /\ queue[i][1] \in Clients
       /\ call[queue[i][1]] # NoCall /\ call[queue[i][1]].at = "queue"
       /\ Asks(call[queue[i][1]], queue[i][2], queue[i][3])
  /\ \A i, j \in DOMAIN queue : queue[i][1] = queue[j][1] => i = j

CatalogTypeOK == IsConfig(cfg) /\ CallsTypeOK /\ QueueTypeOK

\* The transport of a host is the one that would be built now.
CacheOK ==
  /\ cache = [h \in HostIds |-> cache[h]]
  /\ \A h \in HostIds : cache[h] # None =>
       /\ h \in TakenIds(cfg)
       /\ cache[h] = [print |-> Fingerprint(cfg, HostNamed(cfg, h).conn),
                      of |-> ResolvedHost(cfg, h)]

\* Who runs on a transport that was not cut runs on the cached one.
Holding ==
  \A c \in Clients :
    call[c] # NoCall /\ call[c].op \in {"view", "info"} /\ ~call[c].cut
      => call[c].host \in HostIds /\ cache[call[c].host] # None

CookiesOK ==
  /\ \A v \in cookies : v \in Nat /\ v <= cfg.password.version
  /\ \A v \in ended : v \in Nat /\ v < cfg.password.version

\* A write that waits would pass its caller's checks now.
Right(c, k, op, arg) ==
  /\ op = "putHost" =>
       /\ arg.conn.type = "socket" =>
            \A h \in HostsOf(c) : h.conn.type = "socket" => h.id = arg.id
       /\ arg.conn.type = "portainer" => arg.conn.cred \in IdsOf(c.creds)
  /\ op = "setDefault" => arg \in TakenIds(c)
  /\ op = "deleteCredential" => UsersOfCred(c, arg) = {}
  /\ op = "putContainer" =>
       /\ arg.profile = None \/ arg.profile \in IdsOf(c.profiles)
       /\ arg.agents = None \/ arg.agents \subseteq c.agents
  /\ op = "putProfile" =>
       \A p \in c.profiles : p.id = arg.id => (p.keys \ arg.keys) \subseteq k.what.cleared
  /\ op = "dropProfile" /\ k.what.volume # None =>
       \A p \in c.profiles : p.id # arg => LoginSet(p) # k.what.volume

\* And so would what a call has in hand between its steps.
RightCall(c, k) ==
  /\ k.op = "import" => k.what.cred \in IdsOf(c.creds)
  /\ k.at = "work" =>
       /\ k.what.def.profile = None \/ k.what.def.profile \in IdsOf(c.profiles)
       /\ k.what.def.agents = None \/ k.what.def.agents \subseteq c.agents
  /\ k.at = "volumes" => \A p \in c.profiles : LoginSet(p) # k.what.volume

Undisturbed ==
  /\ \A c, d \in Clients : Writing(call[c]) /\ Writing(call[d]) => c = d
  /\ Whole(cfg)
  /\ \A i \in DOMAIN queue : Right(cfg, call[queue[i][1]], queue[i][2], queue[i][3])
  /\ \A c \in Clients : call[c] # NoCall => RightCall(cfg, call[c])

IInv == CatalogTypeOK /\ CacheOK /\ Holding /\ CookiesOK /\ (raced \/ Undisturbed)

-----------------------------------------------------------------------------
(* Sequences of whatever they hold. *)

\* A sequence is one over what it holds.
LEMMA HoldsItsOwn ==
  ASSUME NEW T, NEW s \in Seq(T) PROVE s \in Seq(ToSet(s))
<1>1. PICK n \in Nat : s \in [1..n -> T]
  BY SeqDef
<1>2. s \in [1..n -> ToSet(s)]
  BY <1>1 DEF ToSet
<1> QED BY <1>2, SeqDef

\* A write that is queued is behind those that were there.
LEMMA AppendHolds ==
  ASSUME NEW s, s \in Seq(ToSet(s)), NEW x
  PROVE  /\ Append(s, x) \in Seq(ToSet(Append(s, x)))
         /\ DOMAIN Append(s, x) = DOMAIN s \cup {Len(s) + 1}
         /\ \A i \in DOMAIN s : Append(s, x)[i] = s[i]
         /\ Append(s, x)[Len(s) + 1] = x
         /\ Len(s) \in Nat /\ DOMAIN s = 1..Len(s)
         /\ ToSet(Append(s, x)) = ToSet(s) \cup {x}
<1> DEFINE T == ToSet(s) \cup {x}
<1>1. s \in Seq(T)
  <2>1. PICK n \in Nat : s \in [1..n -> ToSet(s)]
    BY SeqDef
  <2>2. s \in [1..n -> T]
    BY <2>1
  <2> QED BY <2>2, SeqDef
<1> HIDE DEF T
<1>2. x \in T
  BY DEF T
<1>3. Append(s, x) \in Seq(T)
  BY <1>1, <1>2
<1>4. /\ DOMAIN Append(s, x) = DOMAIN s \cup {Len(s) + 1}
      /\ \A i \in DOMAIN s : Append(s, x)[i] = s[i]
      /\ Append(s, x)[Len(s) + 1] = x
      /\ Len(s) \in Nat /\ DOMAIN s = 1..Len(s)
  BY <1>1, <1>2
<1>5. ToSet(Append(s, x)) = ToSet(s) \cup {x}
  BY <1>4 DEF ToSet
<1> QED BY <1>3, <1>4, <1>5, HoldsItsOwn

\* A queue without its first write.
LEMMA TailHolds ==
  ASSUME NEW s, s \in Seq(ToSet(s)), s # <<>>
  PROVE  /\ Tail(s) \in Seq(ToSet(Tail(s)))
         /\ Len(s) \in Nat \ {0} /\ DOMAIN s = 1..Len(s)
         /\ DOMAIN Tail(s) = 1..(Len(s) - 1)
         /\ \A i \in DOMAIN Tail(s) : Tail(s)[i] = s[i + 1]
         /\ Head(s) = s[1]
<1> DEFINE T == ToSet(s)
<1>1. s \in Seq(T)
  OBVIOUS
<1> HIDE DEF T
<1>2. Tail(s) \in Seq(T)
  BY <1>1
<1>3. /\ Len(s) \in Nat \ {0} /\ DOMAIN s = 1..Len(s)
      /\ DOMAIN Tail(s) = 1..(Len(s) - 1)
      /\ \A i \in DOMAIN Tail(s) : Tail(s)[i] = s[i + 1]
      /\ Head(s) = s[1]
  BY <1>1
<1> QED BY <1>2, <1>3, HoldsItsOwn

-----------------------------------------------------------------------------
(* What each mutator does to the lists, and that config.json stays one. *)

ConfigOf(hosts, default, creds, profiles, agents, containers, password) ==
  [hosts |-> hosts, default |-> default, creds |-> creds, profiles |-> profiles,
   agents |-> agents, containers |-> containers, password |-> password]

\* A config is its lists.
LEMMA ConfigIs ==
  ASSUME NEW c, IsConfig(c)
  PROVE  c = ConfigOf(c.hosts, c.default, c.creds, c.profiles, c.agents, c.containers, c.password)
<1> DEFINE H == Seq(HostRecords(TakenIds(c)))
           C == SUBSET CredentialRecords(IdsOf(c.creds))
           W == [hash : Passwords \cup {None}, version : Nat]
           K == SUBSET ContainerRecords
           P == SUBSET ProfileRecords
<1>1. c \in [hosts : H, default : {c.default}, creds : C, profiles : P,
            agents : SUBSET Agents, containers : K, password : W]
  BY DEF IsConfig
<1> HIDE DEF H, C, W, K, P
<1> QED BY <1>1 DEF ConfigOf

Fields == {"hosts", "default", "creds", "profiles", "agents", "containers", "password"}

\* What replacing one or some of its lists makes of a config.
LEMMA ExceptOne ==
  ASSUME NEW c, IsConfig(c), NEW u
  PROVE  /\ [c EXCEPT !.default = u]
              = ConfigOf(c.hosts, u, c.creds, c.profiles, c.agents, c.containers, c.password)
         /\ [c EXCEPT !.creds = u]
              = ConfigOf(c.hosts, c.default, u, c.profiles, c.agents, c.containers, c.password)
         /\ [c EXCEPT !.profiles = u]
              = ConfigOf(c.hosts, c.default, c.creds, u, c.agents, c.containers, c.password)
         /\ [c EXCEPT !.containers = u]
              = ConfigOf(c.hosts, c.default, c.creds, c.profiles, c.agents, u, c.password)
         /\ [c EXCEPT !.password = u]
              = ConfigOf(c.hosts, c.default, c.creds, c.profiles, c.agents, c.containers, u)
         /\ [c EXCEPT !.agents = u]
              = ConfigOf(c.hosts, c.default, c.creds, c.profiles, u, c.containers, c.password)
<1>0. PICK a1, a2, a3, a4, a5, a6, a7 : c = ConfigOf(a1, a2, a3, a4, a5, a6, a7)
  BY ConfigIs
<1>a. /\ c.hosts = a1 /\ c.default = a2 /\ c.creds = a3 /\ c.profiles = a4
      /\ c.agents = a5 /\ c.containers = a6 /\ c.password = a7
  BY <1>0 DEF ConfigOf
<1>1. [c EXCEPT !.default = u]
       = ConfigOf(c.hosts, u, c.creds, c.profiles, c.agents, c.containers, c.password)
  <2> DEFINE e == [c EXCEPT !.default = u]
  <2>1. /\ DOMAIN e = Fields /\ e = [f \in Fields |-> e[f]]
        /\ e.hosts = a1 /\ e.default = u /\ e.creds = a3 /\ e.profiles = a4
        /\ e.agents = a5 /\ e.containers = a6 /\ e.password = a7
    BY <1>0 DEF ConfigOf, Fields
  <2> HIDE DEF e
  <2>2. e = ConfigOf(c.hosts, u, c.creds, c.profiles, c.agents, c.containers, c.password)
    BY <1>a, <2>1 DEF ConfigOf, Fields
  <2> QED BY <2>2 DEF e
<1>2. [c EXCEPT !.creds = u]
       = ConfigOf(c.hosts, c.default, u, c.profiles, c.agents, c.containers, c.password)
  <2> DEFINE e == [c EXCEPT !.creds = u]
  <2>1. /\ DOMAIN e = Fields /\ e = [f \in Fields |-> e[f]]
        /\ e.hosts = a1 /\ e.default = a2 /\ e.creds = u /\ e.profiles = a4
        /\ e.agents = a5 /\ e.containers = a6 /\ e.password = a7
    BY <1>0 DEF ConfigOf, Fields
  <2> HIDE DEF e
  <2>2. e = ConfigOf(c.hosts, c.default, u, c.profiles, c.agents, c.containers, c.password)
    BY <1>a, <2>1 DEF ConfigOf, Fields
  <2> QED BY <2>2 DEF e
<1>3. [c EXCEPT !.profiles = u]
       = ConfigOf(c.hosts, c.default, c.creds, u, c.agents, c.containers, c.password)
  <2> DEFINE e == [c EXCEPT !.profiles = u]
  <2>1. /\ DOMAIN e = Fields /\ e = [f \in Fields |-> e[f]]
        /\ e.hosts = a1 /\ e.default = a2 /\ e.creds = a3 /\ e.profiles = u
        /\ e.agents = a5 /\ e.containers = a6 /\ e.password = a7
    BY <1>0 DEF ConfigOf, Fields
  <2> HIDE DEF e
  <2>2. e = ConfigOf(c.hosts, c.default, c.creds, u, c.agents, c.containers, c.password)
    BY <1>a, <2>1 DEF ConfigOf, Fields
  <2> QED BY <2>2 DEF e
<1>4. [c EXCEPT !.containers = u]
       = ConfigOf(c.hosts, c.default, c.creds, c.profiles, c.agents, u, c.password)
  <2> DEFINE e == [c EXCEPT !.containers = u]
  <2>1. /\ DOMAIN e = Fields /\ e = [f \in Fields |-> e[f]]
        /\ e.hosts = a1 /\ e.default = a2 /\ e.creds = a3 /\ e.profiles = a4
        /\ e.agents = a5 /\ e.containers = u /\ e.password = a7
    BY <1>0 DEF ConfigOf, Fields
  <2> HIDE DEF e
  <2>2. e = ConfigOf(c.hosts, c.default, c.creds, c.profiles, c.agents, u, c.password)
    BY <1>a, <2>1 DEF ConfigOf, Fields
  <2> QED BY <2>2 DEF e
<1>5. [c EXCEPT !.password = u]
       = ConfigOf(c.hosts, c.default, c.creds, c.profiles, c.agents, c.containers, u)
  <2> DEFINE e == [c EXCEPT !.password = u]
  <2>1. /\ DOMAIN e = Fields /\ e = [f \in Fields |-> e[f]]
        /\ e.hosts = a1 /\ e.default = a2 /\ e.creds = a3 /\ e.profiles = a4
        /\ e.agents = a5 /\ e.containers = a6 /\ e.password = u
    BY <1>0 DEF ConfigOf, Fields
  <2> HIDE DEF e
  <2>2. e = ConfigOf(c.hosts, c.default, c.creds, c.profiles, c.agents, c.containers, u)
    BY <1>a, <2>1 DEF ConfigOf, Fields
  <2> QED BY <2>2 DEF e
<1>6. [c EXCEPT !.agents = u]
       = ConfigOf(c.hosts, c.default, c.creds, c.profiles, u, c.containers, c.password)
  <2> DEFINE e == [c EXCEPT !.agents = u]
  <2>1. /\ DOMAIN e = Fields /\ e = [f \in Fields |-> e[f]]
        /\ e.hosts = a1 /\ e.default = a2 /\ e.creds = a3 /\ e.profiles = a4
        /\ e.agents = u /\ e.containers = a6 /\ e.password = a7
    BY <1>0 DEF ConfigOf, Fields
  <2> HIDE DEF e
  <2>2. e = ConfigOf(c.hosts, c.default, c.creds, c.profiles, u, c.containers, c.password)
    BY <1>a, <2>1 DEF ConfigOf, Fields
  <2> QED BY <2>2 DEF e
<1> QED BY <1>1, <1>2, <1>3, <1>4, <1>5, <1>6

\* PutHost and DeleteHost replace the hosts and the default.
LEMMA ExceptHosts ==
  ASSUME NEW c, IsConfig(c), NEW u, NEW v
  PROVE  [c EXCEPT !.hosts = u, !.default = v]
              = ConfigOf(u, v, c.creds, c.profiles, c.agents, c.containers, c.password)
<1>0. PICK a1, a2, a3, a4, a5, a6, a7 : c = ConfigOf(a1, a2, a3, a4, a5, a6, a7)
  BY ConfigIs
<1>a. /\ c.hosts = a1 /\ c.default = a2 /\ c.creds = a3 /\ c.profiles = a4
      /\ c.agents = a5 /\ c.containers = a6 /\ c.password = a7
  BY <1>0 DEF ConfigOf
<1>1. [c EXCEPT !.hosts = u, !.default = v]
       = ConfigOf(u, v, c.creds, c.profiles, c.agents, c.containers, c.password)
  <2> DEFINE e == [c EXCEPT !.hosts = u, !.default = v]
  <2>1. /\ DOMAIN e = Fields /\ e = [f \in Fields |-> e[f]]
        /\ e.hosts = u /\ e.default = v /\ e.creds = a3 /\ e.profiles = a4
        /\ e.agents = a5 /\ e.containers = a6 /\ e.password = a7
    BY <1>0 DEF ConfigOf, Fields
  <2> HIDE DEF e
  <2>2. e = ConfigOf(u, v, c.creds, c.profiles, c.agents, c.containers, c.password)
    BY <1>a, <2>1 DEF ConfigOf, Fields
  <2> QED BY <2>2 DEF e
<1> QED BY <1>1

\* DropProfile replaces the profiles and the containers.
LEMMA ExceptProfiles ==
  ASSUME NEW c, IsConfig(c), NEW u, NEW v
  PROVE  [c EXCEPT !.profiles = u, !.containers = v]
              = ConfigOf(c.hosts, c.default, c.creds, u, c.agents, v, c.password)
<1>0. PICK a1, a2, a3, a4, a5, a6, a7 : c = ConfigOf(a1, a2, a3, a4, a5, a6, a7)
  BY ConfigIs
<1>a. /\ c.hosts = a1 /\ c.default = a2 /\ c.creds = a3 /\ c.profiles = a4
      /\ c.agents = a5 /\ c.containers = a6 /\ c.password = a7
  BY <1>0 DEF ConfigOf
<1>1. [c EXCEPT !.profiles = u, !.containers = v]
       = ConfigOf(c.hosts, c.default, c.creds, u, c.agents, v, c.password)
  <2> DEFINE e == [c EXCEPT !.profiles = u, !.containers = v]
  <2>1. /\ DOMAIN e = Fields /\ e = [f \in Fields |-> e[f]]
        /\ e.hosts = a1 /\ e.default = a2 /\ e.creds = a3 /\ e.profiles = u
        /\ e.agents = a5 /\ e.containers = v /\ e.password = a7
    BY <1>0 DEF ConfigOf, Fields
  <2> HIDE DEF e
  <2>2. e = ConfigOf(c.hosts, c.default, c.creds, u, c.agents, v, c.password)
    BY <1>a, <2>1 DEF ConfigOf, Fields
  <2> QED BY <2>2 DEF e
<1> QED BY <1>1

\* DropAgent replaces the agents, the hosts and the containers.
LEMMA ExceptAgents ==
  ASSUME NEW c, IsConfig(c), NEW u, NEW v, NEW w
  PROVE  [c EXCEPT !.agents = u, !.hosts = v, !.containers = w]
              = ConfigOf(v, c.default, c.creds, c.profiles, u, w, c.password)
<1>0. PICK a1, a2, a3, a4, a5, a6, a7 : c = ConfigOf(a1, a2, a3, a4, a5, a6, a7)
  BY ConfigIs
<1>a. /\ c.hosts = a1 /\ c.default = a2 /\ c.creds = a3 /\ c.profiles = a4
      /\ c.agents = a5 /\ c.containers = a6 /\ c.password = a7
  BY <1>0 DEF ConfigOf
<1>1. [c EXCEPT !.agents = u, !.hosts = v, !.containers = w]
       = ConfigOf(v, c.default, c.creds, c.profiles, u, w, c.password)
  <2> DEFINE e == [c EXCEPT !.agents = u, !.hosts = v, !.containers = w]
  <2>1. /\ DOMAIN e = Fields /\ e = [f \in Fields |-> e[f]]
        /\ e.hosts = v /\ e.default = a2 /\ e.creds = a3 /\ e.profiles = a4
        /\ e.agents = u /\ e.containers = w /\ e.password = a7
    BY <1>0 DEF ConfigOf, Fields
  <2> HIDE DEF e
  <2>2. e = ConfigOf(v, c.default, c.creds, c.profiles, u, w, c.password)
    BY <1>a, <2>1 DEF ConfigOf, Fields
  <2> QED BY <2>2 DEF e
<1> QED BY <1>1

\* What the lists of a config hold.
LEMMA ListsAre ==
  ASSUME NEW c, IsConfig(c)
  PROVE  /\ c.hosts \in Seq(HostRecords(TakenIds(c)))
         /\ c.creds \subseteq CredentialRecords(IdsOf(c.creds))
         /\ c.profiles \subseteq ProfileRecords
         /\ c.agents \subseteq Agents /\ c.containers \subseteq ContainerRecords
         /\ c.password \in [hash : Passwords \cup {None}, version : Nat]
         /\ \A i, j \in DOMAIN c.hosts : c.hosts[i].id = c.hosts[j].id => i = j
         /\ \A x, y \in c.creds : x.id = y.id => x = y
         /\ \A x, y \in c.profiles : x.id = y.id => x = y
<1> DEFINE H == Seq(HostRecords(TakenIds(c)))
           C == CredentialRecords(IdsOf(c.creds))
           W == [hash : Passwords \cup {None}, version : Nat]
<1>1. c \in [hosts : H, default : {c.default}, creds : SUBSET C, profiles : SUBSET ProfileRecords,
            agents : SUBSET Agents, containers : SUBSET ContainerRecords, password : W]
  BY DEF IsConfig
<1> HIDE DEF H, C, W
<1>2. /\ c.hosts \in H /\ c.creds \subseteq C /\ c.profiles \subseteq ProfileRecords
      /\ c.agents \subseteq Agents /\ c.containers \subseteq ContainerRecords /\ c.password \in W
  BY <1>1
<1> QED BY <1>2 DEF IsConfig, H, C, W

\* Lists that hold such records, without two of one id, are a config.
LEMMA ConfigAgain ==
  ASSUME NEW c, c = ConfigOf(c.hosts, c.default, c.creds, c.profiles, c.agents, c.containers, c.password),
         c.hosts \in Seq(HostRecords(TakenIds(c))),
         c.creds \subseteq CredentialRecords(IdsOf(c.creds)),
         c.profiles \subseteq ProfileRecords,
         c.agents \subseteq Agents, c.containers \subseteq ContainerRecords,
         c.password \in [hash : Passwords \cup {None}, version : Nat],
         \A i, j \in DOMAIN c.hosts : c.hosts[i].id = c.hosts[j].id => i = j,
         \A x, y \in c.creds : x.id = y.id => x = y,
         \A x, y \in c.profiles : x.id = y.id => x = y
  PROVE  IsConfig(c)
<1> DEFINE H == Seq(HostRecords(TakenIds(c)))
           C == CredentialRecords(IdsOf(c.creds))
           W == [hash : Passwords \cup {None}, version : Nat]
<1>1. c.hosts \in H /\ c.creds \subseteq C /\ c.password \in W
  OBVIOUS
<1> HIDE DEF H, C, W
<1>2. c \in [hosts : H, default : {c.default}, creds : SUBSET C, profiles : SUBSET ProfileRecords,
            agents : SUBSET Agents, containers : SUBSET ContainerRecords, password : W]
  BY <1>1 DEF ConfigOf
<1> QED BY <1>2 DEF IsConfig, H, C, W

\* The hosts of a config, as a set and as a list.
LEMMA HostsAre ==
  ASSUME NEW c, IsConfig(c)
  PROVE  /\ c.hosts \in Seq(HostsOf(c))
         /\ Len(c.hosts) \in Nat /\ DOMAIN c.hosts = 1..Len(c.hosts)
         /\ HostsOf(c) \subseteq HostRecords(TakenIds(c))
         /\ \A g, h \in HostsOf(c) : g.id = h.id => g = h
<1>1. c.hosts \in Seq(HostRecords(TakenIds(c)))
  BY DEF IsConfig
<1>2. c.hosts \in Seq(HostsOf(c))
  BY <1>1, HoldsItsOwn DEF HostsOf
<1>3. Len(c.hosts) \in Nat /\ DOMAIN c.hosts = 1..Len(c.hosts)
  BY <1>1
<1>4. HostsOf(c) \subseteq HostRecords(TakenIds(c))
  BY <1>1, <1>3 DEF HostsOf, ToSet
<1>5. \A g, h \in HostsOf(c) : g.id = h.id => g = h
  BY DEF IsConfig, HostsOf, ToSet
<1> QED BY <1>2, <1>3, <1>4, <1>5

\* A list of hosts is the list of a config when its ids are distinct.
LEMMA HostsAgain ==
  ASSUME NEW c, IsConfig(c), NEW hs, NEW d,
         \E T : hs \in Seq(T),
         \A h \in ToSet(hs) : h \in HostRecords({h.id}),
         \A i, j \in DOMAIN hs : hs[i].id = hs[j].id => i = j
  PROVE  LET n == ConfigOf(hs, d, c.creds, c.profiles, c.agents, c.containers, c.password)
         IN  IsConfig(n) /\ HostsOf(n) = ToSet(hs)
<1> DEFINE n == ConfigOf(hs, d, c.creds, c.profiles, c.agents, c.containers, c.password)
<1>1. /\ n.hosts = hs /\ n.default = d /\ n.creds = c.creds /\ n.profiles = c.profiles
      /\ n.agents = c.agents /\ n.containers = c.containers /\ n.password = c.password
      /\ n = ConfigOf(n.hosts, n.default, n.creds, n.profiles, n.agents, n.containers, n.password)
  BY DEF ConfigOf
<1> HIDE DEF n
<1>2. HostsOf(n) = ToSet(hs)
  BY <1>1 DEF HostsOf
<1>3. hs \in Seq(ToSet(hs))
  BY HoldsItsOwn
<1>4. \A h \in ToSet(hs) : h \in HostRecords(TakenIds(n))
  BY <1>2 DEF HostRecords, TakenIds, IdsOf
<1>5. hs \in Seq(HostRecords(TakenIds(n)))
  <2>1. PICK m \in Nat : hs \in [1..m -> ToSet(hs)]
    BY <1>3, SeqDef
  <2>2. hs \in [1..m -> HostRecords(TakenIds(n))]
    BY <2>1, <1>4
  <2> QED BY <2>2, SeqDef
<1>6. IsConfig(n)
  <2>1. /\ c.creds \subseteq CredentialRecords(IdsOf(c.creds))
        /\ c.profiles \subseteq ProfileRecords
        /\ c.agents \subseteq Agents /\ c.containers \subseteq ContainerRecords
        /\ c.password \in [hash : Passwords \cup {None}, version : Nat]
        /\ \A x, y \in c.creds : x.id = y.id => x = y
        /\ \A x, y \in c.profiles : x.id = y.id => x = y
    BY ListsAre
  <2> QED BY <1>1, <1>5, <2>1, ConfigAgain
<1> QED BY <1>2, <1>6 DEF n

\* PutHost inserts or replaces one host, and keeps or sets the default.
LEMMA PutHostFacts ==
  ASSUME NEW c, IsConfig(c), NEW h, h \in HostRecords({h.id})
  PROVE  LET n == PutHost(c, h) IN
         /\ IsConfig(n)
         /\ HostsOf(n) = {g \in HostsOf(c) : g.id # h.id} \cup {h}
         /\ n.default = IF c.default = None THEN h.id ELSE c.default
         /\ n = ConfigOf(n.hosts, n.default, c.creds, c.profiles, c.agents, c.containers, c.password)
<1> DEFINE n == PutHost(c, h)
           old == c.hosts
           new == [i \in DOMAIN old |-> IF old[i].id = h.id THEN h ELSE old[i]]
           hs == IF h.id \in TakenIds(c) THEN new ELSE Append(old, h)
           d == IF c.default = None THEN h.id ELSE c.default
<1>1. /\ old \in Seq(HostsOf(c)) /\ HostsOf(c) = ToSet(old)
      /\ Len(old) \in Nat /\ DOMAIN old = 1..Len(old)
      /\ \A g \in HostsOf(c) : g \in HostRecords({g.id})
      /\ \A i, j \in DOMAIN old : old[i].id = old[j].id => i = j
  BY HostsAre, ListsAre DEF HostRecords, HostsOf
<1>2. TakenIds(c) = {old[i].id : i \in DOMAIN old}
  BY <1>1 DEF TakenIds, IdsOf, ToSet
<1> HIDE DEF old
<1>3. /\ \E T : hs \in Seq(T)
      /\ ToSet(hs) = {g \in HostsOf(c) : g.id # h.id} \cup {h}
      /\ \A i, j \in DOMAIN hs : hs[i].id = hs[j].id => i = j
  <2>1. CASE h.id \in TakenIds(c)
    <3>1. new \in [1..Len(old) -> HostsOf(c) \cup {h}]
      BY <1>1 DEF ToSet
    <3>2. new \in Seq(HostsOf(c) \cup {h})
      BY <3>1, <1>1, SeqDef
    <3>3. PICK k \in DOMAIN old : old[k].id = h.id
      BY <1>2, <2>1
    <3>4. /\ DOMAIN new = DOMAIN old /\ new[k] = h
          /\ \A i \in DOMAIN old : i # k => new[i] = old[i] /\ old[i].id # h.id
      BY <1>1, <3>3
    <3>5. ToSet(new) = {g \in HostsOf(c) : g.id # h.id} \cup {h}
      BY <1>1, <3>3, <3>4 DEF ToSet
    <3>6. \A i, j \in DOMAIN new : new[i].id = new[j].id => i = j
      BY <1>1, <3>3, <3>4
    <3> QED BY <2>1, <3>2, <3>5, <3>6
  <2>2. CASE h.id \notin TakenIds(c)
    <3>1. /\ Append(old, h) \in Seq(ToSet(Append(old, h)))
          /\ DOMAIN Append(old, h) = DOMAIN old \cup {Len(old) + 1}
          /\ \A i \in DOMAIN old : Append(old, h)[i] = old[i]
          /\ Append(old, h)[Len(old) + 1] = h
          /\ ToSet(Append(old, h)) = ToSet(old) \cup {h}
      BY <1>1, AppendHolds
    <3>2. \A i, j \in DOMAIN hs : hs[i].id = hs[j].id => i = j
      BY <1>1, <1>2, <2>2, <3>1
    <3>3. ToSet(hs) = {g \in HostsOf(c) : g.id # h.id} \cup {h}
      BY <1>1, <2>2, <3>1 DEF TakenIds, IdsOf
    <3> QED BY <2>2, <3>1, <3>2, <3>3
  <2> QED BY <2>1, <2>2
<1>4. \A g \in ToSet(hs) : g \in HostRecords({g.id})
  BY <1>1, <1>3
<1>5. n = ConfigOf(hs, d, c.creds, c.profiles, c.agents, c.containers, c.password)
  <2>1. n = [c EXCEPT !.hosts = hs, !.default = d]
    BY DEF PutHost, old
  <2> HIDE DEF hs, d, n
  <2> QED BY <2>1, ExceptHosts, Zenon
<1> HIDE DEF hs, d, n
<1>6. IsConfig(n) /\ HostsOf(n) = ToSet(hs)
  BY <1>3, <1>4, <1>5, HostsAgain
<1>7. n.hosts = hs /\ n.default = d
  BY <1>5 DEF ConfigOf
<1> QED BY <1>3, <1>5, <1>6, <1>7 DEF n, d

\* The position findIndex() finds is the only one.
LEMMA DeleteHostFacts ==
  ASSUME NEW c, IsConfig(c), NEW id
  PROVE  LET n == DeleteHost(c, id) IN
         /\ IsConfig(n)
         /\ HostsOf(n) = {g \in HostsOf(c) : g.id # id}
         /\ DefaultExists(c) => DefaultExists(n)
         /\ n = ConfigOf(n.hosts, n.default, c.creds, c.profiles, c.agents, c.containers, c.password)
<1> DEFINE n == DeleteHost(c, id)
           old == c.hosts
           Is(h) == h.id = id
           hs == RemoveFirstMatch(old, Is)
           d == IF c.default # id THEN c.default ELSE IF hs = <<>> THEN None ELSE hs[1].id
<1>1. /\ old \in Seq(HostsOf(c)) /\ HostsOf(c) = ToSet(old)
      /\ Len(old) \in Nat /\ DOMAIN old = 1..Len(old)
      /\ \A g \in HostsOf(c) : g \in HostRecords({g.id})
      /\ \A i, j \in DOMAIN old : old[i].id = old[j].id => i = j
  BY HostsAre, ListsAre DEF HostRecords, HostsOf
<1> HIDE DEF old
<1>2. /\ hs \in Seq(HostsOf(c))
      /\ ToSet(hs) = {g \in HostsOf(c) : g.id # id}
      /\ \A i, j \in DOMAIN hs : hs[i].id = hs[j].id => i = j
  <2>1. CASE \A i \in DOMAIN old : old[i].id # id
    <3>1. hs = old
      BY <1>1, <2>1 DEF RemoveFirstMatch
    <3> QED BY <1>1, <2>1, <3>1 DEF ToSet
  <2>2. CASE \E i \in DOMAIN old : old[i].id = id
    <3>1. PICK k \in DOMAIN old : old[k].id = id
      BY <2>2
    <3>2. {i \in 1..Len(old) : old[i].id = id} = {k}
      BY <1>1, <3>1
    <3>3. Min({k}) = k
      BY <1>1, <3>1 DEF Min
    <3>4. hs = SubSeq(old, 1, k - 1) \o SubSeq(old, k + 1, Len(old))
      BY <1>1, <3>1, <3>2, <3>3 DEF RemoveFirstMatch, SelectInSeq, RemoveAt
    <3> HIDE DEF hs
    <3>5. k \in Nat /\ 1 <= k /\ k <= Len(old)
      BY <1>1, <3>1
    <3> DEFINE before == SubSeq(old, 1, k - 1)
               after  == SubSeq(old, k + 1, Len(old))
    <3>6. /\ before \in Seq(HostsOf(c)) /\ after \in Seq(HostsOf(c))
          /\ Len(before) = k - 1 /\ Len(after) = Len(old) - k
          /\ \A i \in 1..(k - 1) : before[i] = old[i]
          /\ \A i \in 1..(Len(old) - k) : after[i] = old[i + k]
      BY <1>1, <3>5, SubSeqProperties
    <3>a. hs = before \o after
      BY <3>4
    <3> HIDE DEF before, after
    <3>7. /\ hs \in Seq(HostsOf(c)) /\ Len(hs) = Len(old) - 1
          /\ DOMAIN hs = 1..(Len(old) - 1)
          /\ \A i \in 1..(Len(old) - 1) : hs[i] = IF i < k THEN old[i] ELSE old[i + 1]
      <4>1. /\ hs \in Seq(HostsOf(c)) /\ Len(hs) = Len(old) - 1 /\ DOMAIN hs = 1..(Len(old) - 1)
            /\ \A i \in 1..(Len(old) - 1) : hs[i] = IF i <= k - 1 THEN before[i] ELSE after[i - (k - 1)]
        <5>1. /\ hs \in Seq(HostsOf(c)) /\ Len(hs) = Len(before) + Len(after)
              /\ \A i \in 1..(Len(before) + Len(after)) :
                   hs[i] = IF i <= Len(before) THEN before[i] ELSE after[i - Len(before)]
          BY <3>a, <3>6, ConcatProperties, Zenon
        <5>2. Len(before) + Len(after) = Len(old) - 1
          BY <1>1, <3>5, <3>6
        <5>3. DOMAIN hs = 1..Len(hs)
          BY <5>1
        <5>4. Len(before) = k - 1
          BY <3>6
        <5> QED BY <5>1, <5>2, <5>3, <5>4
      <4>2. ASSUME NEW i \in 1..(Len(old) - 1) PROVE hs[i] = IF i < k THEN old[i] ELSE old[i + 1]
        <5>1. CASE i < k
          <6>1. i \in 1..(k - 1) /\ i <= k - 1
            BY <1>1, <3>5, <5>1
          <6>2. hs[i] = before[i]
            BY <4>1, <6>1
          <6> QED BY <3>6, <5>1, <6>1, <6>2
        <5>2. CASE i >= k
          <6>1. i - (k - 1) \in 1..(Len(old) - k) /\ i - (k - 1) + k = i + 1 /\ ~(i <= k - 1)
            BY <1>1, <3>5, <5>2
          <6>2. hs[i] = after[i - (k - 1)] /\ after[i - (k - 1)] = old[i - (k - 1) + k]
            BY <3>6, <4>1, <6>1
          <6> QED BY <3>5, <5>2, <6>1, <6>2
        <5> QED BY <3>5, <5>1, <5>2
      <4> QED BY <4>1, <4>2
    <3>8. \A i, j \in DOMAIN hs : hs[i].id = hs[j].id => i = j
      BY <1>1, <3>5, <3>7
    <3>9. ToSet(hs) = {g \in HostsOf(c) : g.id # id}
      <4>1. ASSUME NEW i \in DOMAIN hs PROVE hs[i] \in HostsOf(c) /\ hs[i].id # id
        <5>1. \E j \in DOMAIN old : j # k /\ hs[i] = old[j]
          <6>1. CASE i < k
            BY <1>1, <3>5, <3>7, <6>1
          <6>2. CASE i >= k
            BY <1>1, <3>5, <3>7, <6>2
          <6> QED BY <1>1, <3>5, <3>7, <6>1, <6>2
        <5> QED BY <1>1, <3>1, <5>1 DEF ToSet
      <4>2. ASSUME NEW g \in HostsOf(c), g.id # id PROVE \E i \in DOMAIN hs : hs[i] = g
        <5>1. PICK j \in 1..Len(old) : old[j] = g
          BY <1>1 DEF ToSet
        <5>2. CASE j < k
          BY <1>1, <3>5, <3>7, <5>1, <5>2
        <5>3. CASE j > k
          <6>1. j - 1 \in DOMAIN hs /\ hs[j - 1] = old[j]
            BY <1>1, <3>5, <3>7, <5>3
          <6> QED BY <5>1, <6>1
        <5>4. j # k
          BY <3>1, <4>2, <5>1
        <5> QED BY <3>5, <5>2, <5>3, <5>4
      <4> QED BY <4>1, <4>2 DEF ToSet
    <3> QED BY <3>7, <3>8, <3>9
  <2> QED BY <2>1, <2>2
<1>3. \A g \in ToSet(hs) : g \in HostRecords({g.id})
  BY <1>1, <1>2
<1>4. n = ConfigOf(hs, d, c.creds, c.profiles, c.agents, c.containers, c.password)
  <2>1. n = [c EXCEPT !.hosts = hs, !.default = d]
    BY DEF DeleteHost, old
  <2> HIDE DEF hs, d, n
  <2> QED BY <2>1, ExceptHosts, Zenon
<1> HIDE DEF hs, n
<1>5. IsConfig(n) /\ HostsOf(n) = ToSet(hs)
  BY <1>2, <1>3, <1>4, HostsAgain
<1>6. n.hosts = hs /\ n.default = d
  BY <1>4 DEF ConfigOf
<1>7. DefaultExists(c) => DefaultExists(n)
  <2>1. CASE hs = <<>>
    <3>1. HostsOf(n) = {}
      BY <1>2, <1>5, <2>1 DEF ToSet
    <3>2. \A g \in HostsOf(c) : g.id = id
      BY <1>2, <1>5, <3>1
    <3>3. DefaultExists(c) => c.default = None \/ c.default = id
      BY <3>2 DEF DefaultExists, TakenIds, IdsOf
    <3> QED BY <1>6, <2>1, <3>3 DEF DefaultExists
  <2>2. CASE hs # <<>>
    <3>1. hs[1] \in HostsOf(n)
      BY <1>2, <1>5, <2>2 DEF ToSet
    <3>2. c.hosts # <<>>
      BY <1>1, <1>2, <1>5, <3>1 DEF ToSet, old
    <3>3. CASE c.default = id
      BY <1>6, <2>2, <3>1, <3>3 DEF DefaultExists, TakenIds, IdsOf
    <3>4. CASE c.default # id
      <4>1. n.default = c.default
        BY <1>6, <3>4
      <4>2. DefaultExists(c) => c.default \in TakenIds(n)
        BY <1>2, <1>5, <3>2, <3>4 DEF DefaultExists, TakenIds, IdsOf
      <4> QED BY <1>6, <2>2, <4>1, <4>2 DEF DefaultExists
    <3> QED BY <3>3, <3>4
  <2> QED BY <2>1, <2>2
<1>8. n = ConfigOf(n.hosts, n.default, c.creds, c.profiles, c.agents, c.containers, c.password)
  BY <1>4, <1>6
<1> QED BY <1>2, <1>5, <1>7, <1>8 DEF n

\* The other mutators leave the hosts alone, but for the agents of each.
LEMMA ListsAgain ==
  ASSUME NEW c, IsConfig(c), NEW n,
         n = ConfigOf(c.hosts, n.default, n.creds, n.profiles, n.agents, n.containers, n.password),
         \/ n.creds = c.creds
         \/ /\ n.creds \subseteq CredentialRecords(IdsOf(n.creds))
            /\ \A x, y \in n.creds : x.id = y.id => x = y,
         \/ n.profiles = c.profiles
         \/ /\ n.profiles \subseteq ProfileRecords
            /\ \A x, y \in n.profiles : x.id = y.id => x = y,
         n.agents \subseteq Agents, n.containers \subseteq ContainerRecords,
         n.password \in [hash : Passwords \cup {None}, version : Nat]
  PROVE  IsConfig(n) /\ HostsOf(n) = HostsOf(c)
<1>1. n.hosts = c.hosts
  BY DEF ConfigOf
<1>2. HostsOf(n) = HostsOf(c) /\ TakenIds(n) = TakenIds(c)
  BY <1>1 DEF HostsOf, TakenIds
<1>3. /\ n.hosts \in Seq(HostRecords(TakenIds(n)))
      /\ \A i, j \in DOMAIN n.hosts : n.hosts[i].id = n.hosts[j].id => i = j
  BY <1>1, <1>2, ListsAre
<1>4. n = ConfigOf(n.hosts, n.default, n.creds, n.profiles, n.agents, n.containers, n.password)
  BY <1>1
<1> QED BY <1>2, <1>3, <1>4, ListsAre, ConfigAgain

\* Put leaves one record of each id.
LEMMA PutKeepsIds ==
  ASSUME NEW set, NEW x, \A y, z \in set : y.id = z.id => y = z
  PROVE  /\ \A y, z \in Put(set, x) : y.id = z.id => y = z
         /\ IdsOf(Put(set, x)) = IdsOf(set) \cup {x.id}
  BY DEF Put, IdsOf

\* SetDefaultHostId changes the default only.
LEMMA SetDefaultFacts ==
  ASSUME NEW c, IsConfig(c), NEW id
  PROVE  LET n == SetDefaultHostId(c, id) IN
         /\ IsConfig(n) /\ n.default = id
         /\ n = ConfigOf(c.hosts, n.default, c.creds, c.profiles, c.agents, c.containers, c.password)
<1>1. SetDefaultHostId(c, id)
        = ConfigOf(c.hosts, id, c.creds, c.profiles, c.agents, c.containers, c.password)
  BY ExceptOne, Zenon DEF SetDefaultHostId
<1> DEFINE n == SetDefaultHostId(c, id)
<1> HIDE DEF n
<1>2. n = ConfigOf(c.hosts, id, c.creds, c.profiles, c.agents, c.containers, c.password)
  BY <1>1 DEF n
<1>3. /\ n.default = id /\ n.creds = c.creds /\ n.profiles = c.profiles
      /\ n.agents = c.agents /\ n.containers = c.containers /\ n.password = c.password
  BY <1>2 DEF ConfigOf
<1>4. IsConfig(n)
  BY <1>2, <1>3, ListsAre, ListsAgain
<1> QED BY <1>2, <1>3, <1>4 DEF n

\* PutCredential and DeleteCredential change the credentials only.
LEMMA CredentialFacts ==
  ASSUME NEW c, IsConfig(c), NEW x
  PROVE  /\ x \in CredentialRecords({x.id}) =>
              LET n == PutCredential(c, x) IN
              /\ IsConfig(n) /\ n.creds = Put(c.creds, x)
              /\ n = ConfigOf(c.hosts, c.default, n.creds, c.profiles, c.agents, c.containers, c.password)
         /\ LET n == DeleteCredential(c, x) IN
              /\ IsConfig(n) /\ n.creds = Drop(c.creds, x)
              /\ n = ConfigOf(c.hosts, c.default, n.creds, c.profiles, c.agents, c.containers, c.password)
<1>1. ASSUME x \in CredentialRecords({x.id})
      PROVE  LET n == PutCredential(c, x) IN
              /\ IsConfig(n) /\ n.creds = Put(c.creds, x)
              /\ n = ConfigOf(c.hosts, c.default, n.creds, c.profiles, c.agents, c.containers, c.password)
  <2> DEFINE cr == Put(c.creds, x)
  <2>1. PutCredential(c, x)
          = ConfigOf(c.hosts, c.default, cr, c.profiles, c.agents, c.containers, c.password)
    BY ExceptOne, Zenon DEF PutCredential
  <2>2. \A y, z \in cr : y.id = z.id => y = z
    BY ListsAre, PutKeepsIds
  <2>3. cr \subseteq CredentialRecords(IdsOf(cr))
    <3>1. IdsOf(cr) = IdsOf(c.creds) \cup {x.id}
      BY ListsAre, PutKeepsIds
    <3> QED BY <1>1, <3>1, ListsAre DEF Put, CredentialRecords
  <2> HIDE DEF cr
  <2> DEFINE n == PutCredential(c, x)
  <2> HIDE DEF n
  <2>4. n = ConfigOf(c.hosts, c.default, cr, c.profiles, c.agents, c.containers, c.password)
    BY <2>1 DEF n
  <2>5. /\ n.hosts = c.hosts /\ n.default = c.default /\ n.creds = cr /\ n.profiles = c.profiles
        /\ n.agents = c.agents /\ n.containers = c.containers /\ n.password = c.password
    BY <2>4 DEF ConfigOf
  <2>6. IsConfig(n)
    BY <2>4, <2>5, <2>2, <2>3, ListsAre, ListsAgain
  <2> QED BY <2>4, <2>5, <2>6 DEF n, cr
<1>2. LET n == DeleteCredential(c, x) IN
        /\ IsConfig(n) /\ n.creds = Drop(c.creds, x)
        /\ n = ConfigOf(c.hosts, c.default, n.creds, c.profiles, c.agents, c.containers, c.password)
  <2> DEFINE cr == Drop(c.creds, x)
  <2>1. DeleteCredential(c, x)
          = ConfigOf(c.hosts, c.default, cr, c.profiles, c.agents, c.containers, c.password)
    BY ExceptOne, Zenon DEF DeleteCredential
  <2>2. \A y, z \in cr : y.id = z.id => y = z
    BY ListsAre DEF Drop
  <2>3. cr \subseteq CredentialRecords(IdsOf(cr))
    BY ListsAre DEF Drop, CredentialRecords, IdsOf
  <2> HIDE DEF cr
  <2> DEFINE n == DeleteCredential(c, x)
  <2> HIDE DEF n
  <2>4. n = ConfigOf(c.hosts, c.default, cr, c.profiles, c.agents, c.containers, c.password)
    BY <2>1 DEF n
  <2>5. /\ n.hosts = c.hosts /\ n.default = c.default /\ n.creds = cr /\ n.profiles = c.profiles
        /\ n.agents = c.agents /\ n.containers = c.containers /\ n.password = c.password
    BY <2>4 DEF ConfigOf
  <2>6. IsConfig(n)
    BY <2>4, <2>5, <2>2, <2>3, ListsAre, ListsAgain
  <2> QED BY <2>4, <2>5, <2>6 DEF n, cr
<1> QED BY <1>1, <1>2

\* Container definitions without a profile that goes, or an agent.
Stripped(c, id) == {IF k.profile = id THEN [k EXCEPT !.profile = None] ELSE k : k \in c.containers}
WithoutAgent(c, id) ==
  {IF k.agents = None THEN k ELSE Unlisted(k, id) : k \in c.containers}

\* PutProfile changes the profiles, DropProfile the containers that name one too.
LEMMA ProfileFacts ==
  ASSUME NEW c, IsConfig(c), NEW x
  PROVE  /\ x \in ProfileRecords =>
              LET n == PutProfile(c, x) IN
              /\ IsConfig(n) /\ n.profiles = Put(c.profiles, x)
              /\ n = ConfigOf(c.hosts, c.default, c.creds, n.profiles, c.agents, c.containers, c.password)
         /\ LET n == DropProfile(c, x) IN
              /\ IsConfig(n) /\ n.profiles = Drop(c.profiles, x) /\ n.containers = Stripped(c, x)
              /\ n = ConfigOf(c.hosts, c.default, c.creds, n.profiles, c.agents, n.containers, c.password)
<1>1. ASSUME x \in ProfileRecords
      PROVE  LET n == PutProfile(c, x) IN
              /\ IsConfig(n) /\ n.profiles = Put(c.profiles, x)
              /\ n = ConfigOf(c.hosts, c.default, c.creds, n.profiles, c.agents, c.containers, c.password)
  <2> DEFINE ps == Put(c.profiles, x)
  <2>1. PutProfile(c, x)
          = ConfigOf(c.hosts, c.default, c.creds, ps, c.agents, c.containers, c.password)
    BY ExceptOne, Zenon DEF PutProfile
  <2>2. \A y, z \in ps : y.id = z.id => y = z
    BY ListsAre, PutKeepsIds
  <2>3. ps \subseteq ProfileRecords
    BY <1>1, ListsAre DEF Put
  <2> HIDE DEF ps
  <2> DEFINE n == PutProfile(c, x)
  <2> HIDE DEF n
  <2>4. n = ConfigOf(c.hosts, c.default, c.creds, ps, c.agents, c.containers, c.password)
    BY <2>1 DEF n
  <2>5. /\ n.hosts = c.hosts /\ n.default = c.default /\ n.creds = c.creds /\ n.profiles = ps
        /\ n.agents = c.agents /\ n.containers = c.containers /\ n.password = c.password
    BY <2>4 DEF ConfigOf
  <2>6. IsConfig(n)
    BY <2>4, <2>5, <2>2, <2>3, ListsAre, ListsAgain
  <2> QED BY <2>4, <2>5, <2>6 DEF n, ps
<1>2. LET n == DropProfile(c, x) IN
        /\ IsConfig(n) /\ n.profiles = Drop(c.profiles, x) /\ n.containers = Stripped(c, x)
        /\ n = ConfigOf(c.hosts, c.default, c.creds, n.profiles, c.agents, n.containers, c.password)
  <2> DEFINE ps == Drop(c.profiles, x)
             ks == Stripped(c, x)
  <2>1. DropProfile(c, x)
          = ConfigOf(c.hosts, c.default, c.creds, ps, c.agents, ks, c.password)
    BY ExceptProfiles, Zenon DEF DropProfile, Stripped
  <2>2. \A y, z \in ps : y.id = z.id => y = z
    BY ListsAre DEF Drop
  <2>3. ps \subseteq ProfileRecords
    BY ListsAre DEF Drop
  <2>4. ks \subseteq ContainerRecords
    BY ListsAre DEF Stripped, ContainerRecords
  <2> HIDE DEF ps, ks
  <2> DEFINE n == DropProfile(c, x)
  <2> HIDE DEF n
  <2>5. n = ConfigOf(c.hosts, c.default, c.creds, ps, c.agents, ks, c.password)
    BY <2>1 DEF n
  <2>6. /\ n.hosts = c.hosts /\ n.default = c.default /\ n.creds = c.creds /\ n.profiles = ps
        /\ n.agents = c.agents /\ n.containers = ks /\ n.password = c.password
    BY <2>5 DEF ConfigOf
  <2>7. IsConfig(n)
    BY <2>5, <2>6, <2>2, <2>3, <2>4, ListsAre, ListsAgain
  <2> QED BY <2>5, <2>6, <2>7 DEF n, ps, ks
<1> QED BY <1>1, <1>2

\* PutContainer and DeleteContainer change the containers only.
LEMMA ContainerFacts ==
  ASSUME NEW c, IsConfig(c), NEW x
  PROVE  /\ x \in ContainerRecords =>
              LET n == PutContainer(c, x) IN
              /\ IsConfig(n) /\ n.containers = Put(c.containers, x)
              /\ n = ConfigOf(c.hosts, c.default, c.creds, c.profiles, c.agents, n.containers, c.password)
         /\ LET n == DeleteContainer(c, x) IN
              /\ IsConfig(n) /\ n.containers = Drop(c.containers, x)
              /\ n = ConfigOf(c.hosts, c.default, c.creds, c.profiles, c.agents, n.containers, c.password)
<1>1. ASSUME x \in ContainerRecords
      PROVE  LET n == PutContainer(c, x) IN
              /\ IsConfig(n) /\ n.containers = Put(c.containers, x)
              /\ n = ConfigOf(c.hosts, c.default, c.creds, c.profiles, c.agents, n.containers, c.password)
  <2> DEFINE ks == Put(c.containers, x)
  <2>1. PutContainer(c, x)
          = ConfigOf(c.hosts, c.default, c.creds, c.profiles, c.agents, ks, c.password)
    BY ExceptOne, Zenon DEF PutContainer
  <2>2. ks \subseteq ContainerRecords
    BY <1>1, ListsAre DEF Put
  <2> HIDE DEF ks
  <2> DEFINE n == PutContainer(c, x)
  <2> HIDE DEF n
  <2>3. n = ConfigOf(c.hosts, c.default, c.creds, c.profiles, c.agents, ks, c.password)
    BY <2>1 DEF n
  <2>4. /\ n.hosts = c.hosts /\ n.default = c.default /\ n.creds = c.creds /\ n.profiles = c.profiles
        /\ n.agents = c.agents /\ n.containers = ks /\ n.password = c.password
    BY <2>3 DEF ConfigOf
  <2>5. IsConfig(n)
    BY <2>3, <2>4, <2>2, ListsAre, ListsAgain
  <2> QED BY <2>3, <2>4, <2>5 DEF n, ks
<1>2. LET n == DeleteContainer(c, x) IN
        /\ IsConfig(n) /\ n.containers = Drop(c.containers, x)
        /\ n = ConfigOf(c.hosts, c.default, c.creds, c.profiles, c.agents, n.containers, c.password)
  <2> DEFINE ks == Drop(c.containers, x)
  <2>1. DeleteContainer(c, x)
          = ConfigOf(c.hosts, c.default, c.creds, c.profiles, c.agents, ks, c.password)
    BY ExceptOne, Zenon DEF DeleteContainer
  <2>2. ks \subseteq ContainerRecords
    BY ListsAre DEF Drop
  <2> HIDE DEF ks
  <2> DEFINE n == DeleteContainer(c, x)
  <2> HIDE DEF n
  <2>3. n = ConfigOf(c.hosts, c.default, c.creds, c.profiles, c.agents, ks, c.password)
    BY <2>1 DEF n
  <2>4. /\ n.hosts = c.hosts /\ n.default = c.default /\ n.creds = c.creds /\ n.profiles = c.profiles
        /\ n.agents = c.agents /\ n.containers = ks /\ n.password = c.password
    BY <2>3 DEF ConfigOf
  <2>5. IsConfig(n)
    BY <2>3, <2>4, <2>2, ListsAre, ListsAgain
  <2> QED BY <2>3, <2>4, <2>5 DEF n, ks
<1> QED BY <1>1, <1>2

\* SetPassword counts the version on.
LEMMA PasswordFacts ==
  ASSUME NEW c, IsConfig(c), NEW x, x \in Passwords
  PROVE  LET n == SetPassword(c, x) IN
         /\ IsConfig(n) /\ n.password = [hash |-> x, version |-> c.password.version + 1]
         /\ n = ConfigOf(c.hosts, c.default, c.creds, c.profiles, c.agents, c.containers, n.password)
<1> DEFINE pw == [hash |-> x, version |-> c.password.version + 1]
<1>1. SetPassword(c, x) = ConfigOf(c.hosts, c.default, c.creds, c.profiles, c.agents, c.containers, pw)
  <2>1. SetPassword(c, x) = [c EXCEPT !.password = pw]
    BY DEF SetPassword
  <2> HIDE DEF pw
  <2> QED BY <2>1, ExceptOne, Zenon
<1>2. pw \in [hash : Passwords \cup {None}, version : Nat]
  BY ListsAre
<1> HIDE DEF pw
<1> DEFINE n == SetPassword(c, x)
<1> HIDE DEF n
<1>3. n = ConfigOf(c.hosts, c.default, c.creds, c.profiles, c.agents, c.containers, pw)
  BY <1>1 DEF n
<1>4. /\ n.hosts = c.hosts /\ n.default = c.default /\ n.creds = c.creds /\ n.profiles = c.profiles
      /\ n.agents = c.agents /\ n.containers = c.containers /\ n.password = pw
  BY <1>3 DEF ConfigOf
<1>5. IsConfig(n)
  BY <1>3, <1>4, <1>2, ListsAre, ListsAgain
<1> QED BY <1>3, <1>4, <1>5 DEF n, pw

\* PutAgent changes the agents, DropAgent the hosts and containers that list one too.
LEMMA AgentFacts ==
  ASSUME NEW c, IsConfig(c), NEW x, x \in Agents
  PROVE  /\ LET n == PutAgent(c, x) IN
              /\ IsConfig(n) /\ n.agents = c.agents \cup {x}
              /\ n = ConfigOf(c.hosts, c.default, c.creds, c.profiles, n.agents, c.containers, c.password)
         /\ LET n == DropAgent(c, x) IN
              /\ IsConfig(n) /\ n.agents = c.agents \ {x} /\ n.containers = WithoutAgent(c, x)
              /\ HostsOf(n) = {Unlisted(h, x) : h \in HostsOf(c)}
              /\ n = ConfigOf(n.hosts, c.default, c.creds, c.profiles, n.agents, n.containers, c.password)
<1>1. LET n == PutAgent(c, x) IN
        /\ IsConfig(n) /\ n.agents = c.agents \cup {x}
        /\ n = ConfigOf(c.hosts, c.default, c.creds, c.profiles, n.agents, c.containers, c.password)
  <2> DEFINE as == c.agents \cup {x}
  <2>1. PutAgent(c, x) = ConfigOf(c.hosts, c.default, c.creds, c.profiles, as, c.containers, c.password)
    BY ExceptOne, Zenon DEF PutAgent
  <2>2. as \subseteq Agents
    BY ListsAre
  <2> HIDE DEF as
  <2> DEFINE n == PutAgent(c, x)
  <2> HIDE DEF n
  <2>3. n = ConfigOf(c.hosts, c.default, c.creds, c.profiles, as, c.containers, c.password)
    BY <2>1 DEF n
  <2>4. /\ n.hosts = c.hosts /\ n.default = c.default /\ n.creds = c.creds /\ n.profiles = c.profiles
        /\ n.agents = as /\ n.containers = c.containers /\ n.password = c.password
    BY <2>3 DEF ConfigOf
  <2>5. IsConfig(n)
    BY <2>3, <2>4, <2>2, ListsAre, ListsAgain
  <2> QED BY <2>3, <2>4, <2>5 DEF n, as
<1>2. LET n == DropAgent(c, x) IN
        /\ IsConfig(n) /\ n.agents = c.agents \ {x} /\ n.containers = WithoutAgent(c, x)
        /\ HostsOf(n) = {Unlisted(h, x) : h \in HostsOf(c)}
        /\ n = ConfigOf(n.hosts, c.default, c.creds, c.profiles, n.agents, n.containers, c.password)
  <2> DEFINE as == c.agents \ {x}
             ks == WithoutAgent(c, x)
             hs == [i \in DOMAIN c.hosts |-> Unlisted(c.hosts[i], x)]
  <2>1. DropAgent(c, x) = ConfigOf(hs, c.default, c.creds, c.profiles, as, ks, c.password)
    <3>1. DropAgent(c, x) = [c EXCEPT !.agents = as, !.hosts = hs, !.containers = ks]
      BY DEF DropAgent, WithoutAgent
    <3> HIDE DEF as, hs, ks
    <3> QED BY <3>1, ExceptAgents, Zenon
  <2>2. ks \subseteq ContainerRecords
    BY ListsAre DEF WithoutAgent, Unlisted, ContainerRecords
  <2>3. /\ Len(c.hosts) \in Nat /\ DOMAIN c.hosts = 1..Len(c.hosts)
        /\ \A i \in DOMAIN c.hosts : c.hosts[i] \in HostRecords(TakenIds(c))
        /\ \A i, j \in DOMAIN c.hosts : c.hosts[i].id = c.hosts[j].id => i = j
        /\ HostsOf(c) = {c.hosts[i] : i \in DOMAIN c.hosts}
    BY HostsAre, ListsAre DEF HostsOf, ToSet
  <2>4. \A i \in DOMAIN c.hosts :
          hs[i].id = c.hosts[i].id /\ hs[i] \in HostRecords({hs[i].id}) /\ hs[i] \in HostRecords(TakenIds(c))
    BY <2>3 DEF HostRecords, Unlisted
  <2>5. hs \in [1..Len(c.hosts) -> HostRecords(TakenIds(c))]
    BY <2>3, <2>4
  <2>6. hs \in Seq(HostRecords(TakenIds(c)))
    BY <2>3, <2>5, SeqDef
  <2>7. \A i, j \in DOMAIN hs : hs[i].id = hs[j].id => i = j
    BY <2>3, <2>4
  <2>8. \A h \in ToSet(hs) : h \in HostRecords({h.id})
    BY <2>4 DEF ToSet
  <2>9. ToSet(hs) = {Unlisted(h, x) : h \in HostsOf(c)}
    <3>1. DOMAIN hs = DOMAIN c.hosts /\ \A i \in DOMAIN hs : hs[i] = Unlisted(c.hosts[i], x)
      OBVIOUS
    <3> HIDE DEF hs
    <3>2. ToSet(hs) = {hs[i] : i \in DOMAIN hs}
      BY DEF ToSet
    <3> QED BY <2>3, <3>1, <3>2
  <2> DEFINE m == ConfigOf(hs, c.default, c.creds, c.profiles, c.agents, c.containers, c.password)
             n == ConfigOf(hs, c.default, c.creds, c.profiles, as, ks, c.password)
  <2> HIDE DEF hs, ks
  <2>10. IsConfig(m) /\ HostsOf(m) = ToSet(hs)
    BY <2>6, <2>7, <2>8, HostsAgain
  <2>11. m.hosts = hs
    BY DEF ConfigOf
  <2>12. as \subseteq Agents
    BY ListsAre
  <2> HIDE DEF as, m
  <2>13. IsConfig(n) /\ HostsOf(n) = HostsOf(m) /\ n.hosts = hs /\ n.agents = as /\ n.containers = ks
    <3>1. /\ n.hosts = hs /\ n.default = c.default /\ n.creds = c.creds /\ n.profiles = c.profiles
          /\ n.agents = as /\ n.containers = ks /\ n.password = c.password
          /\ m.creds = c.creds /\ m.profiles = c.profiles
      BY DEF ConfigOf, m
    <3>2. n = ConfigOf(m.hosts, n.default, n.creds, n.profiles, n.agents, n.containers, n.password)
      BY <2>11, <3>1 DEF m
    <3> HIDE DEF n
    <3> QED BY <2>2, <2>10, <2>12, <3>1, <3>2, ListsAre, ListsAgain
  <2> HIDE DEF n
  <2>14. DropAgent(c, x) = n
    BY <2>1 DEF n
  <2> QED BY <2>9, <2>10, <2>13, <2>14 DEF as, ks, n
<1> QED BY <1>1, <1>2

-----------------------------------------------------------------------------
(* What a step other than a write's turn may do to a call. *)

\* The call of c, which has nothing in the queue, becomes k.
Becomes(c, k) ==
  /\ c \in Clients /\ call[c].at # "queue"
  /\ call' = [call EXCEPT ![c] = k]
  /\ k = NoCall \/ CallTypeOK(k)
  /\ call[c] # NoCall /\ k # NoCall => k.cut = call[c].cut
  /\ cfg' = cfg
  /\ raced => raced'
  /\ ~raced' /\ Writing(k) => Writing(call[c]) \/ \A d \in Clients : ~Writing(call[d])

\* It waits for something else than the queue, or is over; a call that runs on a
\* transport runs on the cached one.
Rests(c, k) ==
  /\ Becomes(c, k) /\ k.at # "queue" /\ queue' = queue
  /\ k.op \in {"view", "info"} => k.host \in HostIds /\ cache'[k.host] # None
  /\ ~raced /\ Undisturbed /\ k # NoCall => RightCall(cfg, k)

\* It has put a write in the queue.
Queues(c, k, op, arg) ==
  /\ Becomes(c, k) /\ k.at = "queue" /\ Asks(k, op, arg)
  /\ queue' = Append(queue, <<c, op, arg>>)
  /\ ~raced /\ Undisturbed => Right(cfg, k, op, arg) /\ RightCall(cfg, k)

\* A client without a call is not in the queue and writes nothing.
LEMMA IdleIs == NoCall.at = "idle" /\ NoCall.op = "none" /\ ~Writing(NoCall)
  BY DEF NoCall, Call, Writing

\* The calls stay calls, and no other one changes.
LEMMA BecomesCalls ==
  ASSUME CallsTypeOK, NEW c, NEW k, Becomes(c, k)
  PROVE  /\ CallsTypeOK'
         /\ call'[c] = k /\ \A d \in Clients : d # c => call'[d] = call[d]
<1>1. /\ call' = [d \in Clients |-> call'[d]]
      /\ call'[c] = k /\ \A d \in Clients : d # c => call'[d] = call[d]
  BY DEF CallsTypeOK, Becomes
<1>2. \A d \in Clients : call'[d] = NoCall \/ CallTypeOK(call'[d])
  BY <1>1 DEF CallsTypeOK, Becomes
<1> QED BY <1>1, <1>2 DEF CallsTypeOK

\* Who is in the queue is somebody else.
LEMMA RestsQueue ==
  ASSUME CallsTypeOK, QueueTypeOK, NEW c, NEW k, Becomes(c, k), queue' = queue
  PROVE  QueueTypeOK' /\ \A i \in DOMAIN queue : call'[queue[i][1]] = call[queue[i][1]]
<1>1. \A i \in DOMAIN queue : queue[i][1] \in Clients /\ queue[i][1] # c
  BY DEF QueueTypeOK, Becomes
<1>2. \A i \in DOMAIN queue : call'[queue[i][1]] = call[queue[i][1]]
  BY <1>1, BecomesCalls
<1>3. QueueTypeOK'
  BY <1>2 DEF QueueTypeOK
<1> QED BY <1>2, <1>3

\* A call that queues a write has this one write in the queue.
LEMMA QueuesQueue ==
  ASSUME CallsTypeOK, QueueTypeOK, NEW c, NEW k, NEW op, NEW arg, Queues(c, k, op, arg)
  PROVE  /\ QueueTypeOK'
         /\ \A i \in DOMAIN queue' :
              \/ i \in DOMAIN queue /\ queue'[i] = queue[i] /\ call'[queue[i][1]] = call[queue[i][1]]
              \/ queue'[i] = <<c, op, arg>>
<1> DEFINE e == <<c, op, arg>>
           n == Len(queue) + 1
<1>1. /\ queue \in Seq(ToSet(queue)) /\ queue' = Append(queue, e)
      /\ c \in Clients /\ call[c].at # "queue"
  BY DEF QueueTypeOK, Queues, Becomes
<1> HIDE DEF e
<1>2. /\ queue' \in Seq(ToSet(queue'))
      /\ DOMAIN queue' = DOMAIN queue \cup {n}
      /\ \A i \in DOMAIN queue : queue'[i] = queue[i]
      /\ queue'[n] = e
      /\ n \notin DOMAIN queue
  BY <1>1, AppendHolds
<1>3. \A i \in DOMAIN queue : queue[i][1] \in Clients /\ queue[i][1] # c
  BY <1>1 DEF QueueTypeOK
<1>4. call'[c] = k /\ \A i \in DOMAIN queue : call'[queue[i][1]] = call[queue[i][1]]
  BY <1>3, BecomesCalls DEF Queues
<1>5. /\ e = <<e[1], e[2], e[3]>> /\ e[1] = c
      /\ call'[e[1]] # NoCall /\ call'[e[1]].at = "queue" /\ Asks(call'[e[1]], e[2], e[3])
  BY <1>4, IdleIs DEF e, Queues
<1>6. \A i \in DOMAIN queue' :
        /\ queue'[i] = <<queue'[i][1], queue'[i][2], queue'[i][3]>>
        /\ queue'[i][1] \in Clients
        /\ call'[queue'[i][1]] # NoCall /\ call'[queue'[i][1]].at = "queue"
        /\ Asks(call'[queue'[i][1]], queue'[i][2], queue'[i][3])
  <2>1. ASSUME NEW i \in DOMAIN queue
        PROVE  /\ queue'[i] = <<queue'[i][1], queue'[i][2], queue'[i][3]>>
               /\ queue'[i][1] \in Clients
               /\ call'[queue'[i][1]] # NoCall /\ call'[queue'[i][1]].at = "queue"
               /\ Asks(call'[queue'[i][1]], queue'[i][2], queue'[i][3])
    BY <1>2, <1>4 DEF QueueTypeOK
  <2> QED BY <1>1, <1>2, <1>5, <2>1
<1>7. \A i, j \in DOMAIN queue' : queue'[i][1] = queue'[j][1] => i = j
  BY <1>2, <1>3, <1>5 DEF QueueTypeOK
<1> QED BY <1>2, <1>4, <1>6, <1>7 DEF QueueTypeOK, e

\* A step without a write keeps the types, and nobody is disturbed by it.
LEMMA RestsKeeps ==
  ASSUME CatalogTypeOK, raced \/ Undisturbed, NEW c, NEW k, Rests(c, k)
  PROVE  CatalogTypeOK' /\ (raced' \/ Undisturbed')
<1>1. CallsTypeOK /\ QueueTypeOK /\ Becomes(c, k) /\ queue' = queue /\ cfg' = cfg
  BY DEF CatalogTypeOK, Rests, Becomes
<1>2. CallsTypeOK' /\ QueueTypeOK' /\ IsConfig(cfg')
  BY <1>1, BecomesCalls, RestsQueue DEF CatalogTypeOK
<1>3. ASSUME ~raced' PROVE Undisturbed'
  <2>1. ~raced /\ Undisturbed
    BY <1>1, <1>3 DEF Becomes
  <2>2. call'[c] = k /\ \A d \in Clients : d # c => call'[d] = call[d]
    BY <1>1, BecomesCalls
  <2>3. Writing(k) => Writing(call[c]) \/ \A d \in Clients : ~Writing(call[d])
    BY <1>1, <1>3 DEF Becomes
  <2>4. \A a, d \in Clients : Writing(call'[a]) /\ Writing(call'[d]) => a = d
    BY <1>1, <2>1, <2>2, <2>3 DEF Undisturbed, Becomes
  <2>5. \A i \in DOMAIN queue' : Right(cfg', call'[queue'[i][1]], queue'[i][2], queue'[i][3])
    BY <1>1, <2>1, RestsQueue DEF Undisturbed
  <2>6. \A d \in Clients : call'[d] # NoCall => RightCall(cfg', call'[d])
    BY <1>1, <2>1, <2>2 DEF Undisturbed, Rests
  <2> QED BY <1>1, <2>1, <2>4, <2>5, <2>6 DEF Undisturbed
<1> QED BY <1>2, <1>3 DEF CatalogTypeOK

\* So does a step that queues a write.
LEMMA QueuesKeeps ==
  ASSUME CatalogTypeOK, raced \/ Undisturbed, NEW c, NEW k, NEW op, NEW arg, Queues(c, k, op, arg)
  PROVE  CatalogTypeOK' /\ (raced' \/ Undisturbed')
<1>1. CallsTypeOK /\ QueueTypeOK /\ Becomes(c, k) /\ cfg' = cfg
  BY DEF CatalogTypeOK, Queues, Becomes
<1>2. CallsTypeOK' /\ QueueTypeOK' /\ IsConfig(cfg')
  BY <1>1, BecomesCalls, QueuesQueue DEF CatalogTypeOK
<1>3. ASSUME ~raced' PROVE Undisturbed'
  <2>1. ~raced /\ Undisturbed
    BY <1>1, <1>3 DEF Becomes
  <2>2. call'[c] = k /\ \A d \in Clients : d # c => call'[d] = call[d]
    BY <1>1, BecomesCalls
  <2>3. Writing(k) => Writing(call[c]) \/ \A d \in Clients : ~Writing(call[d])
    BY <1>1, <1>3 DEF Becomes
  <2>4. \A a, d \in Clients : Writing(call'[a]) /\ Writing(call'[d]) => a = d
    BY <1>1, <2>1, <2>2, <2>3 DEF Undisturbed, Becomes
  <2>5. \A i \in DOMAIN queue' : Right(cfg', call'[queue'[i][1]], queue'[i][2], queue'[i][3])
    <3>1. Right(cfg, k, op, arg)
      BY <2>1 DEF Queues
    <3>2. ASSUME NEW i \in DOMAIN queue'
          PROVE  Right(cfg', call'[queue'[i][1]], queue'[i][2], queue'[i][3])
      <4>1. CASE i \in DOMAIN queue /\ queue'[i] = queue[i] /\ call'[queue[i][1]] = call[queue[i][1]]
        BY <1>1, <2>1, <4>1 DEF Undisturbed
      <4>2. CASE queue'[i] = <<c, op, arg>>
        BY <1>1, <2>2, <3>1, <4>2
      <4> QED BY <1>1, <4>1, <4>2, QueuesQueue
    <3> QED BY <3>2
  <2>6. \A d \in Clients : call'[d] # NoCall => RightCall(cfg', call'[d])
    BY <1>1, <2>1, <2>2 DEF Undisturbed, Queues
  <2> QED BY <1>1, <2>1, <2>4, <2>5, <2>6 DEF Undisturbed
<1> QED BY <1>2, <1>3 DEF CatalogTypeOK

-----------------------------------------------------------------------------
(* Each operation of a client is such a step. *)

CallFields == {"op", "at", "host", "what", "rest", "of", "cut"}
Queued(name, host, then) == [Call(name, "queue", host) EXCEPT !.rest = then]

\* A call whose first write is queued.
LEMMA QueuedIs ==
  ASSUME NEW name, NEW host, NEW then
  PROVE  LET k == Queued(name, host, then) IN
         /\ k = [op |-> name, at |-> "queue", host |-> host, what |-> None, rest |-> then,
                 of |-> None, cut |-> FALSE]
         /\ name \notin Reads \cup {"import"} /\ then \in {<<>>, <<<<"setDefault", host>>>>}
              /\ (name \in {"create", "update"} \/ then = <<>>) => CallTypeOK(k)
<1> DEFINE k == Queued(name, host, then)
<1>1. k = [op |-> name, at |-> "queue", host |-> host, what |-> None, rest |-> then,
           of |-> None, cut |-> FALSE]
  <2>1. /\ k = [f \in CallFields |-> k[f]]
        /\ k.op = name /\ k.at = "queue" /\ k.host = host /\ k.what = None /\ k.rest = then
        /\ k.of = None /\ k.cut = FALSE
    BY DEF Queued, Call, CallFields
  <2> HIDE DEF k
  <2> QED BY <2>1 DEF CallFields
<1> HIDE DEF k
<1>2. ASSUME name \notin Reads \cup {"import"}, then \in {<<>>, <<<<"setDefault", host>>>>},
             name \in {"create", "update"} \/ then = <<>>
      PROVE  CallTypeOK(k)
  <2>1. /\ k.op = name /\ k.at = "queue" /\ k.host = host /\ k.rest = then
        /\ k \in [op : {k.op}, at : {k.at}, host : {k.host}, what : {k.what}, rest : {k.rest},
                  of : {k.of}, cut : BOOLEAN]
    BY <1>1
  <2> QED BY <1>2, <2>1 DEF CallTypeOK
<1> QED BY <1>1, <1>2 DEF k

\* A call that keeps something in hand.
LEMMA WithIs ==
  ASSUME NEW op, NEW at, NEW what
  PROVE  CallWith(op, at, what)
           = [op |-> op, at |-> at, host |-> None, what |-> what, rest |-> <<>>,
              of |-> None, cut |-> FALSE]
<1> DEFINE k == CallWith(op, at, what)
<1>1. /\ k = [f \in CallFields |-> k[f]]
      /\ k.op = op /\ k.at = at /\ k.host = None /\ k.what = what /\ k.rest = <<>>
      /\ k.of = None /\ k.cut = FALSE
  BY DEF CallWith, Call, CallFields
<1> HIDE DEF k
<1>2. k = [op |-> op, at |-> at, host |-> None, what |-> what, rest |-> <<>>,
           of |-> None, cut |-> FALSE]
  BY <1>1 DEF CallFields
<1> QED BY <1>2 DEF k

\* A call that starts is the only one that writes, as long as no two have.
LEMMA BeginBecomes ==
  ASSUME NEW c \in Clients, NEW k, k = NoCall \/ CallTypeOK(k), call' = [call EXCEPT ![c] = k],
         cfg' = cfg, BeginWrite(c) \/ (BeginRead(c) /\ ~Writing(k))
  PROVE  Becomes(c, k)
<1>1. call[c].at # "queue"
  BY IdleIs DEF BeginWrite, BeginRead
<1>2. CASE BeginWrite(c)
  BY <1>1, <1>2 DEF BeginWrite, Becomes, Writing
<1>3. CASE BeginRead(c) /\ ~Writing(k)
  BY <1>1, <1>3 DEF BeginRead, Becomes
<1> QED BY <1>2, <1>3

\* Most operations check, and queue one write.
LEMMA QueueQueues ==
  ASSUME NEW c \in Clients, NEW name, NEW host, NEW op, NEW arg, NEW then,
         BeginWrite(c), Queue(c, name, host, op, arg, then),
         name \notin Reads \cup {"import"}, then \in {<<>>, <<<<"setDefault", host>>>>},
         name \in {"create", "update"} \/ then = <<>>,
         Asks(Queued(name, host, then), op, arg),
         ~raced /\ Undisturbed => Right(cfg, Queued(name, host, then), op, arg)
  PROVE  Queues(c, Queued(name, host, then), op, arg)
<1> DEFINE k == Queued(name, host, then)
<1>1. CallTypeOK(k) /\ k.at = "queue" /\ k.op # "import"
  BY QueuedIs
<1>2. call' = [call EXCEPT ![c] = k] /\ cfg' = cfg /\ queue' = Append(queue, <<c, op, arg>>)
  BY DEF Queue, Queued, Write
<1> HIDE DEF k
<1>3. Becomes(c, k)
  BY <1>1, <1>2, BeginBecomes
<1>4. RightCall(cfg, k)
  BY <1>1 DEF RightCall
<1>5. Asks(k, op, arg) /\ (~raced /\ Undisturbed => Right(cfg, k, op, arg))
  BY DEF k
<1> QED BY <1>1, <1>2, <1>3, <1>4, <1>5 DEF Queues, k

\* What a client's step is, when it is one of those.
Ordinary(c) ==
  \/ \E k : Rests(c, k)
  \/ \E k, op, arg : Queues(c, k, op, arg)
  \/ UNCHANGED <<cfg, queue, call, raced>>

\* Such steps keep the types, and what is right while nobody overlaps.
LEMMA OrdinaryKeeps ==
  ASSUME CatalogTypeOK, raced \/ Undisturbed, NEW c, Ordinary(c)
  PROVE  CatalogTypeOK' /\ (raced' \/ Undisturbed')
<1>1. ASSUME UNCHANGED <<cfg, queue, call, raced>> PROVE CatalogTypeOK' /\ (raced' \/ Undisturbed')
  <2>1. cfg' = cfg /\ queue' = queue /\ call' = call /\ raced' = raced
    BY <1>1
  <2> QED BY <2>1 DEF CatalogTypeOK, CallsTypeOK, QueueTypeOK, Undisturbed
<1> QED BY <1>1, RestsKeeps, QueuesKeeps DEF Ordinary

\* A host of the list, and the one a lookup by id finds.
LEMMA HostFound ==
  ASSUME IsConfig(cfg), NEW id \in TakenIds(cfg)
  PROVE  /\ HostNamed(cfg, id) \in HostsOf(cfg) /\ HostNamed(cfg, id).id = id
         /\ HostNamed(cfg, id) \in HostRecords({id})
<1>1. HostNamed(cfg, id) \in HostsOf(cfg) /\ HostNamed(cfg, id).id = id
  BY DEF TakenIds, IdsOf, HostNamed, Named
<1>2. HostNamed(cfg, id) \in HostRecords(TakenIds(cfg))
  BY <1>1, HostsAre
<1> QED BY <1>1, <1>2 DEF HostRecords

\* The body is checked against the install of now, so it is right.
LEMMA CreateHostIs ==
  ASSUME CatalogTypeOK, NEW c \in Clients, NEW wanted, NEW conn \in Asked, NEW d \in BOOLEAN,
         CreateHost(c, wanted, conn, d)
  PROVE  Ordinary(c)
<1> DEFINE id == IF wanted = None THEN FreeId("box", TakenIds(cfg)) ELSE wanted
           h  == [id |-> id, conn |-> conn, agents |-> {}]
           k  == Queued("create", id, DefaultToo(d, id))
<1>1. BeginWrite(c) /\ Usable(conn, {}) /\ Queue(c, "create", id, "putHost", h, DefaultToo(d, id))
  BY DEF CreateHost
<1> HIDE DEF id
<1>2. h \in HostRecords({h.id}) /\ h.id = id /\ h.conn = conn
  BY CatalogAssumption DEF HostRecords
<1>3. DefaultToo(d, id) \in {<<>>, <<<<"setDefault", id>>>>}
  BY DEF DefaultToo
<1>4. Right(cfg, k, "putHost", h)
  BY <1>1, <1>2 DEF Right, Usable
<1>5. k.op = "create" /\ k.host = id
  BY QueuedIs
<1> HIDE DEF h, k
<1>6. Asks(k, "putHost", h)
  BY <1>2, <1>5 DEF Asks
<1>7. Queues(c, k, "putHost", h)
  BY <1>1, <1>3, <1>4, <1>6, QueueQueues DEF k, Reads
<1> QED BY <1>7 DEF Ordinary

\* What the body leaves out of an update is right because the install is whole.
LEMMA UpdateHostIs ==
  ASSUME CatalogTypeOK, NEW c \in Clients, NEW id, NEW conn \in Asked \cup {None}, NEW d \in BOOLEAN,
         UpdateHost(c, id, conn, d)
  PROVE  Ordinary(c)
<1> DEFINE host == HostNamed(cfg, id)
           h  == [host EXCEPT !.conn = IF conn = None THEN host.conn ELSE conn]
           k  == Queued("update", id, DefaultToo(d, id))
<1>1. /\ BeginWrite(c) /\ (conn # None => Usable(conn, {id}))
      /\ id \in TakenIds(cfg) /\ Queue(c, "update", id, "putHost", h, DefaultToo(d, id))
  BY DEF UpdateHost
<1>2. host \in HostsOf(cfg) /\ host \in HostRecords({id}) /\ host.id = id
  BY <1>1, HostFound DEF CatalogTypeOK
<1> HIDE DEF host
<1>3. h \in HostRecords({h.id}) /\ h.id = id /\ h.conn = IF conn = None THEN host.conn ELSE conn
  BY <1>2, CatalogAssumption DEF HostRecords
<1>4. DefaultToo(d, id) \in {<<>>, <<<<"setDefault", id>>>>}
  BY DEF DefaultToo
<1> HIDE DEF h
<1>5. ASSUME Undisturbed PROVE Right(cfg, k, "putHost", h)
  <2>1. CASE conn = None
    BY <1>2, <1>3, <1>5, <2>1 DEF Right, Undisturbed, Whole, OneSocketHost, CredentialsExist
  <2>2. CASE conn # None
    BY <1>1, <1>3, <2>2 DEF Right, Usable
  <2> QED BY <2>1, <2>2
<1>6. k.op = "update" /\ k.host = id
  BY QueuedIs
<1> HIDE DEF k
<1>7. Asks(k, "putHost", h)
  BY <1>3, <1>6 DEF Asks
<1>8. Queues(c, k, "putHost", h)
  BY <1>1, <1>4, <1>5, <1>7, QueueQueues DEF k, Reads
<1> QED BY <1>8 DEF Ordinary

\* The record that is put is the one of now, with other agents.
LEMMA SetEnabledAgentsIs ==
  ASSUME CatalogTypeOK, NEW c \in Clients, NEW id, NEW agents, SetEnabledAgents(c, id, agents)
  PROVE  Ordinary(c)
<1> DEFINE host == HostNamed(cfg, id)
           h  == [host EXCEPT !.agents = agents]
           k  == Queued("agents", id, <<>>)
<1>1. /\ BeginWrite(c) /\ agents \subseteq cfg.agents
      /\ id \in TakenIds(cfg) /\ Queue(c, "agents", id, "putHost", h, <<>>)
  BY DEF SetEnabledAgents
<1>2. host \in HostsOf(cfg) /\ host \in HostRecords({id}) /\ host.id = id
  BY <1>1, HostFound DEF CatalogTypeOK
<1>3. agents \subseteq Agents
  BY <1>1, ListsAre DEF CatalogTypeOK
<1> HIDE DEF host
<1>4. h \in HostRecords({h.id}) /\ h.id = id /\ h.conn = host.conn
  BY <1>2, <1>3 DEF HostRecords
<1> HIDE DEF h
<1>5. ASSUME Undisturbed PROVE Right(cfg, k, "putHost", h)
  BY <1>2, <1>4, <1>5 DEF Right, Undisturbed, Whole, OneSocketHost, CredentialsExist
<1>6. k.op = "agents" /\ k.host = id
  BY QueuedIs
<1> HIDE DEF k
<1>7. Asks(k, "putHost", h)
  BY <1>4, <1>6 DEF Asks
<1>8. Queues(c, k, "putHost", h)
  BY <1>1, <1>5, <1>7, QueueQueues DEF k, Reads
<1> QED BY <1>8 DEF Ordinary

\* A delete asks nothing of the install.
LEMMA RemoveHostIs ==
  ASSUME NEW c \in Clients, NEW id, NEW force, RemoveHost(c, id, force) PROVE Ordinary(c)
<1> DEFINE k == Queued("remove", id, <<>>)
<1>1. BeginWrite(c) /\ Queue(c, "remove", id, "deleteHost", id, <<>>)
  BY DEF RemoveHost
<1>2. k.op = "remove" /\ k.host = id
  BY QueuedIs
<1> HIDE DEF k
<1>3. Asks(k, "deleteHost", id) /\ Right(cfg, k, "deleteHost", id)
  BY <1>2 DEF Asks, Right
<1>4. Queues(c, k, "deleteHost", id)
  BY <1>1, <1>3, QueueQueues DEF k, Reads
<1> QED BY <1>4 DEF Ordinary

\* The default that is set is a host now.
LEMMA SetDefaultIs ==
  ASSUME NEW c \in Clients, NEW id, SetDefault(c, id) PROVE Ordinary(c)
<1> DEFINE k == Queued("default", id, <<>>)
<1>1. BeginWrite(c) /\ Queue(c, "default", id, "setDefault", id, <<>>) /\ id \in TakenIds(cfg)
  BY DEF SetDefault
<1>2. k.op = "default" /\ k.host = id /\ k.rest = <<>>
  BY QueuedIs
<1> HIDE DEF k
<1>3. Asks(k, "setDefault", id) /\ Right(cfg, k, "setDefault", id)
  BY <1>1, <1>2 DEF Asks, Right
<1>4. Queues(c, k, "setDefault", id)
  BY <1>1, <1>3, QueueQueues DEF k, Reads
<1> QED BY <1>4 DEF Ordinary

\* A call that goes on, or is over.
LEMMA GoesOn ==
  ASSUME CatalogTypeOK, NEW c \in Clients, call[c] # NoCall, call[c].at # "queue",
         NEW k, k = NoCall \/ (CallTypeOK(k) /\ k.op = call[c].op /\ k.cut = call[c].cut),
         call' = [call EXCEPT ![c] = k], cfg' = cfg, raced' = raced
  PROVE  Becomes(c, k)
<1>1. Writing(k) => Writing(call[c])
  BY IdleIs DEF Writing
<1> QED BY <1>1 DEF Becomes

\* A call that is over leaves nothing behind.
LEMMA Over ==
  ASSUME CatalogTypeOK, NEW c \in Clients, call[c] # NoCall, call[c].at # "queue",
         call' = [call EXCEPT ![c] = NoCall], UNCHANGED <<cfg, queue, raced>>
  PROVE  Ordinary(c)
  BY GoesOn, IdleIs DEF Rests, Ordinary

\* A call that has something in hand when it starts.
LEMMA StartsWith ==
  ASSUME NEW c \in Clients, BeginWrite(c), NEW op, NEW at, NEW what,
         LET k == CallWith(op, at, what) IN
           /\ CallTypeOK(k) /\ k.at # "queue" /\ k.op \notin Reads
           /\ Undisturbed => RightCall(cfg, k),
         call' = [call EXCEPT ![c] = CallWith(op, at, what)], UNCHANGED <<cfg, queue>>
  PROVE  Ordinary(c)
<1> DEFINE k == CallWith(op, at, what)
<1>1. CallTypeOK(k) /\ k.at # "queue" /\ k.op \notin Reads /\ (Undisturbed => RightCall(cfg, k))
  OBVIOUS
<1>2. call' = [call EXCEPT ![c] = k] /\ cfg' = cfg /\ queue' = queue
  OBVIOUS
<1> HIDE DEF k
<1>3. Rests(c, k)
  BY <1>1, <1>2, BeginBecomes DEF Rests, Reads
<1> QED BY <1>3 DEF Ordinary

\* The credential an import names is there when it starts.
LEMMA ImportIs ==
  ASSUME NEW c \in Clients, NEW cred \in Creds, ImportPortainerEndpoints(c, cred)
  PROVE  Ordinary(c)
<1> DEFINE k == CallWith("import", "endpoints", [cred |-> cred])
<1>1. BeginWrite(c) /\ call' = [call EXCEPT ![c] = k] /\ UNCHANGED <<cfg, queue>>
  BY DEF ImportPortainerEndpoints
<1>2. k = [op |-> "import", at |-> "endpoints", host |-> None, what |-> [cred |-> cred], rest |-> <<>>,
           of |-> None, cut |-> FALSE]
  BY WithIs
<1> HIDE DEF k
<1>3. /\ k.op = "import" /\ k.at = "endpoints" /\ k.what = [cred |-> cred] /\ k.rest = <<>>
      /\ k \in [op : {k.op}, at : {k.at}, host : {k.host}, what : {k.what}, rest : {k.rest},
                of : {k.of}, cut : BOOLEAN]
  BY <1>2
<1>4. k.what.cred = cred /\ k.what \in [cred : Creds] /\ k.rest \in Seq(Endpoints)
  BY <1>3
<1>5. CallTypeOK(k) /\ k.at # "queue" /\ k.op \notin Reads
  BY <1>3, <1>4 DEF CallTypeOK, Reads
<1>6. RightCall(cfg, k)
  BY <1>3, <1>4 DEF RightCall, ImportPortainerEndpoints
<1> QED BY <1>1, <1>5, <1>6, StartsWith DEF k

\* The endpoints a Portainer may answer with.
Lists == {<<>>} \cup {<<e>> : e \in Endpoints} \cup {SetToSeq(Endpoints)}

\* Whatever a Portainer answers is a list of endpoints.
LEMMA ListsAreSequences == Lists \subseteq Seq(Endpoints)
<1>1. SetToSeq(Endpoints) \in Seq(Endpoints)
  <2>1. /\ Cardinality(Endpoints) \in Nat
        /\ ExistsBijection(1..Cardinality(Endpoints), Endpoints)
    BY CatalogAssumption, FS_CardinalityType DEF CatalogAssumption
  <2>2. \E f : f \in [1..Cardinality(Endpoints) -> Endpoints] /\ IsInjective(f)
    BY <2>1 DEF ExistsBijection, Bijection, Injection, IsInjective
  <2>3. SetToSeq(Endpoints) \in [1..Cardinality(Endpoints) -> Endpoints]
    BY <2>2 DEF SetToSeq
  <2> QED BY <2>1, <2>3, SeqDef
<1>2. \A e \in Endpoints : <<e>> \in Seq(Endpoints)
  OBVIOUS
<1>3. <<>> \in Seq(Endpoints)
  OBVIOUS
<1> QED BY <1>1, <1>2, <1>3 DEF Lists

\* What an import puts names its credential.
LEMMA ImportOneIs ==
  ASSUME NEW c, IsConfig(c), NEW cred \in Creds, NEW e \in Endpoints
  PROVE  LET h == ImportOne(c, cred, e) IN
         /\ h \in HostRecords({h.id})
         /\ h.conn = [type |-> "portainer", cred |-> cred, endpoint |-> e]
<1> DEFINE conn == [type |-> "portainer", cred |-> cred, endpoint |-> e]
           same == {h \in HostsOf(c) : h.conn = conn}
           h == ImportOne(c, cred, e)
<1>1. conn \in Conns
  BY DEF Conns
<1>2. CASE same # {}
  <2>1. h \in same
    BY <1>2 DEF ImportOne
  <2>2. h \in HostRecords(TakenIds(c))
    BY <2>1, HostsAre
  <2> QED BY <2>1, <2>2 DEF HostRecords
<1>3. CASE same = {}
  <2>1. h = [id |-> FreeId("box", TakenIds(c)), conn |-> conn, agents |-> {}]
    BY <1>3 DEF ImportOne
  <2> HIDE DEF h, conn
  <2>2. h \in HostRecords({h.id}) /\ h.conn = conn
    BY <1>1, <2>1 DEF HostRecords
  <2> QED BY <2>2 DEF h, conn
<1> QED BY <1>2, <1>3

\* An import queues the first endpoint, and keeps the others.
LEMMA EndpointsListedIs ==
  ASSUME CatalogTypeOK, NEW c \in Clients, NEW list \in Lists, EndpointsListed(c, list)
  PROVE  Ordinary(c)
<1>1. call[c] # NoCall /\ call[c].at = "endpoints" /\ cfg' = cfg /\ raced' = raced
  BY DEF EndpointsListed
<1>2. CallTypeOK(call[c]) /\ call[c].op = "import" /\ call[c].what.cred \in Creds
  BY <1>1 DEF CatalogTypeOK, CallsTypeOK, CallTypeOK
<1>3. CASE list = <<>>
  BY <1>1, <1>3, Over DEF EndpointsListed
<1>4. CASE list # <<>>
  <2> DEFINE k == [call[c] EXCEPT !.at = "queue", !.rest = Tail(list)]
             h == ImportOne(cfg, call[c].what.cred, Head(list))
  <2>1. Head(list) \in Endpoints /\ Tail(list) \in Seq(Endpoints)
    BY <1>4, ListsAreSequences
  <2>2. /\ k.op = "import" /\ k.at = "queue" /\ k.rest = Tail(list) /\ k.what = call[c].what
        /\ k.cut = call[c].cut
        /\ k \in [op : {k.op}, at : {k.at}, host : {k.host}, what : {k.what}, rest : {k.rest},
                  of : {k.of}, cut : BOOLEAN]
    BY <1>2 DEF CallTypeOK
  <2>3. call' = [call EXCEPT ![c] = k]
    BY <1>4 DEF EndpointsListed, CatalogTypeOK, CallsTypeOK
  <2>4. queue' = Append(queue, <<c, "putHost", h>>)
    BY <1>4 DEF EndpointsListed, Write
  <2> HIDE DEF k
  <2>5. CallTypeOK(k)
    BY <1>2, <2>1, <2>2 DEF CallTypeOK, Reads
  <2>6. h \in HostRecords({h.id}) /\ h.conn.type = "portainer" /\ h.conn.cred = call[c].what.cred
    <3>1. /\ h \in HostRecords({h.id})
          /\ h.conn = [type |-> "portainer", cred |-> call[c].what.cred, endpoint |-> Head(list)]
      BY <1>2, <2>1, ImportOneIs DEF CatalogTypeOK
    <3> HIDE DEF h
    <3> QED BY <3>1
  <2> HIDE DEF h
  <2>7. Becomes(c, k)
    BY <1>1, <1>2, <2>2, <2>3, <2>5, GoesOn
  <2>8. Asks(k, "putHost", h)
    BY <2>2, <2>6 DEF Asks
  <2>9. ASSUME Undisturbed PROVE Right(cfg, k, "putHost", h) /\ RightCall(cfg, k)
    <3>1. call[c].what.cred \in IdsOf(cfg.creds)
      BY <1>1, <1>2, <2>9 DEF Undisturbed, RightCall
    <3> QED BY <2>2, <2>6, <3>1 DEF Right, RightCall
  <2>10. Queues(c, k, "putHost", h)
    BY <2>2, <2>4, <2>7, <2>8, <2>9 DEF Queues
  <2> QED BY <2>10 DEF Ordinary
<1> QED BY <1>3, <1>4

\* A credential is deleted when no host names it.
LEMMA CredentialIs ==
  ASSUME CatalogTypeOK, NEW c \in Clients, NEW id, NEW key,
         \/ key \in Keys /\ CreateCredential(c, key)
         \/ key \in Keys /\ UpdateCredential(c, id, key)
         \/ RemoveCredential(c, id)
  PROVE  Ordinary(c)
<1> DEFINE k == Queued("credential", None, <<>>)
<1>1. k.op = "credential"
  BY QueuedIs
<1>2. ASSUME NEW x, x \in CredentialRecords({x.id}), BeginWrite(c),
             Queue(c, "credential", None, "putCredential", x, <<>>)
      PROVE  Ordinary(c)
  <2> HIDE DEF k
  <2>1. Asks(k, "putCredential", x) /\ Right(cfg, k, "putCredential", x)
    BY <1>1, <1>2 DEF Asks, Right
  <2>2. Queues(c, k, "putCredential", x)
    BY <1>2, <2>1, QueueQueues DEF k, Reads
  <2> QED BY <2>2 DEF Ordinary
<1>3. CASE key \in Keys /\ CreateCredential(c, key)
  <2> DEFINE x == [id |-> Min(Creds \ IdsOf(cfg.creds)), key |-> key]
  <2>1. x \in CredentialRecords({x.id})
    BY <1>3 DEF CredentialRecords
  <2>2. BeginWrite(c) /\ Queue(c, "credential", None, "putCredential", x, <<>>)
    BY <1>3 DEF CreateCredential
  <2> HIDE DEF x
  <2> QED BY <1>2, <2>1, <2>2
<1>4. CASE key \in Keys /\ UpdateCredential(c, id, key)
  <2> DEFINE y == Named(cfg.creds, id)
             x == [y EXCEPT !.key = key]
  <2>1. y \in cfg.creds
    BY <1>4 DEF UpdateCredential, IdsOf, Named
  <2>2. y \in CredentialRecords(IdsOf(cfg.creds))
    BY <2>1, ListsAre DEF CatalogTypeOK
  <2> HIDE DEF y
  <2>3. x \in CredentialRecords({x.id})
    BY <1>4, <2>2 DEF CredentialRecords
  <2>4. BeginWrite(c) /\ Queue(c, "credential", None, "putCredential", x, <<>>)
    BY <1>4 DEF UpdateCredential, y
  <2> HIDE DEF x
  <2> QED BY <1>2, <2>3, <2>4
<1>5. CASE RemoveCredential(c, id)
  <2>1. BeginWrite(c) /\ Queue(c, "credential", None, "deleteCredential", id, <<>>)
        /\ UsersOfCred(cfg, id) = {}
    BY <1>5 DEF RemoveCredential
  <2> HIDE DEF k
  <2>2. Asks(k, "deleteCredential", id) /\ Right(cfg, k, "deleteCredential", id)
    BY <1>1, <2>1 DEF Asks, Right
  <2>3. Queues(c, k, "deleteCredential", id)
    BY <2>1, <2>2, QueueQueues DEF k, Reads
  <2> QED BY <2>3 DEF Ordinary
<1> QED BY <1>3, <1>4, <1>5

\* Calls that run on a host.
LEMMA UseIs ==
  ASSUME NEW c \in Clients, NEW id, NEW op \in {"info", "view", "test"}, NEW of, BeginRead(c),
         call' = [call EXCEPT ![c] = [Call(op, "engine", id) EXCEPT !.of = of]], UNCHANGED <<cfg, queue>>,
         op # "test" => id \in HostIds /\ cache'[id] # None
  PROVE  Ordinary(c)
<1> DEFINE k == [Call(op, "engine", id) EXCEPT !.of = of]
<1>1. /\ k.op = op /\ k.at = "engine" /\ k.host = id /\ k.rest = <<>> /\ k.op # "import"
      /\ k \in [op : {k.op}, at : {k.at}, host : {k.host}, what : {k.what}, rest : {k.rest},
                of : {k.of}, cut : BOOLEAN]
  BY DEF Call
<1>2. call' = [call EXCEPT ![c] = k] /\ cfg' = cfg /\ queue' = queue
  OBVIOUS
<1> HIDE DEF k
<1>3. CallTypeOK(k) /\ ~Writing(k)
  BY <1>1 DEF CallTypeOK, Reads, Writing
<1>4. Rests(c, k)
  BY <1>1, <1>2, <1>3, BeginBecomes DEF Rests, RightCall
<1> QED BY <1>4 DEF Ordinary

\* The engine answers, and the call is over.
LEMMA AnsweredIs ==
  ASSUME CatalogTypeOK, NEW c \in Clients, NEW ok, Answered(c, ok) PROVE Ordinary(c)
  BY Over DEF Answered

\* An agent is put or dropped, whoever lists it.
LEMMA AgentIs ==
  ASSUME CatalogTypeOK, NEW c \in Clients, NEW id \in Agents, NEW force,
         PutCustomAgent(c, id) \/ RemoveAgent(c, id, force)
  PROVE  Ordinary(c)
<1> DEFINE k == Queued("agent", None, <<>>)
<1>1. k.op = "agent"
  BY QueuedIs
<1>2. PICK op \in {"putAgent", "dropAgent"} : BeginWrite(c) /\ Queue(c, "agent", None, op, id, <<>>)
  BY DEF PutCustomAgent, RemoveAgent
<1> HIDE DEF k
<1>3. Asks(k, op, id) /\ Right(cfg, k, op, id)
  BY <1>1, <1>2 DEF Asks, Right
<1>4. Queues(c, k, op, id)
  BY <1>2, <1>3, QueueQueues DEF k, Reads
<1> QED BY <1>4 DEF Ordinary

\* A definition goes whatever it refers to.
LEMMA ForgetContainerIs ==
  ASSUME NEW c \in Clients, NEW name, ForgetContainer(c, name) PROVE Ordinary(c)
<1> DEFINE k == Queued("container", None, <<>>)
<1>1. k.op = "container"
  BY QueuedIs
<1>2. BeginWrite(c) /\ Queue(c, "container", None, "deleteContainer", name, <<>>)
  BY DEF ForgetContainer
<1> HIDE DEF k
<1>3. Asks(k, "deleteContainer", name) /\ Right(cfg, k, "deleteContainer", name)
  BY <1>1 DEF Asks, Right
<1>4. Queues(c, k, "deleteContainer", name)
  BY <1>2, <1>3, QueueQueues DEF k, Reads
<1> QED BY <1>4 DEF Ordinary

\* A new profile has no secret to lose.
LEMMA CreateProfileIs ==
  ASSUME NEW c \in Clients, NEW id \in ProfileIds, NEW slice \in Slices, NEW keys \in SUBSET SecretKeys,
         CreateProfile(c, id, slice, keys)
  PROVE  Ordinary(c)
<1> DEFINE k == Queued("profile", None, <<>>)
           p == [id |-> id, slice |-> slice, keys |-> keys]
<1>1. k.op = "profile"
  BY QueuedIs
<1>2. BeginWrite(c) /\ Queue(c, "profile", None, "putProfile", p, <<>>) /\ id \notin IdsOf(cfg.profiles)
  BY DEF CreateProfile
<1>3. p \in ProfileRecords /\ p.id = id
  BY DEF ProfileRecords
<1> HIDE DEF k, p
<1>4. Asks(k, "putProfile", p) /\ Right(cfg, k, "putProfile", p)
  BY <1>1, <1>2, <1>3 DEF Asks, Right, IdsOf
<1>5. Queues(c, k, "putProfile", p)
  BY <1>2, <1>4, QueueQueues DEF k, Reads
<1> QED BY <1>5 DEF Ordinary

\* A call that queues a write and keeps something until it is done.
LEMMA QueuesWith ==
  ASSUME NEW c \in Clients, BeginWrite(c), NEW name \in {"profile", "removeProfile"},
         NEW what, NEW k, k = CallWith(name, "queue", what), NEW op, NEW arg,
         call' = [call EXCEPT ![c] = k], cfg' = cfg, queue' = Write(c, op, arg),
         Asks(k, op, arg), Right(cfg, k, op, arg)
  PROVE  Ordinary(c)
<1>1. k = [op |-> name, at |-> "queue", host |-> None, what |-> what, rest |-> <<>>,
           of |-> None, cut |-> FALSE]
  BY WithIs
<1>2. /\ k.op = name /\ k.at = "queue" /\ k.rest = <<>>
      /\ k \in [op : {k.op}, at : {k.at}, host : {k.host}, what : {k.what}, rest : {k.rest},
                of : {k.of}, cut : BOOLEAN]
  <2>1. k.op = name /\ k.at = "queue" /\ k.rest = <<>> /\ k.cut = FALSE
    BY <1>1
  <2>2. k \in [op : {k.op}, at : {k.at}, host : {k.host}, what : {k.what}, rest : {k.rest},
                of : {k.of}, cut : BOOLEAN]
    BY <1>1, <2>1, Zenon
  <2> QED BY <2>1, <2>2
<1>3. CallTypeOK(k) /\ RightCall(cfg, k)
  BY <1>2 DEF CallTypeOK, RightCall, Reads
<1>4. Becomes(c, k)
  BY <1>3, BeginBecomes
<1>5. Queues(c, k, op, arg)
  BY <1>2, <1>3, <1>4 DEF Queues, Write
<1> QED BY <1>5 DEF Ordinary

\* Secrets that are not typed are those of now, without the cleared ones.
LEMMA UpdateProfileIs ==
  ASSUME CatalogTypeOK, NEW c \in Clients, NEW id \in ProfileIds, NEW slice \in Slices,
         NEW typed \in SUBSET SecretKeys, NEW cleared \in SUBSET SecretKeys,
         UpdateProfile(c, id, slice, typed, cleared)
  PROVE  Ordinary(c)
<1> DEFINE k == CallWith("profile", "queue", [cleared |-> cleared])
           old == Named(cfg.profiles, id)
           keys == MergeKeys(old.keys, typed, cleared)
           p == [id |-> id, slice |-> slice, keys |-> keys]
<1>1. /\ BeginWrite(c) /\ id \in IdsOf(cfg.profiles)
      /\ queue' = Write(c, "putProfile", p) /\ call' = [call EXCEPT ![c] = k] /\ cfg' = cfg
  BY DEF UpdateProfile
<1>2. old \in cfg.profiles /\ old.id = id
  BY <1>1 DEF IdsOf, Named
<1>3. /\ old \in ProfileRecords
      /\ \A q \in cfg.profiles : q.id = id => q = old
  BY <1>2, ListsAre DEF CatalogTypeOK
<1> HIDE DEF old
<1>4. keys \subseteq SecretKeys /\ (old.keys \ keys) \subseteq cleared
  BY <1>3 DEF MergeKeys, ProfileRecords
<1> HIDE DEF keys
<1>5. p \in ProfileRecords /\ p.id = id /\ p.keys = keys
  BY <1>4 DEF ProfileRecords
<1>6. k.op = "profile" /\ k.what.cleared = cleared
  BY WithIs
<1> HIDE DEF k, p
<1>7. Asks(k, "putProfile", p) /\ Right(cfg, k, "putProfile", p)
  BY <1>3, <1>4, <1>5, <1>6 DEF Asks, Right
<1>8. k = CallWith("profile", "queue", [cleared |-> cleared])
  BY DEF k
<1> QED BY <1>1, <1>7, <1>8, QueuesWith

\* The volume that goes is one no other profile resolves to.
LEMMA RemoveProfileIs ==
  ASSUME NEW c \in Clients, NEW id \in ProfileIds, NEW force, NEW withVolumes,
         RemoveProfile(c, id, force, withVolumes)
  PROVE  Ordinary(c)
<1> DEFINE s == IF withVolumes /\ Removable(id) # {} THEN CHOOSE t \in Removable(id) : TRUE ELSE None
           k == CallWith("removeProfile", "queue", [volume |-> s])
<1>1. /\ BeginWrite(c)
      /\ queue' = Write(c, "dropProfile", id) /\ call' = [call EXCEPT ![c] = k] /\ cfg' = cfg
  BY DEF RemoveProfile
<1>2. s # None => s \in Removable(id)
  OBVIOUS
<1> HIDE DEF s
<1>3. s # None => \A p \in cfg.profiles : p.id # id => LoginSet(p) # s
  BY <1>2 DEF Removable, Drop
<1>4. k.op = "removeProfile" /\ k.what.volume = s
  BY WithIs
<1> HIDE DEF k
<1>5. Asks(k, "dropProfile", id) /\ Right(cfg, k, "dropProfile", id)
  BY <1>3, <1>4 DEF Asks, Right
<1>6. k = CallWith("removeProfile", "queue", [volume |-> s])
  BY DEF k
<1> QED BY <1>1, <1>5, <1>6, QueuesWith

\* What a definition refers to is there when the work starts.
LEMMA DefineContainerIs ==
  ASSUME NEW c \in Clients, NEW def \in Containers, DefineContainer(c, def) PROVE Ordinary(c)
<1> DEFINE k == CallWith("container", "work", [def |-> def])
<1>1. /\ BeginWrite(c) /\ call' = [call EXCEPT ![c] = k] /\ UNCHANGED <<cfg, queue>>
      /\ def.profile \in {None} \cup IdsOf(cfg.profiles)
      /\ def.agents \in {None} \cup SUBSET cfg.agents
  BY DEF DefineContainer
<1>2. k = [op |-> "container", at |-> "work", host |-> None, what |-> [def |-> def], rest |-> <<>>,
           of |-> None, cut |-> FALSE]
  BY WithIs
<1> HIDE DEF k
<1>3. /\ k.op = "container" /\ k.at = "work" /\ k.what = [def |-> def] /\ k.rest = <<>>
      /\ k \in [op : {k.op}, at : {k.at}, host : {k.host}, what : {k.what}, rest : {k.rest},
                of : {k.of}, cut : BOOLEAN]
  BY <1>2
<1>4. k.what.def = def /\ k.what \in [def : Containers]
  BY <1>3
<1>5. CallTypeOK(k) /\ k.at # "queue" /\ k.op \notin Reads
  BY <1>3, <1>4 DEF CallTypeOK, Reads
<1>6. RightCall(cfg, k)
  BY <1>1, <1>3, <1>4 DEF RightCall
<1> QED BY <1>1, <1>5, <1>6, StartsWith DEF k

\* The new password is hashed before it is queued.
LEMMA ChangePasswordIs ==
  ASSUME NEW c \in Clients, NEW typed, NEW hash \in Passwords, ChangePassword(c, typed, hash)
  PROVE  Ordinary(c)
<1> DEFINE k == CallWith("password", "hash", [hash |-> hash])
<1>1. BeginWrite(c) /\ call' = [call EXCEPT ![c] = k] /\ UNCHANGED <<cfg, queue>>
  BY DEF ChangePassword
<1>2. k = [op |-> "password", at |-> "hash", host |-> None, what |-> [hash |-> hash], rest |-> <<>>,
           of |-> None, cut |-> FALSE]
  BY WithIs
<1> HIDE DEF k
<1>3. /\ k.op = "password" /\ k.at = "hash" /\ k.what \in [hash : Passwords] /\ k.rest = <<>>
      /\ k \in [op : {k.op}, at : {k.at}, host : {k.host}, what : {k.what}, rest : {k.rest},
                of : {k.of}, cut : BOOLEAN]
  BY <1>2
<1>4. CallTypeOK(k) /\ k.at # "queue" /\ k.op \notin Reads /\ RightCall(cfg, k)
  BY <1>3 DEF CallTypeOK, RightCall, Reads
<1> QED BY <1>1, <1>4, StartsWith DEF k

\* A login writes nothing.
LEMMA LoginIs ==
  ASSUME NEW c \in Clients, NEW typed, Login(c, typed), UNCHANGED sideVars PROVE Ordinary(c)
<1> DEFINE k == Call("login", "verify", None)
<1>1. BeginRead(c) /\ call' = [call EXCEPT ![c] = k] /\ cfg' = cfg /\ queue' = queue
  BY DEF Login
<1>2. /\ k.op = "login" /\ k.at = "verify" /\ k.rest = <<>>
      /\ k \in [op : {k.op}, at : {k.at}, host : {k.host}, what : {k.what}, rest : {k.rest},
                of : {k.of}, cut : BOOLEAN]
  BY DEF Call
<1> HIDE DEF k
<1>3. CallTypeOK(k) /\ ~Writing(k)
  BY <1>2 DEF CallTypeOK, Reads, Writing
<1>4. Rests(c, k)
  BY <1>1, <1>2, <1>3, BeginBecomes DEF Rests, RightCall
<1> QED BY <1>4 DEF Ordinary

\* What a call has kept goes into the queue when the engine or the hash is done.
LEMMA NowQueues ==
  ASSUME CatalogTypeOK, NEW c \in Clients, NEW op, NEW arg, call[c] # NoCall,
         call[c].at \in {"work", "hash"},
         LET k == [call[c] EXCEPT !.at = "queue"] IN
           /\ Asks(k, op, arg)
           /\ ~raced /\ Undisturbed => Right(cfg, k, op, arg),
         call' = [call EXCEPT ![c].at = "queue"], queue' = Write(c, op, arg),
         cfg' = cfg, raced' = raced
  PROVE  Ordinary(c)
<1> DEFINE k == [call[c] EXCEPT !.at = "queue"]
<1>1. CallTypeOK(call[c])
  BY DEF CatalogTypeOK, CallsTypeOK
<1>2. /\ k.op = call[c].op /\ k.at = "queue" /\ k.rest = call[c].rest /\ k.host = call[c].host
      /\ k.what = call[c].what /\ k.cut = call[c].cut
      /\ k \in [op : {k.op}, at : {k.at}, host : {k.host}, what : {k.what}, rest : {k.rest},
                of : {k.of}, cut : BOOLEAN]
  BY <1>1 DEF CallTypeOK
<1>3. call' = [call EXCEPT ![c] = k]
  BY DEF CatalogTypeOK, CallsTypeOK
<1>4. Asks(k, op, arg) /\ (~raced /\ Undisturbed => Right(cfg, k, op, arg))
  OBVIOUS
<1> HIDE DEF k
<1>5. call[c].op \in {"container", "password"} /\ CallTypeOK(k)
  BY <1>1, <1>2 DEF CallTypeOK
<1>6. Becomes(c, k)
  BY <1>2, <1>3, <1>5, GoesOn
<1>7. Queues(c, k, op, arg)
  BY <1>2, <1>4, <1>5, <1>6 DEF Queues, Write, RightCall
<1> QED BY <1>7 DEF Ordinary

\* The definition that is stored is the one that was checked.
LEMMA StoreContainerIs ==
  ASSUME CatalogTypeOK, NEW c \in Clients, StoreContainer(c) PROVE Ordinary(c)
<1> DEFINE k == [call[c] EXCEPT !.at = "queue"]
           def == call[c].what.def
<1>1. /\ call[c] # NoCall /\ call[c].at = "work" /\ call' = [call EXCEPT ![c].at = "queue"]
      /\ queue' = Write(c, "putContainer", def) /\ cfg' = cfg /\ raced' = raced
  BY DEF StoreContainer
<1>2. /\ call[c].op = "container" /\ def \in ContainerRecords
      /\ k.op = call[c].op
  BY <1>1 DEF CatalogTypeOK, CallsTypeOK, CallTypeOK, Containers
<1>3. Undisturbed => Right(cfg, k, "putContainer", def)
  BY <1>1 DEF Undisturbed, Right, RightCall
<1>4. Asks(k, "putContainer", def)
  BY <1>2 DEF Asks
<1> QED BY <1>1, <1>3, <1>4, NowQueues

\* The hash is queued.
LEMMA HashedIs ==
  ASSUME CatalogTypeOK, NEW c \in Clients, Hashed(c) PROVE Ordinary(c)
<1> DEFINE k == [call[c] EXCEPT !.at = "queue"]
           hash == call[c].what.hash
<1>1. /\ call[c] # NoCall /\ call[c].at = "hash" /\ call' = [call EXCEPT ![c].at = "queue"]
      /\ queue' = Write(c, "setPassword", hash) /\ cfg' = cfg /\ raced' = raced
  BY DEF Hashed
<1>2. call[c].op = "password" /\ hash \in Passwords /\ k.op = call[c].op
  BY <1>1 DEF CatalogTypeOK, CallsTypeOK, CallTypeOK
<1>3. Asks(k, "setPassword", hash) /\ Right(cfg, k, "setPassword", hash)
  BY <1>2 DEF Asks, Right
<1> QED BY <1>1, <1>3, NowQueues

\* The last step of a call.
LEMMA EndsAre ==
  ASSUME CatalogTypeOK, NEW c \in Clients, NEW ok,
         VolumeRemoved(c, ok) \/ WorkFails(c) \/ IssueToken(c)
  PROVE  Ordinary(c)
  BY Over DEF VolumeRemoved, WorkFails, IssueToken

-----------------------------------------------------------------------------
(* A write's turn. *)

\* Each mutator by its name.
LEMMA MutatedIs ==
  ASSUME NEW c, NEW arg
  PROVE  /\ Mutated(c, "putHost", arg) = PutHost(c, arg)
         /\ Mutated(c, "deleteHost", arg) = DeleteHost(c, arg)
         /\ Mutated(c, "setDefault", arg) = SetDefaultHostId(c, arg)
         /\ Mutated(c, "putCredential", arg) = PutCredential(c, arg)
         /\ Mutated(c, "deleteCredential", arg) = DeleteCredential(c, arg)
         /\ Mutated(c, "putProfile", arg) = PutProfile(c, arg)
         /\ Mutated(c, "dropProfile", arg) = DropProfile(c, arg)
         /\ Mutated(c, "putAgent", arg) = PutAgent(c, arg)
         /\ Mutated(c, "dropAgent", arg) = DropAgent(c, arg)
         /\ Mutated(c, "putContainer", arg) = PutContainer(c, arg)
         /\ Mutated(c, "deleteContainer", arg) = DeleteContainer(c, arg)
         /\ Mutated(c, "setPassword", arg) = SetPassword(c, arg)
  BY DEF Mutated

\* config.json stays one, and each write changes its own part of it.
LEMMA MutatedConfig ==
  ASSUME NEW c, IsConfig(c), NEW k, NEW op, NEW arg, Asks(k, op, arg)
  PROVE  LET n == Mutated(c, op, arg) IN
         /\ IsConfig(n)
         /\ n.password.version = IF op = "setPassword" THEN c.password.version + 1 ELSE c.password.version
         /\ op \notin {"putCredential", "deleteCredential"} => n.creds = c.creds
         /\ op \notin {"putProfile", "dropProfile"} => n.profiles = c.profiles
<1> DEFINE n == Mutated(c, op, arg)
           Kept == n.creds = c.creds /\ n.profiles = c.profiles /\ n.password = c.password
<1>1. CASE op = "putHost"
  <2>1. arg \in HostRecords({arg.id}) /\ n = PutHost(c, arg)
    BY <1>1, MutatedIs DEF Asks
  <2> HIDE DEF n
  <2>2. IsConfig(n) /\ n = ConfigOf(n.hosts, n.default, c.creds, c.profiles, c.agents, c.containers, c.password)
    BY <2>1, PutHostFacts
  <2>3. Kept
    BY <2>2 DEF ConfigOf
  <2> QED BY <1>1, <2>2, <2>3 DEF n
<1>2. CASE op = "deleteHost"
  <2>1. n = DeleteHost(c, arg)
    BY <1>2, MutatedIs
  <2> HIDE DEF n
  <2>2. IsConfig(n) /\ n = ConfigOf(n.hosts, n.default, c.creds, c.profiles, c.agents, c.containers, c.password)
    BY <2>1, DeleteHostFacts
  <2>3. Kept
    BY <2>2 DEF ConfigOf
  <2> QED BY <1>2, <2>2, <2>3 DEF n
<1>3. CASE op = "setDefault"
  <2>1. n = SetDefaultHostId(c, arg)
    BY <1>3, MutatedIs
  <2> HIDE DEF n
  <2>2. IsConfig(n) /\ n = ConfigOf(c.hosts, n.default, c.creds, c.profiles, c.agents, c.containers, c.password)
    BY <2>1, SetDefaultFacts
  <2>3. Kept
    BY <2>2 DEF ConfigOf
  <2> QED BY <1>3, <2>2, <2>3 DEF n
<1>4. CASE op \in {"putCredential", "deleteCredential"}
  <2>1. op = "putCredential" => arg \in CredentialRecords({arg.id})
    BY DEF Asks
  <2>2. n = IF op = "putCredential" THEN PutCredential(c, arg) ELSE DeleteCredential(c, arg)
    BY <1>4, MutatedIs
  <2> HIDE DEF n
  <2>3. IsConfig(n) /\ n = ConfigOf(c.hosts, c.default, n.creds, c.profiles, c.agents, c.containers, c.password)
    BY <1>4, <2>1, <2>2, CredentialFacts
  <2>4. n.password = c.password /\ n.profiles = c.profiles
    BY <2>3 DEF ConfigOf
  <2> QED BY <1>4, <2>3, <2>4 DEF n
<1>5. CASE op \in {"putProfile", "dropProfile"}
  <2>1. op = "putProfile" => arg \in ProfileRecords
    BY DEF Asks
  <2>2. n = IF op = "putProfile" THEN PutProfile(c, arg) ELSE DropProfile(c, arg)
    BY <1>5, MutatedIs
  <2> HIDE DEF n
  <2>3. IsConfig(n) /\ \E ps, ks : n = ConfigOf(c.hosts, c.default, c.creds, ps, c.agents, ks, c.password)
    BY <1>5, <2>1, <2>2, ProfileFacts
  <2>4. n.password = c.password /\ n.creds = c.creds
    BY <2>3 DEF ConfigOf
  <2> QED BY <1>5, <2>3, <2>4 DEF n
<1>6. CASE op \in {"putAgent", "dropAgent"}
  <2>1. arg \in Agents
    BY <1>6 DEF Asks
  <2>2. n = IF op = "putAgent" THEN PutAgent(c, arg) ELSE DropAgent(c, arg)
    BY <1>6, MutatedIs
  <2> HIDE DEF n
  <2>3. /\ IsConfig(n)
        /\ \E hs, as, ks : n = ConfigOf(hs, c.default, c.creds, c.profiles, as, ks, c.password)
    BY <1>6, <2>1, <2>2, AgentFacts
  <2>4. n.password = c.password /\ n.creds = c.creds /\ n.profiles = c.profiles
    BY <2>3 DEF ConfigOf
  <2> QED BY <1>6, <2>3, <2>4 DEF n
<1>7. CASE op \in {"putContainer", "deleteContainer"}
  <2>1. op = "putContainer" => arg \in ContainerRecords
    BY DEF Asks
  <2>2. n = IF op = "putContainer" THEN PutContainer(c, arg) ELSE DeleteContainer(c, arg)
    BY <1>7, MutatedIs
  <2> HIDE DEF n
  <2>3. IsConfig(n) /\ n = ConfigOf(c.hosts, c.default, c.creds, c.profiles, c.agents, n.containers, c.password)
    BY <1>7, <2>1, <2>2, ContainerFacts
  <2>4. n.password = c.password /\ n.creds = c.creds /\ n.profiles = c.profiles
    BY <2>3 DEF ConfigOf
  <2> QED BY <1>7, <2>3, <2>4 DEF n
<1>8. CASE op = "setPassword"
  <2>1. n = SetPassword(c, arg) /\ arg \in Passwords
    BY <1>8, MutatedIs DEF Asks
  <2> HIDE DEF n
  <2>2. /\ IsConfig(n) /\ n.password = [hash |-> arg, version |-> c.password.version + 1]
        /\ n = ConfigOf(c.hosts, c.default, c.creds, c.profiles, c.agents, c.containers, n.password)
    BY <2>1, PasswordFacts
  <2>3. n.creds = c.creds /\ n.profiles = c.profiles
    BY <2>2 DEF ConfigOf
  <2> QED BY <1>8, <2>2, <2>3 DEF n
<1> QED BY <1>1, <1>2, <1>3, <1>4, <1>5, <1>6, <1>7, <1>8 DEF Asks

\* The list of hosts is empty when there is no host.
LEMMA NoHosts ==
  ASSUME NEW c, IsConfig(c) PROVE c.hosts = <<>> <=> HostsOf(c) = {}
<1>1. Len(c.hosts) \in Nat /\ DOMAIN c.hosts = 1..Len(c.hosts) /\ c.hosts \in Seq(HostsOf(c))
  BY HostsAre
<1>2. HostsOf(c) = {c.hosts[i] : i \in DOMAIN c.hosts}
  BY DEF HostsOf, ToSet
<1>3. CASE c.hosts = <<>>
  BY <1>2, <1>3
<1>4. CASE c.hosts # <<>>
  <2>1. 1 \in DOMAIN c.hosts
    BY <1>1, <1>4
  <2> QED BY <1>2, <1>4, <2>1
<1> QED BY <1>3, <1>4

\* A write that is right leaves a whole install whole.
LEMMA MutatedWhole ==
  ASSUME NEW c, IsConfig(c), Whole(c), NEW k, NEW op, NEW arg, Asks(k, op, arg), Right(c, k, op, arg)
  PROVE  Whole(Mutated(c, op, arg))
<1> DEFINE n == Mutated(c, op, arg)
<1>0. IsConfig(n)
  BY MutatedConfig
<1>a. c.hosts = <<>> <=> HostsOf(c) = {}
  BY NoHosts
<1>1. CASE op = "putHost"
  <2>1. arg \in HostRecords({arg.id}) /\ n = PutHost(c, arg)
    BY <1>1, MutatedIs DEF Asks
  <2> HIDE DEF n
  <2>2. /\ HostsOf(n) = {g \in HostsOf(c) : g.id # arg.id} \cup {arg}
        /\ n.default = IF c.default = None THEN arg.id ELSE c.default
        /\ n = ConfigOf(n.hosts, n.default, c.creds, c.profiles, c.agents, c.containers, c.password)
    BY <2>1, PutHostFacts
  <2>3. n.creds = c.creds /\ n.profiles = c.profiles /\ n.agents = c.agents /\ n.containers = c.containers
    BY <2>2 DEF ConfigOf
  <2>4. TakenIds(n) = TakenIds(c) \cup {arg.id}
    BY <2>2 DEF TakenIds, IdsOf
  <2>5. n.hosts # <<>>
    BY <1>0, <2>2, NoHosts DEF n
  <2>6. DefaultExists(n)
    BY <2>2, <2>4, <2>5 DEF Whole, DefaultExists
  <2>7. OneSocketHost(n)
    BY <1>1, <2>2 DEF Whole, OneSocketHost, Right
  <2>8. CredentialsExist(n)
    BY <1>1, <2>2, <2>3 DEF Whole, CredentialsExist, Right
  <2> QED BY <2>3, <2>6, <2>7, <2>8 DEF Whole, ProfilesExist, AgentsExist, n
<1>2. CASE op = "deleteHost"
  <2>1. n = DeleteHost(c, arg)
    BY <1>2, MutatedIs
  <2> HIDE DEF n
  <2>2. /\ HostsOf(n) = {g \in HostsOf(c) : g.id # arg}
        /\ DefaultExists(c) => DefaultExists(n)
        /\ n = ConfigOf(n.hosts, n.default, c.creds, c.profiles, c.agents, c.containers, c.password)
    BY <2>1, DeleteHostFacts
  <2>3. n.creds = c.creds /\ n.profiles = c.profiles /\ n.agents = c.agents /\ n.containers = c.containers
    BY <2>2 DEF ConfigOf
  <2> QED BY <2>2, <2>3 DEF Whole, OneSocketHost, CredentialsExist, ProfilesExist, AgentsExist, n
<1>3. CASE op = "setDefault"
  <2>1. n = SetDefaultHostId(c, arg) /\ arg \in TakenIds(c)
    BY <1>3, MutatedIs DEF Right
  <2> HIDE DEF n
  <2>2. n.default = arg /\ n = ConfigOf(c.hosts, n.default, c.creds, c.profiles, c.agents, c.containers, c.password)
    BY <2>1, SetDefaultFacts
  <2>3. /\ n.hosts = c.hosts /\ n.creds = c.creds /\ n.profiles = c.profiles
        /\ n.agents = c.agents /\ n.containers = c.containers
    BY <2>2 DEF ConfigOf
  <2>4. HostsOf(n) = HostsOf(c) /\ TakenIds(n) = TakenIds(c)
    BY <2>3 DEF HostsOf, TakenIds
  <2>5. c.hosts # <<>>
    BY <1>a, <2>1 DEF TakenIds, IdsOf
  <2>6. DefaultExists(n)
    BY <2>1, <2>2, <2>3, <2>4, <2>5 DEF DefaultExists
  <2> QED BY <2>3, <2>4, <2>6 DEF Whole, OneSocketHost, CredentialsExist, ProfilesExist, AgentsExist, n
<1>4. CASE op \in {"putCredential", "deleteCredential"}
  <2>1. op = "putCredential" => arg \in CredentialRecords({arg.id})
    BY DEF Asks
  <2>2. n = IF op = "putCredential" THEN PutCredential(c, arg) ELSE DeleteCredential(c, arg)
    BY <1>4, MutatedIs
  <2> HIDE DEF n
  <2>3. /\ n = ConfigOf(c.hosts, c.default, n.creds, c.profiles, c.agents, c.containers, c.password)
        /\ n.creds = IF op = "putCredential" THEN Put(c.creds, arg) ELSE Drop(c.creds, arg)
    BY <1>4, <2>1, <2>2, CredentialFacts
  <2>4. /\ n.hosts = c.hosts /\ n.default = c.default /\ n.profiles = c.profiles
        /\ n.agents = c.agents /\ n.containers = c.containers
    BY <2>3 DEF ConfigOf
  <2>5. HostsOf(n) = HostsOf(c) /\ TakenIds(n) = TakenIds(c)
    BY <2>4 DEF HostsOf, TakenIds
  <2>6. op = "deleteCredential" => \A h \in HostsOf(c) : ~(h.conn.type = "portainer" /\ h.conn.cred = arg)
    BY DEF Right, UsersOfCred
  <2>7. \A id \in IdsOf(c.creds) : id \in IdsOf(n.creds) \/ (op = "deleteCredential" /\ id = arg)
    BY <1>4, <2>3 DEF Put, Drop, IdsOf
  <2>8. CredentialsExist(n)
    BY <2>5, <2>6, <2>7 DEF Whole, CredentialsExist
  <2> QED BY <2>4, <2>5, <2>8 DEF Whole, DefaultExists, OneSocketHost, ProfilesExist, AgentsExist, n
<1>5. CASE op \in {"putProfile", "dropProfile"}
  <2>1. op = "putProfile" => arg \in ProfileRecords
    BY DEF Asks
  <2>2. n = IF op = "putProfile" THEN PutProfile(c, arg) ELSE DropProfile(c, arg)
    BY <1>5, MutatedIs
  <2> HIDE DEF n
  <2>3. /\ \E ps, ks : n = ConfigOf(c.hosts, c.default, c.creds, ps, c.agents, ks, c.password)
        /\ n.profiles = IF op = "putProfile" THEN Put(c.profiles, arg) ELSE Drop(c.profiles, arg)
        /\ op = "putProfile" => n = ConfigOf(c.hosts, c.default, c.creds, n.profiles, c.agents, c.containers, c.password)
        /\ op = "dropProfile" => n.containers = Stripped(c, arg)
    BY <1>5, <2>1, <2>2, ProfileFacts
  <2>4. /\ n.hosts = c.hosts /\ n.default = c.default /\ n.creds = c.creds /\ n.agents = c.agents
        /\ op = "putProfile" => n.containers = c.containers
    BY <2>3 DEF ConfigOf
  <2>5. HostsOf(n) = HostsOf(c) /\ TakenIds(n) = TakenIds(c)
    BY <2>4 DEF HostsOf, TakenIds
  <2>6. ProfilesExist(n) /\ AgentsExist(n)
    <3>1. CASE op = "putProfile"
      <4>1. IdsOf(c.profiles) \subseteq IdsOf(n.profiles)
        BY <2>3, <3>1 DEF Put, IdsOf
      <4> QED BY <2>4, <3>1, <4>1 DEF Whole, ProfilesExist, AgentsExist
    <3>2. CASE op = "dropProfile"
      <4>1. ASSUME NEW x \in n.containers
            PROVE  /\ x.profile = None \/ x.profile \in IdsOf(n.profiles)
                   /\ x.agents = None \/ x.agents \subseteq n.agents
        <5>1. PICK y \in c.containers : x = IF y.profile = arg THEN [y EXCEPT !.profile = None] ELSE y
          BY <2>3, <3>2 DEF Stripped
        <5>2. y \in ContainerRecords
          BY ListsAre
        <5>3. x.agents = y.agents /\ x.profile = IF y.profile = arg THEN None ELSE y.profile
          BY <5>1, <5>2 DEF ContainerRecords
        <5>4. y.profile = None \/ y.profile \in IdsOf(c.profiles)
          BY DEF Whole, ProfilesExist
        <5>5. y.agents = None \/ y.agents \subseteq c.agents
          BY DEF Whole, AgentsExist
        <5>6. y.profile \in IdsOf(c.profiles) /\ y.profile # arg => y.profile \in IdsOf(n.profiles)
          BY <2>3, <3>2 DEF Drop, IdsOf
        <5> QED BY <2>4, <5>3, <5>4, <5>5, <5>6
      <4> QED BY <4>1 DEF ProfilesExist, AgentsExist
    <3> QED BY <1>5, <3>1, <3>2
  <2> QED BY <2>4, <2>5, <2>6 DEF Whole, DefaultExists, OneSocketHost, CredentialsExist, n
<1>6. CASE op \in {"putAgent", "dropAgent"}
  <2>1. arg \in Agents
    BY <1>6 DEF Asks
  <2>2. CASE op = "putAgent"
    <3>1. n = PutAgent(c, arg)
      BY <2>2, MutatedIs
    <3> HIDE DEF n
    <3>2. /\ n.agents = c.agents \cup {arg}
          /\ n = ConfigOf(c.hosts, c.default, c.creds, c.profiles, n.agents, c.containers, c.password)
      BY <2>1, <3>1, AgentFacts
    <3>3. /\ n.hosts = c.hosts /\ n.default = c.default /\ n.creds = c.creds
          /\ n.profiles = c.profiles /\ n.containers = c.containers
      BY <3>2 DEF ConfigOf
    <3>4. HostsOf(n) = HostsOf(c) /\ TakenIds(n) = TakenIds(c)
      BY <3>3 DEF HostsOf, TakenIds
    <3>5. AgentsExist(n)
      BY <3>2, <3>3 DEF Whole, AgentsExist
    <3> QED BY <3>3, <3>4, <3>5 DEF Whole, DefaultExists, OneSocketHost, CredentialsExist, ProfilesExist, n
  <2>3. CASE op = "dropAgent"
    <3>1. n = DropAgent(c, arg)
      BY <2>3, MutatedIs
    <3> HIDE DEF n
    <3>2. /\ n.agents = c.agents \ {arg} /\ n.containers = WithoutAgent(c, arg)
          /\ HostsOf(n) = {Unlisted(h, arg) : h \in HostsOf(c)}
          /\ n = ConfigOf(n.hosts, c.default, c.creds, c.profiles, n.agents, n.containers, c.password)
      BY <2>1, <3>1, AgentFacts
    <3>3. n.default = c.default /\ n.creds = c.creds /\ n.profiles = c.profiles
      BY <3>2 DEF ConfigOf
    <3>4. \A h \in HostsOf(c) : Unlisted(h, arg).id = h.id /\ Unlisted(h, arg).conn = h.conn
      BY HostsAre DEF HostRecords, Unlisted
    <3>5. TakenIds(n) = TakenIds(c)
      BY <3>2, <3>4 DEF TakenIds, IdsOf
    <3>6. n.hosts = <<>> <=> c.hosts = <<>>
      BY <1>0, <1>a, <3>2, NoHosts DEF n
    <3>7. OneSocketHost(n) /\ CredentialsExist(n)
      BY <3>2, <3>3, <3>4 DEF Whole, OneSocketHost, CredentialsExist
    <3>8. ASSUME NEW x \in n.containers
          PROVE  /\ x.profile = None \/ x.profile \in IdsOf(n.profiles)
                 /\ x.agents = None \/ x.agents \subseteq n.agents
      <4>1. PICK y \in c.containers : x = IF y.agents = None THEN y ELSE Unlisted(y, arg)
        BY <3>2 DEF WithoutAgent
      <4>2. y \in ContainerRecords
        BY ListsAre
      <4>3. x.profile = y.profile /\ x.agents = IF y.agents = None THEN None ELSE y.agents \ {arg}
        BY <4>1, <4>2 DEF ContainerRecords, Unlisted
      <4>4. y.profile = None \/ y.profile \in IdsOf(c.profiles)
        BY DEF Whole, ProfilesExist
      <4>5. y.agents = None \/ y.agents \subseteq c.agents
        BY DEF Whole, AgentsExist
      <4> QED BY <3>2, <3>3, <4>3, <4>4, <4>5
    <3>9. DefaultExists(n)
      BY <3>3, <3>5, <3>6 DEF Whole, DefaultExists
    <3> QED BY <3>7, <3>8, <3>9 DEF Whole, ProfilesExist, AgentsExist, n
  <2> QED BY <1>6, <2>2, <2>3
<1>7. CASE op \in {"putContainer", "deleteContainer"}
  <2>1. op = "putContainer" => arg \in ContainerRecords
    BY DEF Asks
  <2>2. n = IF op = "putContainer" THEN PutContainer(c, arg) ELSE DeleteContainer(c, arg)
    BY <1>7, MutatedIs
  <2> HIDE DEF n
  <2>3. /\ n = ConfigOf(c.hosts, c.default, c.creds, c.profiles, c.agents, n.containers, c.password)
        /\ n.containers = IF op = "putContainer" THEN Put(c.containers, arg) ELSE Drop(c.containers, arg)
    BY <1>7, <2>1, <2>2, ContainerFacts
  <2>4. /\ n.hosts = c.hosts /\ n.default = c.default /\ n.creds = c.creds
        /\ n.profiles = c.profiles /\ n.agents = c.agents
    BY <2>3 DEF ConfigOf
  <2>5. HostsOf(n) = HostsOf(c) /\ TakenIds(n) = TakenIds(c)
    BY <2>4 DEF HostsOf, TakenIds
  <2>6. \A x \in n.containers : x \in c.containers \/ (op = "putContainer" /\ x = arg)
    BY <1>7, <2>3 DEF Put, Drop
  <2>7. ProfilesExist(n) /\ AgentsExist(n)
    BY <2>4, <2>6 DEF Whole, ProfilesExist, AgentsExist, Right
  <2> QED BY <2>4, <2>5, <2>7 DEF Whole, DefaultExists, OneSocketHost, CredentialsExist, n
<1>8. CASE op = "setPassword"
  <2>1. n = SetPassword(c, arg) /\ arg \in Passwords
    BY <1>8, MutatedIs DEF Asks
  <2> HIDE DEF n
  <2>2. n = ConfigOf(c.hosts, c.default, c.creds, c.profiles, c.agents, c.containers, n.password)
    BY <2>1, PasswordFacts
  <2>3. /\ n.hosts = c.hosts /\ n.default = c.default /\ n.creds = c.creds
        /\ n.profiles = c.profiles /\ n.agents = c.agents /\ n.containers = c.containers
    BY <2>2 DEF ConfigOf
  <2>4. HostsOf(n) = HostsOf(c) /\ TakenIds(n) = TakenIds(c)
    BY <2>3 DEF HostsOf, TakenIds
  <2> QED BY <2>3, <2>4 DEF Whole, DefaultExists, OneSocketHost, CredentialsExist, ProfilesExist, AgentsExist, n
<1> QED BY <1>1, <1>2, <1>3, <1>4, <1>5, <1>6, <1>7, <1>8 DEF Asks

\* The turn is the first caller's; those behind it wait for theirs.
LEMMA TurnIs ==
  ASSUME CatalogTypeOK, queue # <<>>
  PROVE  LET q == Tail(queue)
             c == Head(queue)[1]
         IN  /\ queue[1] = Head(queue) /\ 1 \in DOMAIN queue /\ c \in Clients
             /\ call[c] # NoCall /\ call[c].at = "queue" /\ CallTypeOK(call[c])
             /\ Asks(call[c], Head(queue)[2], Head(queue)[3])
             /\ q \in Seq(ToSet(q))
             /\ \A i \in DOMAIN q : i + 1 \in DOMAIN queue /\ q[i] = queue[i + 1] /\ q[i][1] # c
             /\ \A i, j \in DOMAIN q : q[i][1] = q[j][1] => i = j
<1> DEFINE q == Tail(queue)
           c == Head(queue)[1]
<1>1. QueueTypeOK /\ CallsTypeOK
  BY DEF CatalogTypeOK
<1>2. /\ q \in Seq(ToSet(q))
      /\ Len(queue) \in Nat \ {0} /\ DOMAIN queue = 1..Len(queue)
      /\ DOMAIN q = 1..(Len(queue) - 1)
      /\ \A i \in DOMAIN q : q[i] = queue[i + 1]
      /\ Head(queue) = queue[1]
  BY <1>1, TailHolds DEF QueueTypeOK
<1>3. 1 \in DOMAIN queue
  BY <1>2
<1> HIDE DEF q
<1>4. /\ c \in Clients /\ call[c] # NoCall /\ call[c].at = "queue"
      /\ Asks(call[c], Head(queue)[2], Head(queue)[3])
  BY <1>1, <1>2, <1>3 DEF QueueTypeOK
<1>5. CallTypeOK(call[c])
  BY <1>1, <1>4 DEF CallsTypeOK
<1>6. \A i \in DOMAIN q : i + 1 \in DOMAIN queue /\ i + 1 # 1 /\ i \in Nat
  BY <1>2
<1>7. \A i \in DOMAIN q : q[i][1] # c
  BY <1>1, <1>2, <1>3, <1>6 DEF QueueTypeOK
<1>8. \A i, j \in DOMAIN q : q[i][1] = q[j][1] => i = j
  <2>1. ASSUME NEW i \in DOMAIN q, NEW j \in DOMAIN q, q[i][1] = q[j][1] PROVE i = j
    <3>1. i + 1 = j + 1
      BY <1>1, <1>2, <1>6, <2>1 DEF QueueTypeOK
    <3> QED BY <1>6, <3>1
  <2> QED BY <2>1
<1> QED BY <1>2, <1>3, <1>4, <1>5, <1>6, <1>7, <1>8 DEF q

\* What a call asks for, as entries of the queue.
Entries(c, more) == [i \in DOMAIN more |-> <<c>> \o more[i]]

\* What the queue is when the call asks for one more write, and when it does not.
LEMMA QueueAfter ==
  ASSUME NEW s, s \in Seq(ToSet(s)), NEW c, NEW op, NEW arg, NEW m
  PROVE  /\ m = <<>> => s \o Entries(c, m) = s
         /\ m = <<<<op, arg>>>> => s \o Entries(c, m) = Append(s, <<c, op, arg>>)
<1>1. m = <<>> => [i \in DOMAIN m |-> <<c>> \o m[i]] = <<>>
  OBVIOUS
<1>2. s \o <<>> = s
  BY ConcatEmptySeq
<1>3. <<c>> \o <<op, arg>> = <<c, op, arg>>
  <2> DEFINE T == {c, op, arg}
             u == <<c>> \o <<op, arg>>
  <2>1. <<c>> \in Seq(T) /\ <<op, arg>> \in Seq(T) /\ <<c, op, arg>> \in Seq(T)
    OBVIOUS
  <2>2. Len(u) = 3 /\ u \in Seq(T) /\ u[1] = c /\ u[2] = op /\ u[3] = arg
    BY <2>1, ConcatProperties
  <2> HIDE DEF u, T
  <2>3. u = <<c, op, arg>>
    BY <2>1, <2>2, SeqEqual
  <2> QED BY <2>3 DEF u
<1> DEFINE e == <<c, op, arg>>
           t == [i \in DOMAIN m |-> <<c>> \o m[i]]
<1>4. m = <<<<op, arg>>>> => DOMAIN m = 1..1 /\ m[1] = <<op, arg>>
  OBVIOUS
<1>5. \A i \in 1..1 : i = 1
  OBVIOUS
<1>6. m = <<<<op, arg>>>> => t = [i \in 1..1 |-> e]
  BY <1>3, <1>4, <1>5
<1> HIDE DEF e, t
<1>7. m = <<<<op, arg>>>> => t = <<e>>
  BY <1>6
<1>8. s \o <<e>> = Append(s, e)
  <2>1. s \in Seq(ToSet(s) \cup {e}) /\ e \in ToSet(s) \cup {e}
    <3>1. PICK n \in Nat : s \in [1..n -> ToSet(s)]
      BY SeqDef
    <3>2. s \in [1..n -> ToSet(s) \cup {e}]
      BY <3>1
    <3> QED BY <3>2, SeqDef
  <2> QED BY <2>1, AppendIsConcat
<1> QED BY <1>1, <1>2, <1>7, <1>8 DEF e, t, Entries

\* A cut call is the same call, without its transport.
LEMMA CutIs ==
  ASSUME NEW cs, cs = [d \in Clients |-> cs[d]], \A d \in Clients : cs[d] = NoCall \/ CallTypeOK(cs[d]),
         NEW ids
  PROVE  LET n == Cut(cs, ids) IN
         /\ n = [d \in Clients |-> n[d]]
         /\ \A d \in Clients : cs[d] = NoCall => n[d] = NoCall
         /\ \A d \in Clients : cs[d] # NoCall =>
              /\ n[d] # NoCall /\ CallTypeOK(n[d]) /\ n[d].op = cs[d].op /\ n[d].at = cs[d].at /\ n[d].host = cs[d].host
              /\ cs[d].op \in {"view", "info"} \/ n[d] = cs[d]
              /\ cs[d].op \in {"view", "info"} => (n[d].cut <=> cs[d].cut \/ cs[d].host \in ids)
<1> DEFINE n == Cut(cs, ids)
<1>1. n = [d \in Clients |-> n[d]]
  BY DEF Cut
<1>2. \A d \in Clients : n[d] = IF cs[d] # NoCall /\ cs[d].op \in {"view", "info"} /\ cs[d].host \in ids
                                THEN [cs[d] EXCEPT !.cut = TRUE] ELSE cs[d]
  BY DEF Cut
<1> HIDE DEF n
<1>3. ASSUME NEW k, CallTypeOK(k)
      PROVE  LET e == [k EXCEPT !.cut = TRUE] IN
             CallTypeOK(e) /\ e.op = k.op /\ e.at = k.at /\ e.host = k.host /\ e.cut = TRUE /\ k.cut \in BOOLEAN
  <2> DEFINE e == [k EXCEPT !.cut = TRUE]
  <2>1. k \in [op : {k.op}, at : {k.at}, host : {k.host}, what : {k.what}, rest : {k.rest},
               of : {k.of}, cut : BOOLEAN]
    BY <1>3 DEF CallTypeOK
  <2>2. /\ e.op = k.op /\ e.at = k.at /\ e.host = k.host /\ e.what = k.what /\ e.rest = k.rest
        /\ e.cut = TRUE /\ k.cut \in BOOLEAN
        /\ e \in [op : {e.op}, at : {e.at}, host : {e.host}, what : {e.what}, rest : {e.rest},
                  of : {e.of}, cut : BOOLEAN]
    BY <2>1
  <2> HIDE DEF e
  <2>3. CallTypeOK(e)
    BY <1>3, <2>2 DEF CallTypeOK
  <2> QED BY <2>2, <2>3 DEF e
<1>4. \A k : CallTypeOK(k) => k # NoCall
  BY IdleIs DEF CallTypeOK
<1>5. ASSUME NEW d \in Clients, cs[d] # NoCall
      PROVE  /\ n[d] # NoCall /\ CallTypeOK(n[d]) /\ n[d].op = cs[d].op /\ n[d].at = cs[d].at /\ n[d].host = cs[d].host
             /\ cs[d].op \in {"view", "info"} \/ n[d] = cs[d]
             /\ cs[d].op \in {"view", "info"} => (n[d].cut <=> cs[d].cut \/ cs[d].host \in ids)
  <2>1. CallTypeOK(cs[d])
    BY <1>5
  <2>2. CASE cs[d].op \in {"view", "info"} /\ cs[d].host \in ids
    <3> DEFINE e == [cs[d] EXCEPT !.cut = TRUE]
    <3>1. n[d] = e
      BY <1>2, <1>5, <2>2
    <3>2. CallTypeOK(e) /\ e.op = cs[d].op /\ e.at = cs[d].at /\ e.host = cs[d].host /\ e.cut = TRUE
      BY <1>3, <2>1
    <3> HIDE DEF e
    <3> QED BY <1>4, <2>2, <3>1, <3>2
  <2>3. CASE ~(cs[d].op \in {"view", "info"} /\ cs[d].host \in ids)
    BY <1>2, <1>4, <1>5, <2>1, <2>3
  <2> QED BY <2>2, <2>3
<1> QED BY <1>1, <1>2, <1>5 DEF n

\* A call after a turn that was not its own.
Alike(k, e) ==
  /\ k = NoCall => e = NoCall
  /\ k # NoCall => /\ e # NoCall /\ CallTypeOK(e) /\ e.op = k.op /\ e.at = k.at /\ e.host = k.host
                 /\ (k.op \in {"view", "info"} \/ e = k)

\* The first caller's turn: its call becomes r, and it may ask for one more write.
Turn(r, op, arg) ==
  /\ queue # <<>> /\ IsConfig(cfg') /\ raced' = raced
  /\ call' = [d \in Clients |-> call'[d]] /\ call'[Head(queue)[1]] = r
  /\ \A d \in Clients : d # Head(queue)[1] => Alike(call[d], call'[d])
  /\ r = NoCall \/ CallTypeOK(r)
  /\ \/ queue' = Tail(queue) /\ r.at # "queue"
     \/ /\ queue' = Append(Tail(queue), <<Head(queue)[1], op, arg>>)
        /\ r # NoCall /\ r.at = "queue" /\ Asks(r, op, arg)
  /\ ~raced /\ Undisturbed =>
       /\ Whole(cfg')
       /\ r # NoCall => RightCall(cfg', r)
       /\ r.at = "queue" => Right(cfg', r, op, arg)

\* Those behind the first wait with the same writes.
LEMMA TurnQueue ==
  ASSUME CatalogTypeOK, NEW r, NEW op, NEW arg, Turn(r, op, arg)
  PROVE  QueueTypeOK'
<1> DEFINE q == Tail(queue)
           c == Head(queue)[1]
           e == <<c, op, arg>>
           Fine(x) == /\ x = <<x[1], x[2], x[3]>>
                      /\ x[1] \in Clients /\ call'[x[1]] # NoCall /\ call'[x[1]].at = "queue"
                      /\ Asks(call'[x[1]], x[2], x[3])
<1>1. /\ q \in Seq(ToSet(q)) /\ c \in Clients
      /\ \A i \in DOMAIN q : i + 1 \in DOMAIN queue /\ q[i] = queue[i + 1] /\ q[i][1] # c
      /\ \A i, j \in DOMAIN q : q[i][1] = q[j][1] => i = j
  BY TurnIs DEF Turn
<1>2. ASSUME NEW i \in DOMAIN q PROVE Fine(q[i])
  <2> DEFINE x == q[i]
  <2>1. /\ x = <<x[1], x[2], x[3]>> /\ x[1] \in Clients /\ x[1] # c
        /\ call[x[1]] # NoCall /\ call[x[1]].at = "queue" /\ Asks(call[x[1]], x[2], x[3])
    BY <1>1 DEF CatalogTypeOK, QueueTypeOK
  <2>2. call[x[1]].op \notin {"view", "info"}
    BY <2>1 DEF Asks
  <2>3. call'[x[1]] = call[x[1]]
    BY <2>1, <2>2 DEF Turn, Alike
  <2> QED BY <2>1, <2>3
<1> HIDE DEF q
<1>3. CASE queue' = q
  BY <1>1, <1>2, <1>3 DEF QueueTypeOK
<1>4. CASE queue' = Append(q, e) /\ r # NoCall /\ r.at = "queue" /\ Asks(r, op, arg)
  <2> DEFINE n == Len(q) + 1
  <2>1. Fine(e) /\ e[1] = c
    BY <1>1, <1>4 DEF Turn
  <2> HIDE DEF e
  <2>2. /\ queue' \in Seq(ToSet(queue')) /\ DOMAIN queue' = DOMAIN q \cup {n}
        /\ \A i \in DOMAIN q : queue'[i] = q[i]
        /\ queue'[n] = e /\ n \notin DOMAIN q
    BY <1>1, <1>4, AppendHolds
  <2> HIDE DEF n
  <2>3. \A i \in DOMAIN queue' : Fine(queue'[i])
    <3> HIDE DEF Fine
    <3> QED BY <1>2, <2>1, <2>2
  <2>4. \A i, j \in DOMAIN queue' : queue'[i][1] = queue'[j][1] => i = j
    BY <1>1, <2>1, <2>2
  <2> QED BY <2>2, <2>3, <2>4 DEF QueueTypeOK
<1> QED BY <1>3, <1>4 DEF Turn, q, e

\* A turn keeps the types; while nobody overlaps nobody is behind the first.
LEMMA TurnKeeps ==
  ASSUME CatalogTypeOK, raced \/ Undisturbed, NEW r, NEW op, NEW arg, Turn(r, op, arg)
  PROVE  CatalogTypeOK' /\ (raced' \/ Undisturbed')
<1> DEFINE c == Head(queue)[1]
<1>1. /\ c \in Clients /\ call[c] # NoCall /\ call[c].at = "queue" /\ CallTypeOK(call[c])
      /\ \A i \in DOMAIN Tail(queue) :
           i + 1 \in DOMAIN queue /\ Tail(queue)[i] = queue[i + 1] /\ Tail(queue)[i][1] # c
  BY TurnIs DEF Turn
<1>2. \A d \in Clients : call'[d] = NoCall \/ CallTypeOK(call'[d])
  BY DEF Turn, Alike
<1>3. CallsTypeOK' /\ IsConfig(cfg')
  BY <1>2 DEF CallsTypeOK, Turn
<1>4. ASSUME ~raced' PROVE Undisturbed'
  <2>1. ~raced /\ Undisturbed
    BY <1>4 DEF Turn
  <2>2. Writing(call[c])
    BY <1>1 DEF CallTypeOK, Writing
  <2>3. \A d \in Clients : d # c => ~Writing(call[d])
    BY <1>1, <2>1, <2>2 DEF Undisturbed
  <2>4. \A d \in Clients : d # c => ~Writing(call'[d])
    BY <2>3 DEF Turn, Alike, Writing
  <2>5. DOMAIN Tail(queue) = {}
    <3>1. ASSUME NEW i \in DOMAIN Tail(queue) PROVE FALSE
      <4>1. /\ Tail(queue)[i] = queue[i + 1] /\ i + 1 \in DOMAIN queue
            /\ queue[i + 1][1] # c
        BY <1>1
      <4>2. queue[i + 1][1] \in Clients /\ call[queue[i + 1][1]] # NoCall /\ call[queue[i + 1][1]].at = "queue"
        BY <4>1 DEF CatalogTypeOK, QueueTypeOK
      <4>3. Writing(call[queue[i + 1][1]])
        BY <4>2 DEF CatalogTypeOK, CallsTypeOK, CallTypeOK, Writing
      <4> QED BY <2>3, <4>1, <4>2, <4>3
    <3> QED BY <3>1
  <2>6. \A d \in Clients : call'[d] # NoCall => RightCall(cfg', call'[d])
    <3>1. ASSUME NEW d \in Clients, d # c, call'[d] # NoCall PROVE RightCall(cfg', call'[d])
      <4>1. CallTypeOK(call'[d]) /\ call'[d].op \in Reads
        BY <1>2, <2>4, <3>1 DEF Writing
      <4> QED BY <4>1 DEF CallTypeOK, RightCall, Reads
    <3> QED BY <2>1, <3>1 DEF Turn
  <2>7. \A i \in DOMAIN queue' : Right(cfg', call'[queue'[i][1]], queue'[i][2], queue'[i][3])
    <3>1. CASE queue' = Tail(queue)
      BY <2>5, <3>1
    <3>2. CASE queue' = Append(Tail(queue), <<c, op, arg>>) /\ r.at = "queue"
      <4> DEFINE e == <<c, op, arg>>
      <4>1. Tail(queue) \in Seq(ToSet(Tail(queue)))
        BY TurnIs DEF Turn
      <4>2. e[1] = c /\ e[2] = op /\ e[3] = arg
        OBVIOUS
      <4>3. queue' = Append(Tail(queue), e)
        BY <3>2
      <4> HIDE DEF e
      <4>4. \A i \in DOMAIN queue' : queue'[i] = e
        BY <2>5, <4>1, <4>3, AppendHolds
      <4>5. Right(cfg', r, op, arg)
        BY <2>1, <3>2 DEF Turn
      <4>6. call'[c] = r
        BY DEF Turn
      <4> QED BY <4>2, <4>4, <4>5, <4>6
    <3> QED BY <3>1, <3>2 DEF Turn
  <2>8. \A a, d \in Clients : Writing(call'[a]) /\ Writing(call'[d]) => a = d
    BY <2>4
  <2>9. Whole(cfg')
    BY <2>1 DEF Turn
  <2> QED BY <2>6, <2>7, <2>8, <2>9 DEF Undisturbed
<1> QED BY <1>3, <1>4, TurnQueue DEF CatalogTypeOK

\* A write that is refused ends its call.
LEMMA CommitFailsIs ==
  ASSUME CatalogTypeOK, CommitFails PROVE Turn(NoCall, None, None)
<1> DEFINE c == Head(queue)[1]
<1>1. /\ queue # <<>> /\ queue' = Tail(queue) /\ call' = [call EXCEPT ![c] = NoCall]
      /\ cfg' = cfg /\ raced' = raced
  BY DEF CommitFails
<1>2. c \in Clients
  BY <1>1, TurnIs
<1>3. CallsTypeOK /\ IsConfig(cfg')
  BY <1>1 DEF CatalogTypeOK
<1>4. /\ call' = [d \in Clients |-> call'[d]] /\ call'[c] = NoCall
      /\ \A d \in Clients : d # c => call'[d] = call[d]
  BY <1>1, <1>2, <1>3 DEF CallsTypeOK
<1>5. \A d \in Clients : d # c => Alike(call[d], call'[d])
  BY <1>3, <1>4 DEF CallsTypeOK, Alike
<1>6. Undisturbed => Whole(cfg')
  BY <1>1 DEF Undisturbed
<1> QED BY <1>1, <1>3, <1>4, <1>5, <1>6, IdleIs DEF Turn

\* The call between its writes, or after its last one.
LEMMA ResumedIs ==
  ASSUME NEW k, CallTypeOK(k), k.at = "queue"
  PROVE  LET r == Resumed(k) IN
         /\ k.rest # <<>> => /\ CallTypeOK(r) /\ r.at = "queue" /\ r.op = k.op /\ r.host = k.host
                             /\ r.what = k.what /\ r.rest = Tail(k.rest)
         /\ r # NoCall => r.cut = k.cut
         /\ k.rest = <<>> => \/ r = NoCall
                             \/ /\ k.op = "removeProfile" /\ k.what.volume # None
                                /\ CallTypeOK(r) /\ r.at = "volumes" /\ r.op = k.op /\ r.what = k.what
<1>1. k \in [op : {k.op}, at : {k.at}, host : {k.host}, what : {k.what}, rest : {k.rest},
             of : {k.of}, cut : BOOLEAN]
  BY DEF CallTypeOK
<1>2. CASE k.rest # <<>>
  <2> DEFINE r == [k EXCEPT !.rest = Tail(k.rest)]
  <2>1. Resumed(k) = r
    BY <1>2 DEF Resumed
  <2>2. /\ r.op = k.op /\ r.at = k.at /\ r.host = k.host /\ r.what = k.what /\ r.rest = Tail(k.rest)
        /\ r.cut = k.cut
        /\ r \in [op : {r.op}, at : {r.at}, host : {r.host}, what : {r.what}, rest : {r.rest},
                  of : {r.of}, cut : BOOLEAN]
    BY <1>1
  <2>3. CASE k.op = "import"
    <3>1. k.rest \in Seq(Endpoints)
      BY <2>3 DEF CallTypeOK
    <3>2. r.rest \in Seq(Endpoints)
      BY <1>2, <2>2, <3>1
    <3> HIDE DEF r
    <3>3. CallTypeOK(r)
      BY <2>2, <2>3, <3>2 DEF CallTypeOK
    <3> QED BY <1>2, <2>1, <2>2, <3>3
  <2>4. CASE k.op # "import"
    <3>1. k.rest = <<<<"setDefault", k.host>>>>
      BY <1>2, <2>4 DEF CallTypeOK
    <3>2. r.rest = <<>>
      BY <2>2, <3>1
    <3> HIDE DEF r
    <3>3. CallTypeOK(r)
      BY <2>2, <2>4, <3>2 DEF CallTypeOK
    <3> QED BY <1>2, <2>1, <2>2, <3>3
  <2> QED BY <2>3, <2>4
<1>3. CASE k.rest = <<>> /\ k.op = "removeProfile" /\ k.what.volume # None
  <2> DEFINE r == [k EXCEPT !.at = "volumes"]
  <2>1. Resumed(k) = r
    BY <1>3 DEF Resumed
  <2>2. /\ r.op = k.op /\ r.at = "volumes" /\ r.host = k.host /\ r.what = k.what /\ r.rest = k.rest
        /\ r.cut = k.cut
        /\ r \in [op : {r.op}, at : {r.at}, host : {r.host}, what : {r.what}, rest : {r.rest},
                  of : {r.of}, cut : BOOLEAN]
    BY <1>1
  <2> HIDE DEF r
  <2>3. CallTypeOK(r)
    BY <1>3, <2>2 DEF CallTypeOK, Reads
  <2> QED BY <1>3, <2>1, <2>2, <2>3
<1>4. CASE k.rest = <<>> /\ ~(k.op = "removeProfile" /\ k.what.volume # None)
  BY <1>4 DEF Resumed
<1> QED BY <1>2, <1>3, <1>4

\* What the step does to the calls: the caller's goes on, the others may be cut.
LEMMA CommitCalls ==
  ASSUME CatalogTypeOK, Commit
  PROVE  LET c == Head(queue)[1]
             k == call[c]
             drop == Stale(cfg') \cup DropAfter(k)
         IN  /\ call' = Cut([call EXCEPT ![c] = Resumed(k)], drop)
             /\ call' = [d \in Clients |-> call'[d]] /\ call'[c] = Resumed(k)
             /\ Resumed(k) = NoCall \/ (CallTypeOK(Resumed(k)) /\ Resumed(k) # NoCall)
             /\ \A d \in Clients : d # c => Alike(call[d], call'[d])
             /\ \A d \in Clients : d # c /\ call[d] # NoCall /\ call[d].op \in {"view", "info"} =>
                  (call'[d].cut <=> call[d].cut \/ call[d].host \in drop)
<1> DEFINE c == Head(queue)[1]
           k == call[c]
           r == Resumed(k)
           cs == [call EXCEPT ![c] = r]
           drop == Stale(cfg') \cup DropAfter(k)
<1>1. call' = Cut(cs, drop) /\ queue # <<>>
  BY DEF Commit
<1>2. /\ c \in Clients /\ k # NoCall /\ k.at = "queue" /\ CallTypeOK(k)
  BY <1>1, TurnIs
<1> HIDE DEF k, drop
<1>3. r = NoCall \/ (CallTypeOK(r) /\ r.op = k.op)
  BY <1>2, ResumedIs
<1>4. k.op \notin Reads
  BY <1>2 DEF CallTypeOK
<1> HIDE DEF r
<1>5. CallsTypeOK
  BY DEF CatalogTypeOK
<1>6. /\ cs = [d \in Clients |-> cs[d]] /\ cs[c] = r
      /\ \A d \in Clients : d # c => cs[d] = call[d]
  BY <1>2, <1>5 DEF CallsTypeOK
<1> HIDE DEF cs, c
<1>7. \A d \in Clients : cs[d] = NoCall \/ CallTypeOK(cs[d])
  BY <1>3, <1>5, <1>6 DEF CallsTypeOK
<1>8. /\ call' = [d \in Clients |-> call'[d]]
      /\ \A d \in Clients : cs[d] = NoCall => call'[d] = NoCall
      /\ \A d \in Clients : cs[d] # NoCall =>
           /\ call'[d] # NoCall /\ CallTypeOK(call'[d]) /\ call'[d].op = cs[d].op
           /\ call'[d].at = cs[d].at /\ call'[d].host = cs[d].host
           /\ cs[d].op \in {"view", "info"} \/ call'[d] = cs[d]
           /\ cs[d].op \in {"view", "info"} => (call'[d].cut <=> cs[d].cut \/ cs[d].host \in drop)
  BY <1>1, <1>6, <1>7, CutIs
<1>9. call'[c] = r
  BY <1>2, <1>3, <1>4, <1>6, <1>8 DEF c, Reads
<1>10. \A d \in Clients : d # c => Alike(call[d], call'[d])
  BY <1>6, <1>8 DEF Alike
<1>11. r = NoCall \/ (CallTypeOK(r) /\ r # NoCall)
  BY <1>3, IdleIs DEF CallTypeOK
<1>12. \A d \in Clients : d # c /\ call[d] # NoCall /\ call[d].op \in {"view", "info"} =>
         (call'[d].cut <=> call[d].cut \/ call[d].host \in drop)
  BY <1>6, <1>8
<1> QED BY <1>1, <1>8, <1>9, <1>10, <1>11, <1>12 DEF c, k, r, cs, drop

\* And to the queue.
LEMMA CommitQueue ==
  ASSUME CatalogTypeOK, Commit
  PROVE  LET c == Head(queue)[1]
             k == call[c]
             e == IF k.op = "import" THEN ImportOne(cfg', k.what.cred, Head(k.rest)) ELSE k.host
         IN  /\ k.rest = <<>> => queue' = Tail(queue)
             /\ k.rest # <<>> /\ k.op = "import" => queue' = Append(Tail(queue), <<c, "putHost", e>>)
             /\ k.rest # <<>> /\ k.op # "import" => queue' = Append(Tail(queue), <<c, "setDefault", e>>)
<1> DEFINE c == Head(queue)[1]
           k == call[c]
           more == Follow(cfg', k)
           s == Tail(queue)
<1>1. queue # <<>> /\ queue' = s \o Entries(c, more)
  BY DEF Commit, Entries
<1>2. CallTypeOK(k) /\ s \in Seq(ToSet(s))
  BY <1>1, TurnIs
<1> HIDE DEF k, c, s
<1>3. more = IF k.rest = <<>> THEN <<>>
             ELSE IF k.op = "import" THEN <<<<"putHost", ImportOne(cfg', k.what.cred, Head(k.rest))>>>>
             ELSE <<Head(k.rest)>>
  BY DEF Follow
<1> HIDE DEF more
<1>4. ASSUME NEW op, NEW arg, more = <<<<op, arg>>>> PROVE queue' = Append(s, <<c, op, arg>>)
  BY <1>1, <1>2, <1>4, QueueAfter
<1>5. k.rest = <<>> => queue' = s
  BY <1>1, <1>2, <1>3, QueueAfter
<1>6. k.rest # <<>> /\ k.op = "import" =>
        queue' = Append(s, <<c, "putHost", ImportOne(cfg', k.what.cred, Head(k.rest))>>)
  BY <1>3, <1>4, Zenon
<1>7. k.rest # <<>> /\ k.op # "import" => queue' = Append(s, <<c, "setDefault", k.host>>)
  <2>1. ASSUME k.rest # <<>>, k.op # "import" PROVE more = <<<<"setDefault", k.host>>>>
    <3>1. k.rest = <<<<"setDefault", k.host>>>>
      BY <1>2, <2>1 DEF CallTypeOK
    <3> QED BY <1>3, <2>1, <3>1
  <2> QED BY <1>4, <2>1, Zenon
<1>8. /\ k.op = "import" => (IF k.op = "import" THEN ImportOne(cfg', k.what.cred, Head(k.rest)) ELSE k.host)
                              = ImportOne(cfg', k.what.cred, Head(k.rest))
      /\ k.op # "import" => (IF k.op = "import" THEN ImportOne(cfg', k.what.cred, Head(k.rest)) ELSE k.host)
                              = k.host
  OBVIOUS
<1> QED BY <1>5, <1>6, <1>7, <1>8, Zenon DEF k, c, s

\* What a write leaves of what its caller still has to do.
LEMMA CommitRight ==
  ASSUME CatalogTypeOK, Commit, Undisturbed
  PROVE  LET k == call[Head(queue)[1]] IN
         /\ Whole(cfg')
         /\ k.op = "import" => k.what.cred \in IdsOf(cfg'.creds)
         /\ k.op # "import" /\ k.rest # <<>> => k.host \in TakenIds(cfg')
         /\ k.op = "removeProfile" /\ k.what.volume # None =>
              \A p \in cfg'.profiles : LoginSet(p) # k.what.volume
<1> DEFINE c == Head(queue)[1]
           k == call[c]
           op == Head(queue)[2]
           arg == Head(queue)[3]
<1>1. /\ queue # <<>> /\ cfg' = Mutated(cfg, op, arg) /\ IsConfig(cfg)
  BY DEF Commit, CatalogTypeOK
<1>2. /\ 1 \in DOMAIN queue /\ queue[1] = Head(queue)
      /\ c \in Clients /\ k # NoCall /\ CallTypeOK(k) /\ Asks(k, op, arg)
  BY <1>1, TurnIs
<1>3. /\ Whole(cfg) /\ Right(cfg, k, op, arg) /\ RightCall(cfg, k)
  BY <1>2 DEF Undisturbed
<1> HIDE DEF c, k, op, arg
<1>4. Whole(cfg')
  BY <1>1, <1>2, <1>3, MutatedWhole
<1>5. ASSUME k.op = "import" PROVE k.what.cred \in IdsOf(cfg'.creds)
  <2>1. op = "putHost"
    BY <1>2, <1>5 DEF Asks
  <2>2. cfg'.creds = cfg.creds
    BY <1>1, <1>2, <2>1, MutatedConfig
  <2> QED BY <1>3, <1>5, <2>2 DEF RightCall
<1>6. ASSUME k.op # "import", k.rest # <<>> PROVE k.host \in TakenIds(cfg')
  <2>1. k.op \in {"create", "update"}
    BY <1>2, <1>6 DEF CallTypeOK
  <2>2. op = "putHost" /\ arg \in HostRecords({arg.id}) /\ arg.id = k.host
    BY <1>2, <1>6, <2>1 DEF Asks
  <2>3. cfg' = PutHost(cfg, arg)
    BY <1>1, <2>2, MutatedIs
  <2>4. arg \in HostsOf(cfg')
    BY <1>1, <2>2, <2>3, PutHostFacts
  <2> QED BY <2>2, <2>4 DEF TakenIds, IdsOf
<1>7. ASSUME k.op = "removeProfile", k.what.volume # None
      PROVE  \A p \in cfg'.profiles : LoginSet(p) # k.what.volume
  <2>1. op = "dropProfile"
    BY <1>2, <1>7 DEF Asks
  <2>2. cfg' = DropProfile(cfg, arg)
    BY <1>1, <2>1, MutatedIs
  <2>3. cfg'.profiles = Drop(cfg.profiles, arg)
    BY <1>1, <2>2, ProfileFacts
  <2> QED BY <1>3, <1>7, <2>1, <2>3 DEF Right, Drop
<1> QED BY <1>4, <1>5, <1>6, <1>7 DEF k, c

\* A commit is such a turn.
LEMMA CommitIs ==
  ASSUME CatalogTypeOK, Commit PROVE \E r, op, arg : Turn(r, op, arg)
<1> DEFINE c == Head(queue)[1]
           k == call[c]
           r == Resumed(k)
           host == ImportOne(cfg', k.what.cred, Head(k.rest))
<1>1. /\ queue # <<>> /\ raced' = raced /\ cfg' = Mutated(cfg, Head(queue)[2], Head(queue)[3])
      /\ IsConfig(cfg)
  BY DEF Commit, CatalogTypeOK
<1>2. k.at = "queue" /\ CallTypeOK(k) /\ Asks(k, Head(queue)[2], Head(queue)[3])
  BY <1>1, TurnIs
<1>3. IsConfig(cfg')
  BY <1>1, <1>2, MutatedConfig
<1>4. /\ call' = [d \in Clients |-> call'[d]] /\ call'[c] = r
      /\ r = NoCall \/ (CallTypeOK(r) /\ r # NoCall)
      /\ \A d \in Clients : d # c => Alike(call[d], call'[d])
  BY CommitCalls
<1>5. Undisturbed =>
        /\ Whole(cfg')
        /\ k.op = "import" => k.what.cred \in IdsOf(cfg'.creds)
        /\ k.op # "import" /\ k.rest # <<>> => k.host \in TakenIds(cfg')
        /\ k.op = "removeProfile" /\ k.what.volume # None =>
             \A p \in cfg'.profiles : LoginSet(p) # k.what.volume
  BY CommitRight
<1>6. /\ k.rest = <<>> => queue' = Tail(queue)
      /\ k.rest # <<>> /\ k.op = "import" => queue' = Append(Tail(queue), <<c, "putHost", host>>)
      /\ k.rest # <<>> /\ k.op # "import" => queue' = Append(Tail(queue), <<c, "setDefault", k.host>>)
  BY CommitQueue
<1>7. /\ k.rest # <<>> => /\ r.at = "queue" /\ r.op = k.op /\ r.host = k.host
                          /\ r.what = k.what /\ r.rest = Tail(k.rest) /\ r # NoCall
      /\ k.rest = <<>> => \/ r = NoCall
                          \/ /\ k.op = "removeProfile" /\ k.what.volume # None
                             /\ r.at = "volumes" /\ r.op = k.op /\ r.what = k.what
  <2>1. k.rest # <<>> => CallTypeOK(r) /\ r.at = "queue"
    BY <1>2, ResumedIs
  <2>2. k.rest # <<>> => r # NoCall
    BY <2>1, IdleIs
  <2> QED BY <1>2, <2>2, ResumedIs
<1> HIDE DEF k, r, host
<1>8. CASE k.rest = <<>>
  <2>1. r.at # "queue"
    BY <1>7, <1>8, IdleIs
  <2>2. Undisturbed /\ r # NoCall => RightCall(cfg', r)
    BY <1>5, <1>7, <1>8 DEF RightCall
  <2>3. Turn(r, None, None)
    BY <1>1, <1>3, <1>4, <1>5, <1>6, <1>8, <2>1, <2>2 DEF Turn
  <2> QED BY <2>3
<1>9. CASE k.rest # <<>> /\ k.op = "import"
  <2>1. k.what.cred \in Creds /\ Head(k.rest) \in Endpoints
    BY <1>2, <1>9 DEF CallTypeOK
  <2>2. /\ host \in HostRecords({host.id})
        /\ host.conn = [type |-> "portainer", cred |-> k.what.cred, endpoint |-> Head(k.rest)]
    BY <1>3, <2>1, ImportOneIs DEF host
  <2>3. host.conn.type = "portainer" /\ host.conn.cred = k.what.cred
    BY <2>2
  <2>4. Asks(r, "putHost", host)
    BY <1>7, <1>9, <2>2 DEF Asks
  <2>5. Undisturbed => RightCall(cfg', r) /\ Right(cfg', r, "putHost", host)
    BY <1>5, <1>7, <1>9, <2>3 DEF Right, RightCall
  <2>6. Turn(r, "putHost", host)
    BY <1>1, <1>3, <1>4, <1>5, <1>6, <1>7, <1>9, <2>4, <2>5 DEF Turn
  <2> QED BY <2>6
<1>10. CASE k.rest # <<>> /\ k.op # "import"
  <2>1. k.rest = <<<<"setDefault", k.host>>>> /\ k.op \in {"create", "update"}
    BY <1>2, <1>10 DEF CallTypeOK
  <2>2. r.rest = <<>>
    BY <1>7, <2>1
  <2>3. Asks(r, "setDefault", k.host)
    BY <1>7, <1>10, <2>1, <2>2 DEF Asks
  <2>4. Undisturbed => RightCall(cfg', r) /\ Right(cfg', r, "setDefault", k.host)
    BY <1>5, <1>7, <1>10 DEF Right, RightCall
  <2>5. Turn(r, "setDefault", k.host)
    BY <1>1, <1>3, <1>4, <1>5, <1>6, <1>7, <1>10, <2>3, <2>4 DEF Turn
  <2> QED BY <2>5
<1> QED BY <1>8, <1>9, <1>10

-----------------------------------------------------------------------------
(* Transports. *)

\* backendFor() leaves the transport that would be built now, and no other changes.
LEMMA BackendIs ==
  ASSUME IsConfig(cfg), CacheOK, NEW id \in HostIds, BackendFor(id), cfg' = cfg
  PROVE  CacheOK' /\ cache'[id] # None /\ \A h \in HostIds : cache[h] # None => cache'[h] # None
<1> DEFINE host == HostNamed(cfg, id)
           print == Fingerprint(cfg, host.conn)
           of == ResolvedHost(cfg, id)
           built == [print |-> print, of |-> of]
<1>1. /\ of # None
      /\ cache' = [cache EXCEPT ![id] = IF cache[id] # None /\ cache[id].print = print
                                        THEN cache[id] ELSE built]
  BY DEF BackendFor
<1>2. id \in TakenIds(cfg) /\ of = Resolved(cfg, host.conn)
  BY <1>1 DEF ResolvedHost
<1>3. host.conn \in Conns
  <2>1. host \in HostRecords({id})
    BY <1>2, HostFound
  <2> HIDE DEF host
  <2> QED BY <2>1 DEF HostRecords
<1>4. KeyOf(cfg, host.conn) \in Keys \cup {None}
  <2>1. CASE host.conn.cred \in IdsOf(cfg.creds)
    <3>1. Named(cfg.creds, host.conn.cred) \in cfg.creds
      BY <2>1 DEF IdsOf, Named
    <3>2. Named(cfg.creds, host.conn.cred) \in CredentialRecords(IdsOf(cfg.creds))
      BY <3>1, ListsAre
    <3>3. Named(cfg.creds, host.conn.cred).key \in Keys
      BY <3>2 DEF CredentialRecords
    <3> QED BY <3>3 DEF KeyOf
  <2>2. CASE host.conn.cred \notin IdsOf(cfg.creds)
    BY <2>2 DEF KeyOf
  <2> QED BY <2>1, <2>2
<1> HIDE DEF host
<1>5. print \in Prints
  BY <1>3, <1>4 DEF Prints, Fingerprint
<1>6. of \in Origins
  <2>1. CASE host.conn.type # "portainer"
    BY <1>2, <1>3, <2>1 DEF Resolved, Origins
  <2>2. CASE host.conn.type = "portainer"
    <3>1. host.conn \in [type : {"portainer"}, cred : Creds, endpoint : Endpoints]
      BY <1>3, <2>2 DEF Conns
    <3>2. host.conn.endpoint \in Endpoints
      BY <3>1
    <3>3. of = [type |-> "portainer", key |-> KeyOf(cfg, host.conn), endpoint |-> host.conn.endpoint]
      BY <1>1, <1>2, <2>2 DEF Resolved
    <3>4. KeyOf(cfg, host.conn) \in Keys
      BY <1>1, <1>2, <1>4, <2>2 DEF Resolved
    <3> HIDE DEF of
    <3> QED BY <3>2, <3>3, <3>4 DEF Origins
  <2> QED BY <2>1, <2>2
<1> HIDE DEF print, of
<1>7. built # None
  BY <1>5, <1>6, CatalogAssumption
<1>8. cache[id] # None => cache[id] = built
  BY <1>2 DEF CacheOK, host, print, of
<1> HIDE DEF built
<1>9. cache' = [h \in HostIds |-> cache'[h]] /\ cache'[id] = built
      /\ \A h \in HostIds : h # id => cache'[h] = cache[h]
  BY <1>1, <1>8 DEF CacheOK
<1>10. CacheOK'
  <2>1. ASSUME NEW h \in HostIds, cache'[h] # None
        PROVE  /\ h \in TakenIds(cfg')
               /\ cache'[h] = [print |-> Fingerprint(cfg', HostNamed(cfg', h).conn),
                               of |-> ResolvedHost(cfg', h)]
    <3>1. CASE h = id
      BY <1>2, <1>9, <3>1 DEF built, print, of, host
    <3>2. CASE h # id
      BY <1>9, <2>1, <3>2 DEF CacheOK
    <3> QED BY <3>1, <3>2
  <2> QED BY <1>9, <2>1 DEF CacheOK
<1> QED BY <1>7, <1>9, <1>10

\* A step of a client that drops no transport.
LEMMA OrdinaryHolds ==
  ASSUME CatalogTypeOK, Holding, NEW c, Ordinary(c),
         \A h \in HostIds : cache[h] # None => cache'[h] # None
  PROVE  Holding'
<1>1. ASSUME NEW k, Becomes(c, k),
             k.op \in {"view", "info"} => k.host \in HostIds /\ cache'[k.host] # None
      PROVE  Holding'
  <2>1. call'[c] = k /\ \A d \in Clients : d # c => call'[d] = call[d]
    BY <1>1, BecomesCalls DEF CatalogTypeOK
  <2>2. ASSUME NEW d \in Clients, call'[d] # NoCall, call'[d].op \in {"view", "info"}, ~call'[d].cut
        PROVE  call'[d].host \in HostIds /\ cache'[call'[d].host] # None
    <3>1. CASE d = c
      BY <1>1, <2>1, <2>2, <3>1
    <3>2. CASE d # c
      BY <2>1, <2>2, <3>2 DEF Holding
    <3> QED BY <3>1, <3>2
  <2> QED BY <2>2 DEF Holding
<1>2. ASSUME NEW k, NEW op, NEW arg, Queues(c, k, op, arg) PROVE k.op \notin {"view", "info"}
  BY <1>2, IdleIs DEF Queues, Becomes, CallTypeOK, Reads
<1>3. ASSUME call' = call PROVE Holding'
  BY <1>3 DEF Holding
<1> QED BY <1>1, <1>2, <1>3 DEF Ordinary, Rests, Queues

\* What a write's turn drops, and what it leaves.
LEMMA CommitCache ==
  ASSUME CatalogTypeOK, CacheOK, Commit
  PROVE  /\ CacheOK'
         /\ LET drop == Stale(cfg') \cup DropAfter(call[Head(queue)[1]]) IN
            \A h \in HostIds : cache'[h] = IF h \in drop THEN None ELSE cache[h]
<1> DEFINE drop == Stale(cfg') \cup DropAfter(call[Head(queue)[1]])
<1>1. cache' = [h \in HostIds |-> IF h \in drop THEN None ELSE cache[h]]
  BY DEF Commit, Invalidate
<1>2. Stale(cfg') \subseteq drop
  OBVIOUS
<1> HIDE DEF drop
<1>3. \A h \in HostIds : cache'[h] = IF h \in drop THEN None ELSE cache[h]
  BY <1>1
<1>4. ASSUME NEW h \in HostIds, cache'[h] # None
      PROVE  /\ h \in TakenIds(cfg')
             /\ cache'[h] = [print |-> Fingerprint(cfg', HostNamed(cfg', h).conn),
                             of |-> ResolvedHost(cfg', h)]
  <2> DEFINE old == HostNamed(cfg, h).conn
             new == HostNamed(cfg', h).conn
  <2>1. h \notin Stale(cfg') /\ cache'[h] = cache[h] /\ cache[h] # None
    BY <1>2, <1>3, <1>4
  <2>2. h \in TakenIds(cfg') /\ Fingerprint(cfg', new) = cache[h].print
    BY <2>1 DEF Stale
  <2>3. h \in TakenIds(cfg) /\ cache[h] = [print |-> Fingerprint(cfg, old), of |-> ResolvedHost(cfg, h)]
    BY <2>1 DEF CacheOK
  <2>4. ResolvedHost(cfg, h) = Resolved(cfg, old) /\ ResolvedHost(cfg', h) = Resolved(cfg', new)
    BY <2>2, <2>3 DEF ResolvedHost
  <2> HIDE DEF old, new
  <2>5. Fingerprint(cfg', new) = Fingerprint(cfg, old)
    BY <2>2, <2>3
  <2>6. new = old /\ KeyOf(cfg', new) = KeyOf(cfg, old)
    BY <2>5 DEF Fingerprint
  <2>7. Resolved(cfg', new) = Resolved(cfg, old)
    BY <2>6 DEF Resolved
  <2> QED BY <2>1, <2>2, <2>3, <2>4, <2>5, <2>7 DEF new
<1>5. CacheOK'
  BY <1>1, <1>4 DEF CacheOK
<1> QED BY <1>3, <1>5 DEF drop

\* A call whose transport was dropped is cut.
LEMMA CommitHolds ==
  ASSUME CatalogTypeOK, CacheOK, Holding, Commit PROVE Holding'
<1> DEFINE c == Head(queue)[1]
           k == call[c]
           drop == Stale(cfg') \cup DropAfter(k)
<1>1. /\ call'[c] = Resumed(k) /\ \A d \in Clients : d # c => Alike(call[d], call'[d])
      /\ \A d \in Clients : d # c /\ call[d] # NoCall /\ call[d].op \in {"view", "info"} =>
           (call'[d].cut <=> call[d].cut \/ call[d].host \in drop)
  BY CommitCalls
<1>2. \A h \in HostIds : cache'[h] = IF h \in drop THEN None ELSE cache[h]
  BY CommitCache
<1>3. c \in Clients /\ k # NoCall /\ k.at = "queue" /\ CallTypeOK(k)
  BY TurnIs DEF Commit
<1> HIDE DEF drop, c, k
<1>4. ASSUME NEW d \in Clients, call'[d] # NoCall, call'[d].op \in {"view", "info"}, ~call'[d].cut
      PROVE  call'[d].host \in HostIds /\ cache'[call'[d].host] # None
  <2>1. CASE d = c
    <3>1. Resumed(k) = NoCall \/ Resumed(k).op = k.op
      BY <1>3, ResumedIs
    <3>2. k.op \notin {"view", "info"}
      BY <1>3 DEF CallTypeOK, Reads
    <3> QED BY <1>1, <1>4, <2>1, <3>1, <3>2
  <2>2. CASE d # c
    <3>1. call[d] # NoCall /\ call[d].op = call'[d].op /\ call[d].host = call'[d].host
      BY <1>1, <1>4, <2>2 DEF Alike
    <3>2. ~call[d].cut /\ call[d].host \notin drop
      BY <1>1, <1>4, <2>2, <3>1
    <3> QED BY <1>2, <1>4, <3>1, <3>2 DEF Holding
  <2> QED BY <2>1, <2>2
<1> QED BY <1>4 DEF Holding

-----------------------------------------------------------------------------
(* What a step may be, and that every step keeps the invariant. *)

Quiet(c) ==
  /\ Ordinary(c) /\ CacheOK' /\ CookiesOK'
  /\ \A h \in HostIds : cache[h] # None => cache'[h] # None

\* A step that leaves cache and cookies alone.
LEMMA QuietIs ==
  ASSUME IInv, NEW c, Ordinary(c), UNCHANGED <<cache, cookies, ended>> PROVE Quiet(c)
<1>1. cfg' = cfg
  BY DEF Ordinary, Rests, Queues, Becomes
<1>2. CacheOK' /\ CookiesOK'
  BY <1>1 DEF IInv, CacheOK, CookiesOK
<1> QED BY <1>2 DEF Quiet

\* A call gets the cached transport, or the one it caches.
LEMMA UseQuiet ==
  ASSUME IInv, NEW c \in Clients, NEW id \in HostIds, NEW op \in {"info", "view"},
         Use(c, id, op), UNCHANGED sideVars
  PROVE  Quiet(c)
<1> DEFINE of == ResolvedHost(cfg, id)
<1>1. /\ BeginRead(c) /\ BackendFor(id)
      /\ call' = [call EXCEPT ![c] = [Call(op, "engine", id) EXCEPT !.of = of]]
      /\ UNCHANGED <<cfg, queue>> /\ cookies' = cookies /\ ended' = ended
  BY DEF Use, sideVars
<1> HIDE DEF of
<1>2. CacheOK' /\ cache'[id] # None /\ \A h \in HostIds : cache[h] # None => cache'[h] # None
  BY <1>1, BackendIs DEF IInv, CatalogTypeOK
<1>3. Ordinary(c)
  BY <1>1, <1>2, UseIs
<1>4. CookiesOK'
  BY <1>1 DEF IInv, CookiesOK
<1> QED BY <1>2, <1>3, <1>4 DEF Quiet

\* test() has a transport of its own, or none.
LEMMA TestQuiet ==
  ASSUME IInv, NEW c \in Clients, NEW id \in HostIds, Test(c, id), UNCHANGED sideVars PROVE Quiet(c)
<1>1. /\ BeginRead(c) /\ UNCHANGED <<cfg, queue, cache>> /\ cookies' = cookies /\ ended' = ended
      /\ raced' = raced
  BY DEF Test, sideVars, BeginRead
<1>2. CASE ResolvedHost(cfg, id) = None
  <2>1. call' = call
    BY <1>2 DEF Test
  <2>2. Ordinary(c)
    BY <1>1, <2>1 DEF Ordinary
  <2> QED BY <1>1, <2>2, QuietIs
<1>3. CASE ResolvedHost(cfg, id) # None
  <2> DEFINE of == ResolvedHost(cfg, id)
  <2>1. call' = [call EXCEPT ![c] = [Call("test", "engine", id) EXCEPT !.of = of]]
    BY <1>3 DEF Test
  <2> HIDE DEF of
  <2>2. Ordinary(c)
    BY <1>1, <2>1, UseIs
  <2> QED BY <1>1, <2>2, QuietIs
<1> QED BY <1>2, <1>3

\* Every operation of HostManager and CredentialStore.
LEMMA HostQuiet ==
  ASSUME IInv, NEW c \in Clients, HostCalls(c), UNCHANGED sideVars PROVE Quiet(c)
<1>0. CatalogTypeOK /\ cookies' = cookies /\ ended' = ended
  BY DEF IInv, sideVars
<1>1. ASSUME NEW id, NEW conn \in Asked, NEW d \in BOOLEAN, CreateHost(c, id, conn, d) PROVE Quiet(c)
  <2>1. Ordinary(c) /\ cache' = cache
    BY <1>0, <1>1, CreateHostIs DEF CreateHost, Queue
  <2> QED BY <1>0, <2>1, QuietIs
<1>2. ASSUME NEW id, NEW conn \in Asked \cup {None}, NEW d \in BOOLEAN, UpdateHost(c, id, conn, d)
      PROVE  Quiet(c)
  <2>1. Ordinary(c) /\ cache' = cache
    BY <1>0, <1>2, UpdateHostIs DEF UpdateHost, Queue
  <2> QED BY <1>0, <2>1, QuietIs
<1>3. ASSUME NEW id, NEW set, SetEnabledAgents(c, id, set) PROVE Quiet(c)
  <2>1. Ordinary(c) /\ cache' = cache
    BY <1>0, <1>3, SetEnabledAgentsIs DEF SetEnabledAgents, Queue
  <2> QED BY <1>0, <2>1, QuietIs
<1>4. ASSUME NEW id, NEW force, RemoveHost(c, id, force) PROVE Quiet(c)
  <2>1. Ordinary(c) /\ cache' = cache
    BY <1>4, RemoveHostIs DEF RemoveHost, Queue
  <2> QED BY <1>0, <2>1, QuietIs
<1>5. ASSUME NEW id, SetDefault(c, id) PROVE Quiet(c)
  <2>1. Ordinary(c) /\ cache' = cache
    BY <1>5, SetDefaultIs DEF SetDefault, Queue
  <2> QED BY <1>0, <2>1, QuietIs
<1>6. ASSUME NEW cred \in Creds, ImportPortainerEndpoints(c, cred) PROVE Quiet(c)
  <2>1. Ordinary(c) /\ cache' = cache
    BY <1>6, ImportIs DEF ImportPortainerEndpoints
  <2> QED BY <1>0, <2>1, QuietIs
<1>7. ASSUME NEW list \in Lists, EndpointsListed(c, list) PROVE Quiet(c)
  <2>1. Ordinary(c) /\ cache' = cache
    BY <1>0, <1>7, EndpointsListedIs DEF EndpointsListed
  <2> QED BY <1>0, <2>1, QuietIs
<1>8. ASSUME NEW key \in Keys, CreateCredential(c, key) PROVE Quiet(c)
  <2>1. Ordinary(c) /\ cache' = cache
    BY <1>0, <1>8, CredentialIs DEF CreateCredential, Queue
  <2> QED BY <1>0, <2>1, QuietIs
<1>9. ASSUME NEW id, NEW key \in Keys, UpdateCredential(c, id, key) PROVE Quiet(c)
  <2>1. Ordinary(c) /\ cache' = cache
    BY <1>0, <1>9, CredentialIs DEF UpdateCredential, Queue
  <2> QED BY <1>0, <2>1, QuietIs
<1>10. ASSUME NEW id, RemoveCredential(c, id) PROVE Quiet(c)
  <2>1. Ordinary(c) /\ cache' = cache
    BY <1>0, <1>10, CredentialIs DEF RemoveCredential, Queue
  <2> QED BY <1>0, <2>1, QuietIs
<1>11. ASSUME NEW id \in HostIds, Use(c, id, "info") \/ View(c, id) \/ Test(c, id) PROVE Quiet(c)
  BY <1>11, UseQuiet, TestQuiet DEF View
<1>12. ASSUME NEW ok, Answered(c, ok) PROVE Quiet(c)
  <2>1. Ordinary(c) /\ cache' = cache
    BY <1>0, <1>12, AnsweredIs DEF Answered
  <2> QED BY <1>0, <2>1, QuietIs
<1>13. EngineAnswers(c) \/ ProbeTimesOut(c) => Quiet(c)
  BY <1>12 DEF EngineAnswers, ProbeTimesOut
<1> QED BY <1>1, <1>2, <1>3, <1>4, <1>5, <1>6, <1>7, <1>8, <1>9, <1>10, <1>11, <1>13 DEF HostCalls, Lists

\* Every operation of the other registries.
LEMMA RegistryQuiet ==
  ASSUME IInv, NEW c \in Clients, UNCHANGED sideVars,
         \/ \E id \in ProfileIds, s \in Slices, keys \in SUBSET SecretKeys : CreateProfile(c, id, s, keys)
         \/ \E id \in ProfileIds, s \in Slices, t, x \in SUBSET SecretKeys :
              t \cap x = {} /\ UpdateProfile(c, id, s, t, x)
         \/ \E id \in ProfileIds, f, v \in BOOLEAN : RemoveProfile(c, id, f, v)
         \/ \E id \in Agents : PutCustomAgent(c, id)
         \/ \E id \in Agents, f \in BOOLEAN : RemoveAgent(c, id, f)
         \/ \E def \in Containers : DefineContainer(c, def)
         \/ \E name \in ContainerNames : ForgetContainer(c, name)
         \/ \E p, q \in Passwords : ChangePassword(c, p, q)
         \/ Hashed(c)
         \/ \E p \in Passwords : Login(c, p)
  PROVE  Quiet(c)
<1>0. CatalogTypeOK /\ cookies' = cookies /\ ended' = ended
  BY DEF IInv, sideVars
<1>1. ASSUME NEW id \in ProfileIds, NEW s \in Slices, NEW keys \in SUBSET SecretKeys,
             CreateProfile(c, id, s, keys)
      PROVE  Ordinary(c) /\ cache' = cache
  BY <1>0, <1>1, CreateProfileIs DEF CreateProfile, Queue
<1>2. ASSUME NEW id \in ProfileIds, NEW s \in Slices, NEW t \in SUBSET SecretKeys,
             NEW x \in SUBSET SecretKeys, UpdateProfile(c, id, s, t, x)
      PROVE  Ordinary(c) /\ cache' = cache
  BY <1>0, <1>2, UpdateProfileIs DEF UpdateProfile
<1>3. ASSUME NEW id \in ProfileIds, NEW f, NEW v, RemoveProfile(c, id, f, v)
      PROVE  Ordinary(c) /\ cache' = cache
  BY <1>3, RemoveProfileIs DEF RemoveProfile
<1>4. ASSUME NEW id \in Agents, NEW f, PutCustomAgent(c, id) \/ RemoveAgent(c, id, f)
      PROVE  Ordinary(c) /\ cache' = cache
  BY <1>0, <1>4, AgentIs DEF PutCustomAgent, RemoveAgent, Queue
<1>5. ASSUME NEW def \in Containers, DefineContainer(c, def) PROVE Ordinary(c) /\ cache' = cache
  BY <1>5, DefineContainerIs DEF DefineContainer
<1>6. ASSUME NEW name, ForgetContainer(c, name) PROVE Ordinary(c) /\ cache' = cache
  BY <1>6, ForgetContainerIs DEF ForgetContainer, Queue
<1>7. ASSUME NEW p, NEW q \in Passwords, ChangePassword(c, p, q) PROVE Ordinary(c) /\ cache' = cache
  BY <1>7, ChangePasswordIs DEF ChangePassword
<1>8. ASSUME Hashed(c) PROVE Ordinary(c) /\ cache' = cache
  BY <1>0, <1>8, HashedIs DEF Hashed
<1>9. ASSUME NEW p, Login(c, p) PROVE Ordinary(c) /\ cache' = cache
  BY <1>9, LoginIs DEF Login
<1>10. Ordinary(c) /\ cache' = cache
  BY <1>1, <1>2, <1>3, <1>4, <1>5, <1>6, <1>7, <1>8, <1>9
<1> QED BY <1>0, <1>10, QuietIs

\* The steps that change more than the registries: volumes and cookies.
LEMMA SideQuiet ==
  ASSUME IInv, NEW c \in Clients, NEW ok,
         VolumeRemoved(c, ok) \/ StoreContainer(c) \/ WorkFails(c) \/ IssueToken(c)
  PROVE  Quiet(c)
<1>1. CASE VolumeRemoved(c, ok) \/ WorkFails(c)
  <2>1. Ordinary(c)
    BY <1>1, EndsAre DEF IInv
  <2> QED BY <1>1, <2>1, QuietIs DEF VolumeRemoved, WorkFails
<1>2. CASE StoreContainer(c)
  <2>1. Ordinary(c)
    BY <1>2, StoreContainerIs DEF IInv
  <2> QED BY <1>2, <2>1, QuietIs DEF StoreContainer
<1>3. CASE IssueToken(c)
  <2>1. Ordinary(c)
    BY <1>3, EndsAre DEF IInv
  <2>2. /\ cache' = cache /\ cfg' = cfg /\ ended' = ended
        /\ cookies' = cookies \cup {cfg.password.version}
    BY <1>3 DEF IssueToken
  <2>3. CacheOK'
    BY <2>2 DEF IInv, CacheOK
  <2>4. cfg.password.version \in Nat
    BY ListsAre DEF IInv, CatalogTypeOK
  <2>5. CookiesOK'
    BY <2>2, <2>4 DEF IInv, CookiesOK
  <2> QED BY <2>1, <2>2, <2>3, <2>5 DEF Quiet
<1> QED BY <1>1, <1>2, <1>3

\* Every step is a write's turn, or leaves the config as it is.
LEMMA NextIs ==
  ASSUME IInv, [Next]_vars
  PROVE  \/ CommitWithCookie
         \/ CommitFails /\ UNCHANGED sideVars
         \/ \E c : /\ Quiet(c)
                  /\ \/ volumes \subseteq volumes'
                     \/ c \in Clients /\ \E ok : VolumeRemoved(c, ok)
<1>1. ASSUME UNCHANGED vars PROVE \E c : Quiet(c) /\ volumes \subseteq volumes'
  <2>1. \A c : Ordinary(c)
    BY <1>1 DEF vars, hostVars, Ordinary
  <2>2. UNCHANGED <<cache, cookies, ended>> /\ volumes' = volumes
    BY <1>1 DEF vars, hostVars
  <2> QED BY <2>1, <2>2, QuietIs
<1>2. ASSUME NEW id, ProbeExpires(id), UNCHANGED sideVars
      PROVE  \E c : Quiet(c) /\ volumes \subseteq volumes'
  <2>1. \A c : Ordinary(c)
    BY <1>2 DEF ProbeExpires, Ordinary
  <2>2. UNCHANGED <<cache, cookies, ended>> /\ volumes' = volumes
    BY <1>2 DEF ProbeExpires, sideVars
  <2> QED BY <2>1, <2>2, QuietIs
<1>3. ASSUME NEW c \in Clients, UNCHANGED sideVars, HostCalls(c)
      PROVE  Quiet(c) /\ volumes \subseteq volumes'
  BY <1>3, HostQuiet DEF sideVars
<1>4. ASSUME NEW c \in Clients, NEW ok, VolumeRemoved(c, ok) PROVE Quiet(c)
  BY <1>4, SideQuiet
<1>5. ASSUME NEW c \in Clients, StoreContainer(c) \/ WorkFails(c) \/ IssueToken(c)
      PROVE  Quiet(c) /\ volumes \subseteq volumes'
  BY <1>5, SideQuiet DEF StoreContainer, WorkFails, IssueToken
<1>6. ASSUME UNCHANGED sideVars PROVE volumes \subseteq volumes'
  BY <1>6 DEF sideVars
<1> QED BY <1>1, <1>2, <1>3, <1>4, <1>5, <1>6, RegistryQuiet DEF Next

\* A step that is no turn keeps the invariant.
LEMMA QuietStep ==
  ASSUME IInv, NEW c, Quiet(c) PROVE IInv'
  BY OrdinaryKeeps, OrdinaryHolds DEF IInv, Quiet

\* So does a write that is refused.
LEMMA FailStep ==
  ASSUME IInv, CommitFails, UNCHANGED sideVars PROVE IInv'
<1>1. UNCHANGED <<cfg, cache>> /\ cookies' = cookies /\ ended' = ended
  BY DEF CommitFails, sideVars
<1>2. CatalogTypeOK' /\ (raced' \/ Undisturbed')
  BY CommitFailsIs, TurnKeeps DEF IInv
<1>3. CacheOK' /\ CookiesOK'
  BY <1>1 DEF IInv, CacheOK, CookiesOK
<1>4. Holding'
  <2>1. /\ call'[Head(queue)[1]] = NoCall
        /\ \A d \in Clients : d # Head(queue)[1] => call'[d] = call[d]
    BY TurnIs DEF CommitFails, IInv, CatalogTypeOK, CallsTypeOK
  <2> QED BY <1>1, <2>1 DEF IInv, Holding
<1> QED BY <1>2, <1>3, <1>4 DEF IInv

\* And a write that is done: a password change ends the cookies before it.
LEMMA CommitStep ==
  ASSUME IInv, CommitWithCookie PROVE IInv'
<1> DEFINE op == Head(queue)[2]
           arg == Head(queue)[3]
           k == call[Head(queue)[1]]
<1>1. CatalogTypeOK /\ CacheOK /\ Holding /\ Commit
  BY DEF IInv, CommitWithCookie
<1>2. CatalogTypeOK' /\ (raced' \/ Undisturbed')
  BY <1>1, CommitIs, TurnKeeps DEF IInv
<1>3. CacheOK' /\ Holding'
  BY <1>1, CommitCache, CommitHolds
<1>4. cfg' = Mutated(cfg, op, arg) /\ IsConfig(cfg) /\ Asks(k, op, arg)
  BY <1>1, TurnIs DEF Commit, CatalogTypeOK
<1>5. IF op = "setPassword"
      THEN ended' = ended \cup cookies /\ cookies' = cookies \cup {cfg'.password.version}
      ELSE UNCHANGED <<ended, cookies>>
  BY DEF CommitWithCookie
<1> HIDE DEF op, arg, k
<1>6. cfg'.password.version = IF op = "setPassword" THEN cfg.password.version + 1 ELSE cfg.password.version
  BY <1>4, MutatedConfig
<1>7. cfg.password.version \in Nat
  BY <1>4, ListsAre
<1>8. CookiesOK'
  BY <1>5, <1>6, <1>7 DEF IInv, CookiesOK
<1> QED BY <1>2, <1>3, <1>8 DEF IInv

\* Every step keeps the invariant.
LEMMA Inductive ==
  ASSUME IInv, [Next]_vars PROVE IInv'
  BY NextIs, CommitStep, FailStep, QuietStep

\* The installs a run starts from are whole.
LEMMA Starts ==
  ASSUME Init PROVE IInv
<1>1. /\ cfg \in Installs /\ queue = <<>> /\ call = [c \in Clients |-> NoCall]
      /\ cache = [h \in HostIds |-> None] /\ cookies = {} /\ ended = {}
  BY DEF Init, HostInit
<1>2. IsConfig(cfg) /\ Whole(cfg)
  BY <1>1, CatalogAssumption
<1>3. CallsTypeOK /\ QueueTypeOK
  BY <1>1 DEF CallsTypeOK, QueueTypeOK, ToSet
<1>4. CacheOK /\ Holding /\ CookiesOK
  BY <1>1 DEF CacheOK, Holding, CookiesOK
<1>5. Undisturbed
  BY <1>1, <1>2, IdleIs DEF Undisturbed
<1> QED BY <1>2, <1>3, <1>4, <1>5 DEF IInv, CatalogTypeOK

-----------------------------------------------------------------------------
(* What follows of it. *)

\* So it holds in every state.
LEMMA Always == Spec => []IInv
  BY Starts, Inductive, PTL DEF Spec

(* The transport a call gets is the one its host's record and credential   *)
(* ask for now: backendFor() and invalidateChanged() never leave another.  *)
THEOREM TransportsAreCurrent == Spec => []CacheIsCurrent
<1>1. IInv => CacheIsCurrent
  BY DEF IInv, CacheOK, CacheIsCurrent
<1> QED BY <1>1, Always, PTL

(* No cookie that was issued before a changePassword() is accepted after   *)
(* it, whatever logins and other changes are under way.                    *)
THEOREM OldCookiesEnd == Spec => []CookiesEnd
<1>1. IInv => CookiesEnd
  <2> SUFFICES ASSUME IInv, NEW v \in ended PROVE v # cfg.password.version
    BY DEF CookiesEnd, Accepted
  <2>1. v \in Nat /\ v < cfg.password.version
    BY DEF IInv, CookiesOK
  <2>2. cfg.password.version \in Nat
    BY ListsAre DEF IInv, CatalogTypeOK
  <2> QED BY <2>1, <2>2
<1> QED BY <1>1, Always, PTL

(* The checks each route makes before it queues its write keep the install *)
(* whole as long as no two calls that write overlap, imports of many       *)
(* endpoints and writes that fail half way included.                       *)
THEOREM InstallStaysWhole == Spec => []WholeUnlessRaced
<1>1. IInv => WholeUnlessRaced
  BY DEF IInv, Undisturbed, WholeUnlessRaced
<1> QED BY <1>1, Always, PTL

\* What is behind a host is one pair, or nothing.
LEMMA BehindIs ==
  ASSUME NEW c, IsConfig(c), NEW id
  PROVE  /\ id \in TakenIds(c) =>
              LET conn == HostNamed(c, id).conn IN
              Behind(c, id) = {<<conn, IF conn.type = "socket" THEN {}
                                       ELSE {x \in c.creds : x.id = conn.cred}>>}
         /\ id \notin TakenIds(c) => Behind(c, id) = {}
<1>1. ASSUME id \in TakenIds(c) PROVE {g \in HostsOf(c) : g.id = id} = {HostNamed(c, id)}
  <2>1. HostNamed(c, id) \in HostsOf(c) /\ HostNamed(c, id).id = id
    BY <1>1 DEF TakenIds, IdsOf, HostNamed, Named
  <2> QED BY <2>1, HostsAre
<1>2. id \notin TakenIds(c) => {g \in HostsOf(c) : g.id = id} = {}
  BY DEF TakenIds, IdsOf
<1> QED BY <1>1, <1>2 DEF Behind

\* The fingerprint of a host says what is behind it.
LEMMA SamePrint ==
  ASSUME NEW c, NEW n, IsConfig(c), IsConfig(n), NEW id \in TakenIds(c), id \in TakenIds(n),
         Behind(c, id) = Behind(n, id)
  PROVE  Fingerprint(c, HostNamed(c, id).conn) = Fingerprint(n, HostNamed(n, id).conn)
<1> DEFINE a == HostNamed(c, id).conn
           b == HostNamed(n, id).conn
           A == IF a.type = "socket" THEN {} ELSE {x \in c.creds : x.id = a.cred}
           B == IF b.type = "socket" THEN {} ELSE {x \in n.creds : x.id = b.cred}
<1>1. <<a, A>> = <<b, B>>
  <2>1. Behind(c, id) = {<<a, A>>}
    BY BehindIs
  <2>2. Behind(n, id) = {<<b, B>>}
    BY BehindIs
  <2> HIDE DEF a, b, A, B
  <2> QED BY <2>1, <2>2
<1>2. a = b /\ A = B
  BY <1>1
<1> HIDE DEF a, b
<1>3. KeyOf(c, a) = KeyOf(n, a)
  <2>1. CASE a.type # "portainer"
    BY <2>1 DEF KeyOf
  <2>2. CASE a.type = "portainer"
    <3>1. {x \in c.creds : x.id = a.cred} = {x \in n.creds : x.id = a.cred}
      BY <1>2, <2>2
    <3>2. a.cred \in IdsOf(c.creds) <=> a.cred \in IdsOf(n.creds)
      BY <3>1 DEF IdsOf
    <3>3. CASE a.cred \in IdsOf(c.creds)
      <4>1. Named(c.creds, a.cred) \in c.creds /\ Named(c.creds, a.cred).id = a.cred
        BY <3>3 DEF IdsOf, Named
      <4>2. Named(n.creds, a.cred) \in n.creds /\ Named(n.creds, a.cred).id = a.cred
        BY <3>2, <3>3 DEF IdsOf, Named
      <4>3. Named(c.creds, a.cred) \in n.creds
        BY <3>1, <4>1
      <4>4. \A x, y \in n.creds : x.id = y.id => x = y
        BY ListsAre
      <4>5. Named(c.creds, a.cred) = Named(n.creds, a.cred)
        BY <4>1, <4>2, <4>3, <4>4
      <4> QED BY <3>2, <3>3, <4>5 DEF KeyOf
    <3>4. CASE a.cred \notin IdsOf(c.creds)
      BY <3>2, <3>4 DEF KeyOf
    <3> QED BY <3>3, <3>4
  <2> QED BY <2>1, <2>2
<1>4. Fingerprint(c, a) = Fingerprint(n, b)
  BY <1>2, <1>3 DEF Fingerprint
<1> QED BY <1>4 DEF a, b

\* In a write's turn a call loses its transport for what happened to its host.
LEMMA CommitCuts ==
  ASSUME IInv, Commit, NEW c \in Clients, call[c] # NoCall, call'[c] # NoCall,
         ~call[c].cut, call'[c].cut
  PROVE  Behind(cfg', call[c].host) # Behind(cfg, call[c].host)
<1> DEFINE b == Head(queue)[1]
           k == call[b]
           drop == Stale(cfg') \cup DropAfter(k)
           id == call[c].host
<1>0. CatalogTypeOK /\ CacheOK /\ Holding /\ IsConfig(cfg) /\ IsConfig(cfg')
  BY CommitIs DEF IInv, CatalogTypeOK, Turn
<1>1. /\ call'[b] = Resumed(k) /\ \A d \in Clients : d # b => Alike(call[d], call'[d])
      /\ \A d \in Clients : d # b /\ call[d] # NoCall /\ call[d].op \in {"view", "info"} =>
           (call'[d].cut <=> call[d].cut \/ call[d].host \in drop)
  BY <1>0, CommitCalls
<1>2. /\ queue # <<>> /\ CallTypeOK(k) /\ k.at = "queue" /\ Asks(k, Head(queue)[2], Head(queue)[3])
      /\ cfg' = Mutated(cfg, Head(queue)[2], Head(queue)[3])
  BY <1>0, TurnIs DEF Commit
<1>3. c # b
  BY <1>1, <1>2, ResumedIs
<1>4. call[c].op \in {"view", "info"} /\ id \in drop
  BY <1>1, <1>3 DEF Alike
<1>5. id \in HostIds /\ cache[id] # None
  BY <1>0, <1>4 DEF Holding
<1>6. id \in TakenIds(cfg) /\ cache[id].print = Fingerprint(cfg, HostNamed(cfg, id).conn)
  BY <1>0, <1>5 DEF CacheOK
<1>7. Behind(cfg, id) # {}
  BY <1>0, <1>6, BehindIs
<1> HIDE DEF k, b, id
<1>8. CASE id \in Stale(cfg')
  <2>1. CASE id \notin TakenIds(cfg')
    <3>1. Behind(cfg', id) = {}
      BY <1>0, <2>1, BehindIs
    <3> QED BY <1>7, <3>1 DEF id
  <2>2. CASE id \in TakenIds(cfg')
    <3>1. Fingerprint(cfg', HostNamed(cfg', id).conn) # Fingerprint(cfg, HostNamed(cfg, id).conn)
      BY <1>6, <1>8, <2>2 DEF Stale
    <3>2. Behind(cfg', id) # Behind(cfg, id)
      BY <1>0, <1>6, <2>2, <3>1, SamePrint
    <3> QED BY <3>2 DEF id
  <2> QED BY <2>1, <2>2
<1>9. CASE id \in DropAfter(k)
  <2>1. k.op = "remove" /\ id = k.host
    BY <1>9 DEF DropAfter
  <2>2. Head(queue)[2] = "deleteHost" /\ Head(queue)[3] = id
    BY <1>2, <2>1 DEF Asks
  <2>3. cfg' = DeleteHost(cfg, id)
    BY <1>2, <2>2, MutatedIs
  <2>4. HostsOf(cfg') = {g \in HostsOf(cfg) : g.id # id}
    BY <1>0, <2>3, DeleteHostFacts
  <2>5. Behind(cfg', id) = {}
    BY <2>4 DEF Behind
  <2> QED BY <1>7, <2>5 DEF id
<1> QED BY <1>4, <1>8, <1>9 DEF k, b

\* Saving a layout, a container, a profile or another host never aborts what
\* runs on a host: invalidateChanged() drops what has changed, and no more.
THEOREM OnlyChangesCut == Spec => CutOnlyWhenChanged
<1>1. ASSUME IInv, [Next]_vars,
             NEW c \in Clients, call[c] # NoCall, call'[c] # NoCall, ~call[c].cut, call'[c].cut
      PROVE  Behind(cfg', call[c].host) # Behind(cfg, call[c].host)
  <2>1. CASE CommitWithCookie
    BY <1>1, <2>1, CommitCuts DEF CommitWithCookie
  <2>2. CASE CommitFails
    <3>1. call'[c] = call[c] \/ call'[c] = NoCall
      BY <1>1, <2>2 DEF CommitFails, IInv, CatalogTypeOK, CallsTypeOK
    <3> QED BY <1>1, <3>1
  <2>3. ASSUME NEW d, Ordinary(d) PROVE FALSE
    <3>1. call' # call
      BY <1>1
    <3>2. PICK k : Becomes(d, k)
      BY <2>3, <3>1 DEF Ordinary, Rests, Queues
    <3>3. call'[d] = k /\ \A e \in Clients : e # d => call'[e] = call[e]
      BY <1>1, <3>2, BecomesCalls DEF IInv, CatalogTypeOK
    <3>4. c = d
      BY <1>1, <3>3
    <3> QED BY <1>1, <3>2, <3>3, <3>4 DEF Becomes
  <2> QED BY <1>1, <2>1, <2>2, <2>3, NextIs DEF Quiet
<1>2. IInv /\ [Next]_vars =>
        [\A c \in Clients :
           call[c] # NoCall /\ call'[c] # NoCall /\ ~call[c].cut /\ call'[c].cut
             => Behind(cfg', call[c].host) # Behind(cfg, call[c].host)]_vars
  BY <1>1
<1> QED BY <1>2, Always, PTL DEF Spec, CutOnlyWhenChanged

(* As long as no two calls that write overlap, DELETE /api/profiles/:id    *)
(* takes no login volume another profile resolves to, and an update of a   *)
(* profile takes no secret but those it was told to clear.                 *)
THEOREM NothingIsLost == Spec => NothingLostUnlessRaced
<1> DEFINE Kept == /\ \A s \in volumes \ volumes' : \A p \in cfg.profiles : LoginSet(p) # s
                   /\ \A p \in cfg.profiles, q \in cfg'.profiles :
                        p.id = q.id /\ p # q => p.keys \ q.keys \subseteq call[Head(queue)[1]].what.cleared
<1>1. ASSUME IInv, [Next]_vars, ~raced' PROVE Kept
  <2>0. IsConfig(cfg) /\ \A p, q \in cfg.profiles : p.id = q.id => p = q
    BY <1>1, ListsAre DEF IInv, CatalogTypeOK
  <2>1. CASE CommitWithCookie
    <3> DEFINE op == Head(queue)[2]
               arg == Head(queue)[3]
               k == call[Head(queue)[1]]
    <3>1. /\ queue # <<>> /\ raced' = raced /\ cfg' = Mutated(cfg, op, arg) /\ volumes' = volumes
      BY <2>1 DEF CommitWithCookie, Commit
    <3>2. 1 \in DOMAIN queue /\ queue[1] = Head(queue) /\ Asks(k, op, arg)
      BY <1>1, <3>1, TurnIs DEF IInv
    <3>3. Right(cfg, k, op, arg)
      BY <1>1, <3>1, <3>2 DEF IInv, Undisturbed
    <3> HIDE DEF op, arg, k
    <3>4. ASSUME NEW p \in cfg.profiles, NEW q \in cfg'.profiles, p.id = q.id, p # q
          PROVE  p.keys \ q.keys \subseteq k.what.cleared
      <4>1. CASE op = "putProfile"
        <5>1. arg \in ProfileRecords /\ cfg' = PutProfile(cfg, arg)
          BY <3>1, <3>2, <4>1, MutatedIs DEF Asks
        <5>2. cfg'.profiles = Put(cfg.profiles, arg)
          BY <2>0, <5>1, ProfileFacts
        <5>3. q = arg
          BY <2>0, <3>4, <5>2 DEF Put
        <5> QED BY <3>3, <3>4, <4>1, <5>3 DEF Right
      <4>2. CASE op = "dropProfile"
        <5>1. cfg' = DropProfile(cfg, arg)
          BY <3>1, <4>2, MutatedIs
        <5>2. cfg'.profiles = Drop(cfg.profiles, arg)
          BY <2>0, <5>1, ProfileFacts
        <5> QED BY <2>0, <3>4, <5>2 DEF Drop
      <4>3. CASE op \notin {"putProfile", "dropProfile"}
        <5>1. cfg'.profiles = cfg.profiles
          BY <2>0, <3>1, <3>2, <4>3, MutatedConfig
        <5> QED BY <2>0, <3>4, <5>1
      <4> QED BY <4>1, <4>2, <4>3
    <3> QED BY <3>1, <3>4 DEF k
  <2>2. ASSUME cfg' = cfg, NEW s \in volumes \ volumes', NEW c \in Clients, NEW ok, VolumeRemoved(c, ok)
        PROVE  \A p \in cfg.profiles : LoginSet(p) # s
    <3>1. /\ call[c] # NoCall /\ call[c].at = "volumes" /\ raced' = raced /\ s = call[c].what.volume
      BY <2>2 DEF VolumeRemoved
    <3> QED BY <1>1, <3>1 DEF IInv, Undisturbed, RightCall
  <2>3. CASE CommitFails /\ UNCHANGED sideVars
    BY <2>0, <2>3 DEF CommitFails, sideVars
  <2>4. ASSUME NEW c, Quiet(c) PROVE cfg' = cfg
    BY <2>4 DEF Quiet, Ordinary, Rests, Queues, Becomes
  <2>5. CASE \E c : Quiet(c) /\ volumes \subseteq volumes'
    BY <2>0, <2>4, <2>5
  <2>6. CASE \E c \in Clients : Quiet(c) /\ \E ok : VolumeRemoved(c, ok)
    <3>1. cfg' = cfg
      BY <2>4, <2>6
    <3>2. \A s \in volumes \ volumes' : \A p \in cfg.profiles : LoginSet(p) # s
      BY <2>2, <2>6, <3>1
    <3> QED BY <2>0, <3>1, <3>2
  <2> QED BY <1>1, <2>1, <2>3, <2>5, <2>6, NextIs
<1>2. IInv /\ [Next]_vars => [~raced' => Kept]_vars
  BY <1>1
<1> QED BY <1>2, Always, PTL DEF Spec, NothingLostUnlessRaced
=============================================================================
