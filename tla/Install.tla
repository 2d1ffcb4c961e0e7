------------------------------- MODULE Install -------------------------------
(***************************************************************************)
(* server/src/config/store.ts, the document itself: what config.json says  *)
(* about an install, and what each helper's mutator does to the clone that *)
(* update() hands it.  A mutator runs when its turn in the queue comes; a  *)
(* record it puts was read, and checked, by its caller long before.        *)
(***************************************************************************)
EXTENDS Naturals, Sequences, SequencesExt, FiniteSets, FiniteSetsExt

CONSTANTS None, DefaultSet, Slugs, MaxSuffix

\* `base`, `base-2`, `base-3`, ...: an id is the slug and its number
HostIds == Slugs \X (1..MaxSuffix)

\* uniqueHostId(): the first id of this slug nobody has
FreeId(slug, taken) ==
  <<slug, Min({n \in 1..MaxSuffix : <<slug, n>> \notin taken})>>

EmptyInstall ==
  [hosts |-> <<>>, default |-> None, creds |-> {}, profiles |-> {},
   agents |-> {}, containers |-> {}, password |-> [hash |-> None, version |-> 0]]

-----------------------------------------------------------------------------
(* reading *)

HostsOf(cfg) == ToSet(cfg.hosts)
IdsOf(set)   == {x.id : x \in set}
TakenIds(cfg) == IdsOf(HostsOf(cfg))
Named(set, id) == CHOOSE x \in set : x.id = id
HostNamed(cfg, id) == Named(HostsOf(cfg), id)

\* hosts whose connection names the credential
UsersOfCred(cfg, id) ==
  {h \in HostsOf(cfg) : h.conn.type = "portainer" /\ h.conn.cred = id}

ContainersOn(cfg, host)       == {k \in cfg.containers : k.host = host}
ContainersUsing(cfg, profile) == {k \in cfg.containers : k.profile = profile}

\* what a profile stands for: the login set of its agent, named or its own,
\* the host-wide one when it says nothing of the agent
LoginSet(profile) ==
  CASE profile.slice = "none" -> DefaultSet
    [] profile.slice = "own"  -> profile.id
    [] OTHER                  -> profile.slice

\* loginSetFor() for a container: a profile that is gone still means its own set
LoginSetFor(cfg, profile) ==
  IF profile = None THEN DefaultSet
  ELSE IF profile \in IdsOf(cfg.profiles) THEN LoginSet(Named(cfg.profiles, profile))
  ELSE profile

-----------------------------------------------------------------------------
(* the mutators *)

Put(set, x)  == {y \in set : y.id # x.id} \cup {x}
Drop(set, id) == {y \in set : y.id # id}

\* insert or replace by id; the first host becomes the default
PutHost(cfg, h) ==
  [cfg EXCEPT
    !.hosts = IF h.id \in TakenIds(cfg)
              THEN [i \in DOMAIN @ |-> IF @[i].id = h.id THEN h ELSE @[i]]
              ELSE Append(@, h),
    !.default = IF @ = None THEN h.id ELSE @]

\* removing the default promotes the first host that is left
DeleteHost(cfg, id) ==
  LET rest == RemoveFirstMatch(cfg.hosts, LAMBDA h : h.id = id) IN
  [cfg EXCEPT
    !.hosts = rest,
    !.default = IF @ # id THEN @ ELSE IF rest = <<>> THEN None ELSE rest[1].id]

SetDefaultHostId(cfg, id) == [cfg EXCEPT !.default = id]

PutCredential(cfg, x)     == [cfg EXCEPT !.creds = Put(@, x)]
DeleteCredential(cfg, id) == [cfg EXCEPT !.creds = Drop(@, id)]

PutProfile(cfg, x) == [cfg EXCEPT !.profiles = Put(@, x)]

\* ProfileStore.remove(): the containers are stripped in the same write
DropProfile(cfg, id) ==
  [cfg EXCEPT
    !.profiles = Drop(@, id),
    !.containers = {IF k.profile = id THEN [k EXCEPT !.profile = None] ELSE k : k \in @}]

PutAgent(cfg, x) == [cfg EXCEPT !.agents = @ \cup {x}]

\* AgentRegistry.remove(): hosts and containers in the same write
Unlisted(x, agent) == [x EXCEPT !.agents = @ \ {agent}]
DropAgent(cfg, id) ==
  [cfg EXCEPT
    !.agents = @ \ {id},
    !.hosts = [i \in DOMAIN @ |-> Unlisted(@[i], id)],
    !.containers = {IF k.agents = None THEN k ELSE Unlisted(k, id) : k \in @}]

PutContainer(cfg, x)     == [cfg EXCEPT !.containers = Put(@, x)]
DeleteContainer(cfg, id) == [cfg EXCEPT !.containers = Drop(@, id)]

\* mutant: cookies of before stay good
SetPasswordOnly(cfg, hash) == [cfg EXCEPT !.password.hash = hash]

\* changePassword(): the version counts on from whatever it is by then
SetPassword(cfg, hash) ==
  [cfg EXCEPT !.password = [hash |-> hash, version |-> @.version + 1]]

Mutated(cfg, op, arg) ==
  CASE op = "putHost"         -> PutHost(cfg, arg)
    [] op = "deleteHost"      -> DeleteHost(cfg, arg)
    [] op = "setDefault"      -> SetDefaultHostId(cfg, arg)
    [] op = "putCredential"   -> PutCredential(cfg, arg)
    [] op = "deleteCredential" -> DeleteCredential(cfg, arg)
    [] op = "putProfile"      -> PutProfile(cfg, arg)
    [] op = "dropProfile"     -> DropProfile(cfg, arg)
    [] op = "putAgent"        -> PutAgent(cfg, arg)
    [] op = "dropAgent"       -> DropAgent(cfg, arg)
    [] op = "putContainer"    -> PutContainer(cfg, arg)
    [] op = "deleteContainer" -> DeleteContainer(cfg, arg)
    [] op = "setPassword"     -> SetPassword(cfg, arg)

-----------------------------------------------------------------------------
(* what an install nobody disturbed looks like *)

\* the default is a host, and there is one as soon as there is a host
DefaultExists(cfg) ==
  IF cfg.hosts = <<>> THEN cfg.default = None ELSE cfg.default \in TakenIds(cfg)

OneSocketHost(cfg) ==
  \A h, k \in HostsOf(cfg) : h.conn.type = "socket" /\ k.conn.type = "socket" => h = k

CredentialsExist(cfg) ==
  \A h \in HostsOf(cfg) : h.conn.type = "portainer" => h.conn.cred \in IdsOf(cfg.creds)

ProfilesExist(cfg) ==
  \A k \in cfg.containers : k.profile = None \/ k.profile \in IdsOf(cfg.profiles)

\* of hosts it is not promised: POST and PUT /api/hosts take any agent id
AgentsExist(cfg) ==
  \A k \in cfg.containers : k.agents = None \/ k.agents \subseteq cfg.agents

Whole(cfg) ==
  /\ DefaultExists(cfg)
  /\ OneSocketHost(cfg)
  /\ CredentialsExist(cfg)
  /\ ProfilesExist(cfg)
  /\ AgentsExist(cfg)
=============================================================================
