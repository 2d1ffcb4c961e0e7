------------------------------- MODULE Catalog -------------------------------
(***************************************************************************)
(* The other registries that share config.json: ProfileStore and its       *)
(* routes, AgentRegistry, the password and its cookies, and the container  *)
(* definitions that refer to hosts, profiles and agents.  With the hosts   *)
(* of HostRegistry these are the writers of the store, and what each of    *)
(* them has checked may be undone before its write has its turn.           *)
(***************************************************************************)
EXTENDS HostRegistry

CONSTANTS
  ProfileIds, ContainerNames,
  Slices,       \* what a profile says of its agent: "none", "own", or a set
  SecretKeys,   \* secret variables of a profile
  Passwords

VARIABLES
  volumes,      \* login sets that have a volume on the engine
  cookies,      \* versions of the cookies that were issued
  ended         \* history: versions issued before a password change

vars == <<hostVars, volumes, cookies, ended>>
sideVars == <<volumes, cookies, ended>>

\* tcp and ssh are reserved: no host has them
Conns ==
  [type : {"socket"}] \cup [type : {"portainer"}, cred : Creds, endpoint : Endpoints]
HostRecords(ids)      == [id : ids, conn : Conns, agents : SUBSET Agents]
CredentialRecords(ids) == [id : ids, key : Keys]
ProfileRecords   == [id : ProfileIds, slice : Slices, keys : SUBSET SecretKeys]
ContainerRecords ==
  [id : ContainerNames, host : HostIds, profile : ProfileIds \cup {None},
   agents : {None} \cup SUBSET Agents]

\* a config.json the program wrote: no two entries of a list have one id
IsConfig(c) ==
  /\ c \in [hosts : Seq(HostRecords(TakenIds(c))), default : {c.default},
            creds : SUBSET CredentialRecords(IdsOf(c.creds)),
            profiles : SUBSET ProfileRecords, agents : SUBSET Agents,
            containers : SUBSET ContainerRecords,
            password : [hash : Passwords \cup {None}, version : Nat]]
  /\ \A i, j \in DOMAIN c.hosts : c.hosts[i].id = c.hosts[j].id => i = j
  /\ \A x, y \in c.creds : x.id = y.id => x = y
  /\ \A x, y \in c.profiles : x.id = y.id => x = y

\* what a transport is built from, and the digest of that
Prints  == Conns \X (Keys \cup {None})
Origins == Conns \cup [type : {"portainer"}, key : Keys, endpoint : Endpoints]

ASSUME CatalogAssumption ==
  /\ IsFiniteSet(Endpoints)
  /\ Asked \subseteq Conns
  /\ None \notin [print : Prints, of : Origins]
  /\ \A c \in Installs : IsConfig(c) /\ Whole(c)

-----------------------------------------------------------------------------
(* profiles *)

CreateProfile(c, id, slice, keys) ==
  /\ BeginWrite(c)
  /\ id \notin IdsOf(cfg.profiles)
  /\ Queue(c, "profile", None, "putProfile", [id |-> id, slice |-> slice, keys |-> keys], <<>>)

\* mergeAgents(): what is typed is set, null clears, what is left out is kept
MergeKeys(stored, typed, cleared) == (stored \cup typed) \ cleared

UpdateProfile(c, id, slice, typed, cleared) ==
  /\ BeginWrite(c)
  /\ id \in IdsOf(cfg.profiles)
  /\ LET keys == MergeKeys(Named(cfg.profiles, id).keys, typed, cleared) IN
     /\ queue' = Write(c, "putProfile", [id |-> id, slice |-> slice, keys |-> keys])
     /\ call' = [call EXCEPT ![c] = CallWith("profile", "queue", [cleared |-> cleared])]
     /\ UNCHANGED <<cfg, cache, probe>>

\* mutant: also what another profile names
RemovableOwn(id) == {LoginSet(Named(cfg.profiles, id))} \ {DefaultSet}

\* removableSetsFor(): the login set nobody else resolves to, never the default
Removable(id) ==
  {LoginSet(Named(cfg.profiles, id))}
    \ ({DefaultSet} \cup {LoginSet(p) : p \in Drop(cfg.profiles, id)})

\* DELETE /api/profiles/:id: which volumes go is decided before the write
RemoveProfile(c, id, force, withVolumes) ==
  /\ BeginWrite(c)
  /\ id \in IdsOf(cfg.profiles)
  /\ ContainersUsing(cfg, id) = {} \/ force
  /\ queue' = Write(c, "dropProfile", id)
  /\ call' = [call EXCEPT ![c] =
       CallWith("removeProfile", "queue",
                [volume |-> IF withVolumes /\ Removable(id) # {}
                            THEN CHOOSE s \in Removable(id) : TRUE ELSE None])]
  /\ UNCHANGED <<cfg, cache, probe>>

\* best effort: the engine refuses the volume of a container
VolumeRemoved(c, ok) ==
  /\ call[c] # NoCall /\ call[c].at = "volumes"
  /\ call' = [call EXCEPT ![c] = NoCall]
  /\ volumes' = IF ok THEN volumes \ {call[c].what.volume} ELSE volumes
  /\ UNCHANGED <<cfg, queue, cache, probe, writes, reads, raced, cookies, ended>>

-----------------------------------------------------------------------------
(* agents *)

\* a definition is its id here: update() puts the same id again
PutCustomAgent(c, id) ==
  /\ BeginWrite(c)
  /\ Queue(c, "agent", None, "putAgent", id, <<>>)

RemoveAgent(c, id, force) ==
  /\ BeginWrite(c)
  /\ id \in cfg.agents
  /\ force \/ /\ \A h \in HostsOf(cfg) : id \notin h.agents
              /\ \A k \in cfg.containers : k.agents = None \/ id \notin k.agents
  /\ Queue(c, "agent", None, "dropAgent", id, <<>>)

-----------------------------------------------------------------------------
(* containers, as far as they refer to the others *)

\* create() and update() check host, agents and profile, then work on the
\* engine for as long as it takes
DefineContainer(c, def) ==
  /\ BeginWrite(c)
  /\ \A k \in cfg.containers : k.id = def.id => k.host = def.host
  /\ def.host \in TakenIds(cfg)
  /\ def.profile \in {None} \cup IdsOf(cfg.profiles)
  /\ def.agents \in {None} \cup SUBSET cfg.agents
  /\ call' = [call EXCEPT ![c] = CallWith("container", "work", [def |-> def])]
  /\ UNCHANGED <<cfg, queue, cache, probe>>

\* what was checked then is stored now; its login volume was created
StoreContainer(c) ==
  /\ call[c] # NoCall /\ call[c].at = "work"
  /\ queue' = Write(c, "putContainer", call[c].what.def)
  /\ call' = [call EXCEPT ![c].at = "queue"]
  /\ volumes' = volumes \cup {LoginSetFor(cfg, call[c].what.def.profile)}
  /\ UNCHANGED <<cfg, cache, probe, writes, reads, raced, cookies, ended>>

WorkFails(c) ==
  /\ call[c] # NoCall /\ call[c].at = "work"
  /\ call' = [call EXCEPT ![c] = NoCall]
  /\ UNCHANGED <<cfg, queue, cache, probe, writes, reads, raced, volumes, cookies, ended>>

ForgetContainer(c, name) ==
  /\ BeginWrite(c)
  /\ name \in IdsOf(cfg.containers)
  /\ Queue(c, "container", None, "deleteContainer", name, <<>>)

-----------------------------------------------------------------------------
(* the password *)

\* changePassword(): the current one is verified, the new one hashed
ChangePassword(c, typed, hash) ==
  /\ BeginWrite(c)
  /\ cfg.password.hash = None \/ typed = cfg.password.hash
  /\ call' = [call EXCEPT ![c] = CallWith("password", "hash", [hash |-> hash])]
  /\ UNCHANGED <<cfg, queue, cache, probe>>

Hashed(c) ==
  /\ call[c] # NoCall /\ call[c].at = "hash"
  /\ queue' = Write(c, "setPassword", call[c].what.hash)
  /\ call' = [call EXCEPT ![c].at = "queue"]
  /\ UNCHANGED <<cfg, cache, probe, writes, reads, raced, sideVars>>

Login(c, typed) ==
  /\ BeginRead(c)
  /\ cfg.password.hash # None /\ typed = cfg.password.hash
  /\ call' = [call EXCEPT ![c] = Call("login", "verify", None)]
  /\ UNCHANGED <<cfg, queue, cache, probe>>

\* issueToken(): the version is the one of now
IssueToken(c) ==
  /\ call[c] # NoCall /\ call[c].at = "verify"
  /\ cookies' = cookies \cup {cfg.password.version}
  /\ call' = [call EXCEPT ![c] = NoCall]
  /\ UNCHANGED <<cfg, queue, cache, probe, writes, reads, raced, volumes, ended>>

\* verifyToken(): of this version
Accepted(version) == version \in cookies /\ version = cfg.password.version

\* a password change ends every cookie and answers with a new one
CommitWithCookie ==
  /\ Commit
  /\ IF Head(queue)[2] = "setPassword"
     THEN /\ ended' = ended \cup cookies
          /\ cookies' = cookies \cup {cfg'.password.version}
     ELSE UNCHANGED <<ended, cookies>>
  /\ UNCHANGED volumes

-----------------------------------------------------------------------------
Init ==
  /\ HostInit
  /\ volumes = {DefaultSet} \cup {LoginSet(p) : p \in cfg.profiles}
  /\ cookies = {}
  /\ ended = {}

\* what create() and update() are asked: the agents left to it, or all of them
Containers == {def \in ContainerRecords : def.agents \in {None, Agents}}

Next ==
  \/ CommitWithCookie
  \/ CommitFails /\ UNCHANGED sideVars
  \/ \E c \in Clients :
       \/ /\ UNCHANGED sideVars
          /\ \/ HostCalls(c)
             \/ \E id \in ProfileIds, s \in Slices, keys \in SUBSET SecretKeys :
                  CreateProfile(c, id, s, keys)
             \/ \E id \in ProfileIds, s \in Slices, t, x \in SUBSET SecretKeys :
                  t \cap x = {} /\ UpdateProfile(c, id, s, t, x)
             \/ \E id \in ProfileIds, f, v \in BOOLEAN : RemoveProfile(c, id, f, v)
             \/ \E id \in Agents : PutCustomAgent(c, id)
             \/ \E id \in Agents, f \in BOOLEAN : RemoveAgent(c, id, f)
             \/ \E def \in Containers : DefineContainer(c, def)
             \/ \E name \in ContainerNames : ForgetContainer(c, name)
             \/ \E p, q \in Passwords : ChangePassword(c, p, q)
             \/ Hashed(c)
             \/ \E p \in Passwords : Login(c, p)
       \/ \E ok \in BOOLEAN : VolumeRemoved(c, ok)
       \/ StoreContainer(c)
       \/ WorkFails(c)
       \/ IssueToken(c)
  \/ \E id \in HostIds : ProbeExpires(id) /\ UNCHANGED sideVars

Spec == Init /\ [][Next]_vars

-----------------------------------------------------------------------------
(* A call that starts on a host now gets a transport that was built from   *)
(* what the config says of the host and its credential now: an entry of    *)
(* the cache never outlives what it was built from.                        *)
CacheIsCurrent ==
  \A h \in HostIds : cache[h] # None => cache[h].of = ResolvedHost(cfg, h)

\* a host's connection, and the credential it names
Behind(c, id) ==
  {<<h.conn, IF h.conn.type = "socket" THEN {} ELSE {x \in c.creds : x.id = h.conn.cred}>> :
     h \in {g \in HostsOf(c) : g.id = id}}

(* Work that runs on a host loses its transport only in a step that        *)
(* changes the host's connection or credential, or forgets the host:       *)
(* saving a layout, a container or another host never aborts a build.      *)
CutOnlyWhenChanged ==
  [][\A c \in Clients :
       call[c] # NoCall /\ call'[c] # NoCall /\ ~call[c].cut /\ call'[c].cut
         => Behind(cfg', call[c].host) # Behind(cfg, call[c].host)]_vars

(* As long as no two calls that write have overlapped, the install is      *)
(* whole: the default is a host, one host at most uses the socket, every   *)
(* credential, profile and agent that is named exists.                     *)
WholeUnlessRaced == raced \/ Whole(cfg)

(* As long as no two calls that write have overlapped, a login volume goes *)
(* only when no stored profile resolves to it, and a secret of a profile   *)
(* only when the update cleared it or the profile went.                    *)
NothingLostUnlessRaced ==
  [][~raced' =>
       /\ \A s \in volumes \ volumes' : \A p \in cfg.profiles : LoginSet(p) # s
       /\ \A p \in cfg.profiles, q \in cfg'.profiles :
            p.id = q.id /\ p # q => p.keys \ q.keys \subseteq call[Head(queue)[1]].what.cleared]_vars

(* A cookie that was issued before a password change is never accepted     *)
(* after it, however many changes are under way.                           *)
CookiesEnd == \A v \in ended : ~Accepted(v)
=============================================================================
