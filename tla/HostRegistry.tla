---------------------------- MODULE HostRegistry ----------------------------
(***************************************************************************)
(* server/src/hosts: HostManager and CredentialStore.  A call checks what  *)
(* it is asked against the config as it is now, builds the record it will  *)
(* put and queues the write; other calls run until the write has its turn. *)
(* The write and what its caller does next up to its next await are one    *)
(* step: nothing but promise callbacks runs in between.  Requests that are *)
(* refused change nothing and are left out.                                *)
(*                                                                         *)
(* Beside the config HostManager keeps a transport per host, built when    *)
(* the host is first used and dropped on 'change' when what it was built   *)
(* from has changed, and the answer of the last probe.                     *)
(***************************************************************************)
EXTENDS Install

CONSTANTS
  Clients,      \* requests in flight
  Creds,        \* numbers of the credentials: portainer-1, ...
  Keys,         \* what a credential is: url and api key
  Endpoints,    \* the docker endpoints of a Portainer
  Agents,       \* custom agents
  Installs,     \* the installs a run starts from
  WantedIds,    \* ids a client asks for by name
  Asked,        \* connections a client asks for
  MaxWrites,    \* bound: calls that write the config
  MaxReads      \* bound: logins, and calls that run on a host

VARIABLES
  cfg,          \* what ConfigStore.get() returns
  queue,        \* writes waiting: <<client, op, arg>>
  call,         \* per client: the call it awaits, or NoCall
  cache,        \* per host id: None, or its transport's [print, of]
  probe,        \* per host id: None, or the last probe's [of, ok, fresh]
  writes, reads,
  raced         \* history: two calls that write have overlapped

hostVars == <<cfg, queue, call, cache, probe, writes, reads, raced>>

-----------------------------------------------------------------------------
(* connections *)

\* what the config holds of the credential a connection names
KeyOf(c, conn) ==
  IF conn.type = "portainer" /\ conn.cred \in IdsOf(c.creds)
  THEN Named(c.creds, conn.cred).key ELSE None

\* what a transport is built from, None when it cannot be
Resolved(c, conn) ==
  IF conn.type # "portainer" THEN conn
  ELSE IF KeyOf(c, conn) = None THEN None
  ELSE [type |-> "portainer", key |-> KeyOf(c, conn), endpoint |-> conn.endpoint]

ResolvedHost(c, id) ==
  IF id \in TakenIds(c) THEN Resolved(c, HostNamed(c, id).conn) ELSE None

\* mutant: the connection without the credential it names
ConnectionOnly(c, conn) == <<conn>>

\* a digest of everything that goes into Resolved
Fingerprint(c, conn) == <<conn, KeyOf(c, conn)>>

\* at most one socket host, beside the one it is for, and a credential that exists
Usable(conn, self) ==
  IF conn.type = "socket"
  THEN \A h \in HostsOf(cfg) : h.conn.type = "socket" => h.id \in self
  ELSE conn.cred \in IdsOf(cfg.creds)

-----------------------------------------------------------------------------
(* calls *)

\* a call waits in the queue, for the engine, for a list of endpoints..., and
\* keeps in `what` a value it needs after that
Call(op, at, host) ==
  [op |-> op, at |-> at, host |-> host, what |-> None, rest |-> <<>>, of |-> None, cut |-> FALSE]
NoCall == Call("none", "idle", None)
CallWith(op, at, what) == [Call(op, at, None) EXCEPT !.what = what]

\* the calls that do not write the config
Reads == {"view", "test", "info", "login"}
BeginRead(c) ==
  /\ call[c] = NoCall
  /\ reads < MaxReads /\ reads' = reads + 1
  /\ UNCHANGED <<writes, raced>>
BeginWrite(c) ==
  /\ call[c] = NoCall
  /\ writes < MaxWrites /\ writes' = writes + 1
  /\ raced' = (raced \/ \E d \in Clients : call[d] # NoCall /\ call[d].op \notin Reads)
  /\ UNCHANGED reads

Write(c, op, arg) == Append(queue, <<c, op, arg>>)

\* a call whose one write is queued; `then` are the writes after it
Queue(c, name, host, op, arg, then) ==
  /\ queue' = Write(c, op, arg)
  /\ call' = [call EXCEPT ![c] = [Call(name, "queue", host) EXCEPT !.rest = then]]
  /\ UNCHANGED <<cfg, cache, probe>>

DefaultToo(makeDefault, id) == IF makeDefault THEN <<<<"setDefault", id>>>> ELSE <<>>

-----------------------------------------------------------------------------
(* transports *)

\* mutant: every write drops every transport
DropAll(next) == {h \in HostIds : cache[h] # None}

\* invalidateChanged(): the transports built from something else
Stale(next) ==
  {h \in HostIds : cache[h] # None
                   /\ ~(h \in TakenIds(next)
                        /\ Fingerprint(next, HostNamed(next, h).conn) = cache[h].print)}

\* invalidate(): its probe goes with a transport, not without one
Invalidate(ids) ==
  /\ cache' = [h \in HostIds |-> IF h \in ids THEN None ELSE cache[h]]
  /\ probe' = [h \in HostIds |-> IF h \in ids /\ cache[h] # None THEN None ELSE probe[h]]

\* the calls that run on a transport of these hosts lose it
Cut(cs, ids) ==
  [d \in Clients |-> IF cs[d] # NoCall /\ cs[d].op \in {"view", "info"} /\ cs[d].host \in ids
                     THEN [cs[d] EXCEPT !.cut = TRUE] ELSE cs[d]]

\* backendFor(): the cached one, or a new one; requires that it resolves
BackendFor(id) ==
  /\ ResolvedHost(cfg, id) # None
  /\ LET print == Fingerprint(cfg, HostNamed(cfg, id).conn)
         built == [print |-> print, of |-> ResolvedHost(cfg, id)] IN
     cache' = [cache EXCEPT ![id] = IF @ # None /\ @.print = print THEN @ ELSE built]

-----------------------------------------------------------------------------
(* the queue *)

\* importPortainerEndpoints(), one endpoint: the host that has it is put
\* again as it is now, otherwise a new one under the first free id
ImportOne(c, cred, e) ==
  LET conn == [type |-> "portainer", cred |-> cred, endpoint |-> e]
      same == {h \in HostsOf(c) : h.conn = conn} IN
  IF same # {} THEN CHOOSE h \in same : TRUE
  ELSE [id |-> FreeId("box", TakenIds(c)), conn |-> conn, agents |-> {}]

\* what a call queues next, in the turn its last write is done
Follow(next, k) ==
  IF k.rest = <<>> THEN <<>>
  ELSE IF k.op = "import" THEN <<<<"putHost", ImportOne(next, k.what.cred, Head(k.rest))>>>>
  ELSE <<Head(k.rest)>>

\* remove() invalidates its host once more, when the write is done
DropAfter(k) == IF k.op = "remove" THEN {k.host} ELSE {}

\* the call after its write: it queues the next one, goes on, or is over
Resumed(k) ==
  IF k.rest # <<>> THEN [k EXCEPT !.rest = Tail(@)]
  ELSE IF k.op = "removeProfile" /\ k.what.volume # None THEN [k EXCEPT !.at = "volumes"]
  ELSE NoCall

Commit ==
  /\ queue # <<>>
  /\ LET c    == Head(queue)[1]
         k    == call[c]
         next == Mutated(cfg, Head(queue)[2], Head(queue)[3])
         drop == Stale(next) \cup DropAfter(k)
         more == Follow(next, k) IN
     /\ cfg' = next
     /\ queue' = Tail(queue) \o [i \in DOMAIN more |-> <<c>> \o more[i]]
     /\ Invalidate(drop)
     /\ call' = Cut([call EXCEPT ![c] = Resumed(k)], drop)
  /\ UNCHANGED <<writes, reads, raced>>

\* the write is refused by the schema or the disk, and the call with it
CommitFails ==
  /\ queue # <<>>
  /\ queue' = Tail(queue)
  /\ call' = [call EXCEPT ![Head(queue)[1]] = NoCall]
  /\ UNCHANGED <<cfg, cache, probe, writes, reads, raced>>

-----------------------------------------------------------------------------
(* hosts *)

CreateHost(c, wanted, conn, makeDefault) ==
  LET id == IF wanted = None THEN FreeId("box", TakenIds(cfg)) ELSE wanted IN
  /\ BeginWrite(c)
  /\ id \notin TakenIds(cfg)
  /\ Usable(conn, {})
  /\ Queue(c, "create", id, "putHost", [id |-> id, conn |-> conn, agents |-> {}],
           DefaultToo(makeDefault, id))

\* the whole record is put, with what the body does not name as it is now
UpdateHost(c, id, conn, makeDefault) ==
  /\ BeginWrite(c)
  /\ id \in TakenIds(cfg)
  /\ conn # None => Usable(conn, {id})
  /\ LET host == HostNamed(cfg, id) IN
     Queue(c, "update", id, "putHost",
           [host EXCEPT !.conn = IF conn = None THEN @ ELSE conn], DefaultToo(makeDefault, id))

SetEnabledAgents(c, id, agents) ==
  /\ BeginWrite(c)
  /\ id \in TakenIds(cfg)
  /\ agents \subseteq cfg.agents
  /\ Queue(c, "agents", id, "putHost", [HostNamed(cfg, id) EXCEPT !.agents = agents], <<>>)

RemoveHost(c, id, force) ==
  /\ BeginWrite(c)
  /\ id \in TakenIds(cfg)
  /\ ContainersOn(cfg, id) = {} \/ force
  /\ Queue(c, "remove", id, "deleteHost", id, <<>>)

SetDefault(c, id) ==
  /\ BeginWrite(c)
  /\ id \in TakenIds(cfg)
  /\ Queue(c, "default", id, "setDefault", id, <<>>)

ImportPortainerEndpoints(c, cred) ==
  /\ BeginWrite(c)
  /\ cred \in IdsOf(cfg.creds)
  /\ call' = [call EXCEPT ![c] = CallWith("import", "endpoints", [cred |-> cred])]
  /\ UNCHANGED <<cfg, queue, cache, probe>>

\* the Portainer answers with some of its endpoints, or not at all
EndpointsListed(c, list) ==
  /\ call[c] # NoCall /\ call[c].at = "endpoints"
  /\ IF list = <<>>
     THEN call' = [call EXCEPT ![c] = NoCall] /\ UNCHANGED queue
     ELSE /\ queue' = Write(c, "putHost", ImportOne(cfg, call[c].what.cred, Head(list)))
          /\ call' = [call EXCEPT ![c].at = "queue", ![c].rest = Tail(list)]
  /\ UNCHANGED <<cfg, cache, probe, writes, reads, raced>>

-----------------------------------------------------------------------------
(* credentials *)

\* the first number nobody has
CreateCredential(c, key) ==
  /\ BeginWrite(c)
  /\ Creds \ IdsOf(cfg.creds) # {}
  /\ Queue(c, "credential", None, "putCredential",
           [id |-> Min(Creds \ IdsOf(cfg.creds)), key |-> key], <<>>)

UpdateCredential(c, id, key) ==
  /\ BeginWrite(c)
  /\ id \in IdsOf(cfg.creds)
  /\ Queue(c, "credential", None, "putCredential", [Named(cfg.creds, id) EXCEPT !.key = key], <<>>)

\* mutant: does not ask which hosts use it
RemoveCredentialBlind(c, id) ==
  /\ BeginWrite(c)
  /\ id \in IdsOf(cfg.creds)
  /\ Queue(c, "credential", None, "deleteCredential", id, <<>>)

RemoveCredential(c, id) ==
  /\ BeginWrite(c)
  /\ id \in IdsOf(cfg.creds)
  /\ UsersOfCred(cfg, id) = {}
  /\ Queue(c, "credential", None, "deleteCredential", id, <<>>)

-----------------------------------------------------------------------------
(* probes, and calls that run on a host *)

\* info() and every other call of a backend: it holds the transport it got
Use(c, id, op) ==
  /\ BeginRead(c)
  /\ BackendFor(id)
  /\ call' = [call EXCEPT ![c] = [Call(op, "engine", id) EXCEPT !.of = ResolvedHost(cfg, id)]]
  /\ UNCHANGED <<cfg, queue, probe>>

\* view with ?probe=1: the last answer while it is fresh, or a new one
View(c, id) ==
  /\ probe[id] # None => ~probe[id].fresh
  /\ Use(c, id, "view")

\* test(): a transport of its own, which nobody cuts
Test(c, id) ==
  /\ BeginRead(c)
  /\ id \in TakenIds(cfg)
  /\ LET of == ResolvedHost(cfg, id) IN
     IF of = None
     THEN /\ probe' = [probe EXCEPT ![id] = [of |-> None, ok |-> FALSE, fresh |-> TRUE]]
          /\ UNCHANGED call
     ELSE /\ call' = [call EXCEPT ![c] = [Call("test", "engine", id) EXCEPT !.of = of]]
          /\ UNCHANGED probe
  /\ UNCHANGED <<cfg, queue, cache>>

\* whatever it is of by then, the answer is the host's probe
Answered(c, ok) ==
  /\ call[c] # NoCall /\ call[c].at = "engine"
  /\ call' = [call EXCEPT ![c] = NoCall]
  /\ probe' = IF call[c].op = "info" /\ ~ok THEN probe
              ELSE [probe EXCEPT ![call[c].host] =
                     [of |-> call[c].of, ok |-> ok, fresh |-> TRUE]]
  /\ UNCHANGED <<cfg, queue, cache, writes, reads, raced>>

\* the engine answers, or the call fails in its own time
EngineAnswers(c) == \E ok \in BOOLEAN : Answered(c, ok)

\* withTimeout(): a view does not wait longer than its timer
ProbeTimesOut(c) == call[c] # NoCall /\ call[c].op = "view" /\ Answered(c, FALSE)

ProbeExpires(id) ==
  /\ probe[id] # None /\ probe[id].fresh
  /\ probe' = [probe EXCEPT ![id].fresh = FALSE]
  /\ UNCHANGED <<cfg, queue, call, cache, writes, reads, raced>>

-----------------------------------------------------------------------------
HostInit ==
  /\ cfg \in Installs
  /\ queue = <<>>
  /\ call = [c \in Clients |-> NoCall]
  /\ cache = [h \in HostIds |-> None]
  /\ probe = [h \in HostIds |-> None]
  /\ writes = 0 /\ reads = 0
  /\ raced = FALSE

HostCalls(c) ==
  \/ \E id \in WantedIds \cup {None}, conn \in Asked, d \in BOOLEAN :
       CreateHost(c, id, conn, d)
  \/ \E id \in HostIds, conn \in Asked \cup {None}, d \in BOOLEAN :
       UpdateHost(c, id, conn, d)
  \/ \E id \in HostIds, set \in SUBSET Agents : SetEnabledAgents(c, id, set)
  \/ \E id \in HostIds, force \in BOOLEAN : RemoveHost(c, id, force)
  \/ \E id \in HostIds : SetDefault(c, id)
  \/ \E cred \in Creds : ImportPortainerEndpoints(c, cred)
  \/ \E list \in {<<>>} \cup {<<e>> : e \in Endpoints} \cup {SetToSeq(Endpoints)} :
       EndpointsListed(c, list)
  \/ \E key \in Keys : CreateCredential(c, key)
  \/ \E id \in Creds, key \in Keys : UpdateCredential(c, id, key)
  \/ \E id \in Creds : RemoveCredential(c, id)
  \/ \E id \in HostIds : Use(c, id, "info") \/ View(c, id) \/ Test(c, id)
  \/ EngineAnswers(c)
  \/ ProbeTimesOut(c)
=============================================================================
