--------------------------- MODULE ContainerService ---------------------------
(***************************************************************************)
(* The container lifecycle of server/src/containers/service.ts: create,    *)
(* update, recreate, start, stop, restart, remove and reconcile, and the   *)
(* background preparation that builds the image and syncs the tools volume *)
(* of a host before a container is created on it.                          *)
(*                                                                         *)
(* The server is one Node process: an API call runs until its next await,  *)
(* other calls run in between.  A task below is one call in progress (an   *)
(* element of Requests) or one runPreparation in progress (an element of   *)
(* Runners); its pc names the awaited operation whose answer it will       *)
(* consume next, and an action is that answer together with the code up to *)
(* the next await.  What the task keeps in local variables over an await   *)
(* (the container it saw, the definition it captured) is in its record.    *)
(*                                                                         *)
(* Outside the program: the docker engine of every host (containers,       *)
(* volumes, images).  It refuses a second container of the same name, and  *)
(* refuses to remove a volume that a container uses.                       *)
(***************************************************************************)
EXTENDS Naturals

CONSTANTS
  Hosts,           \* hosts that exist when the server boots
  Names,           \* container names
  Versions,        \* contents of a definition a user may submit
  Images,          \* images a definition may ask for
  Recipes,         \* the images that are built here; the others are pulled
  ImageOf,         \* [Versions -> Images]
  AutoStart,       \* versions with autoStart set
  Requests,        \* slots for API calls in progress
  Runners,         \* slots for preparations in progress
  Calls,           \* API calls the environment makes in this instance
  OneAtATime,      \* whether it waits for the server to be idle before a call
  Provisioned,     \* hosts with every image built and tools synced at boot
  DeletableHosts,  \* hosts DELETE /api/hosts/:id?force=1 may remove
  MaxCalls,        \* bound: API calls made
  MaxFaults,       \* bound: engine, config-write and job failures
  MaxCrashes,      \* bound: server restarts
  None

Modes == {"create", "replace", "start", "stop", "restart", "remove", "adopt"}

ASSUME ConstantsAssumption ==
  /\ ImageOf \in [Versions -> Images]
  /\ Recipes \subseteq Images
  /\ AutoStart \subseteq Versions
  /\ Requests \cap Runners = {}
  /\ Calls \subseteq Modes \cup {"recreate"}
  /\ OneAtATime \in BOOLEAN
  /\ Provisioned \subseteq Hosts
  /\ DeletableHosts \subseteq Hosts
  /\ MaxCalls \in Nat /\ MaxFaults \in Nat /\ MaxCrashes \in Nat
  /\ None \notin Hosts \cup Names \cup Versions

VARIABLES
  config,        \* stored definition of each name, or None (ConfigStore)
  preparations,  \* keys of the preparations map
  task,          \* what every call and every preparation is doing
  hosts,         \* hosts still configured
  engine,        \* the container of each name on each host, or None
  volume,        \* the workspace volume of each name on each host: None, 0 while
                 \* empty, else the id of the container that first ran on it
  built,         \* images present on each host
  synced,        \* does the tools volume of the host carry the bootstrap
  nextId,        \* next container id the engines hand out
  calls, faults, crashes

vars == <<config, preparations, task, hosts, engine, volume, built, synced,
          nextId, calls, faults, crashes>>

engineVars == <<engine, volume, nextId>>
hostVars   == <<hosts, built, synced>>
boundVars  == <<calls, crashes>>

Tasks == Requests \cup Runners
Definition == [host : Hosts, ver : Versions]
Container  == [id : Nat, ver : Versions, state : {"created", "running", "exited"}]
Needs      == {"image", "tools"}

ASSUME NoneAssumption ==
  /\ None \notin Definition /\ None \notin Container /\ None \notin Modes /\ None \notin Nat

PCs == {"idle", "checkName", "checkHost", "store", "prepare", "awaitJobs",
        "resolveImage", "listVolumes", "createVolume", "createContainer",
        "startNew", "storeNew", "removeNew", "dropFresh",
        "findPrevious", "stopPrevious", "removePrevious",
        "storeReplaced", "startReplaced",
        "locate", "loadConfig", "checkAdopt", "storeAdopted", "startExisting",
        "stopContainer", "restartContainer",
        "stopToRemove", "removeContainer", "dropVolume", "forget"}

TaskRecord ==
  [pc    : PCs,
   mode  : Modes \cup {None},
   name  : Names \cup {None},
   host  : Hosts \cup {None},            \* the HostScope in use
   cfg   : Definition \cup {None},       \* the definition captured
   input : Versions \cup {None},         \* what PUT submitted
   id    : Nat,                          \* container seen or created, 0 = none
   on    : BOOLEAN,                      \* it was running when seen
   fresh : BOOLEAN,                      \* volume absent before it was created
   since : Nat,                          \* history: nextId when it was missing
   need  : SUBSET Needs,                 \* preparation steps left
   vols  : BOOLEAN]                      \* removeVolumes=1

Idle == [pc |-> "idle", mode |-> None, name |-> None, host |-> None,
         cfg |-> None, input |-> None, id |-> 0, on |-> FALSE,
         fresh |-> FALSE, since |-> 0, need |-> {}, vols |-> FALSE]

Init ==
  /\ config = [n \in Names |-> None]
  /\ preparations = {}
  /\ task = [t \in Tasks |-> Idle]
  /\ hosts = Hosts
  /\ engine = [h \in Hosts |-> [n \in Names |-> None]]
  /\ volume = [h \in Hosts |-> [n \in Names |-> None]]
  /\ built \in [Hosts -> SUBSET Images]
  /\ synced \in [Hosts -> BOOLEAN]
  /\ \A h \in Provisioned : built[h] = Images /\ synced[h]
  /\ nextId = 1
  /\ calls = 0 /\ faults = 0 /\ crashes = 0

-----------------------------------------------------------------------------
(* Vocabulary of the actions. *)

At(t, p) == task[t].pc = p
AllIdle == \A t \in Tasks : At(t, "idle")

\* the container that carries t's name on the host t works with
Live(t) == engine[task[t].host][task[t].name]

\* matched by id: docker answers 404 for any other id
StillThere(t) == Live(t) # None /\ Live(t).id = task[t].id

Fault == faults < MaxFaults /\ faults' = faults + 1
Fine  == UNCHANGED faults

Continue(t, p) ==
  /\ task' = [task EXCEPT ![t].pc = p]
  /\ UNCHANGED preparations

\* return or throw; for runPreparation this is its finally block
Finish(t) ==
  /\ task' = [task EXCEPT ![t] = Idle]
  /\ preparations' = IF t \in Runners THEN preparations \ {task[t].name}
                                      ELSE preparations

SetLive(t, c) ==
  engine' = [engine EXCEPT ![task[t].host][task[t].name] = c]

Volume(t) == volume[task[t].host][task[t].name]

SetVolume(t, v) ==
  volume' = [volume EXCEPT ![task[t].host][task[t].name] = v]

\* a container that runs has its workspace: seeded by git clone or by its user
RunLive(t) ==
  /\ SetLive(t, [Live(t) EXCEPT !.state = "running"])
  /\ SetVolume(t, IF Volume(t) = 0 THEN Live(t).id ELSE Volume(t))
  /\ UNCHANGED nextId

PutConfig(t) == config' = [config EXCEPT ![task[t].name] = task[t].cfg]

Boots(t) == task[t].mode = "start" \/ task[t].cfg.ver \in AutoStart

\* mutant: a start that has no container waits for one to appear
ReadyWaits(k) ==
  CASE k.mode = "create"  -> "resolveImage"
    [] k.mode = "replace" -> "findPrevious"
    [] OTHER -> IF k.id = 0 THEN "locate" ELSE "startExisting"

\* where a task goes once the host is known to be ready
Ready(k) ==
  CASE k.mode = "create"  -> "resolveImage"
    [] k.mode = "replace" -> "findPrevious"
    [] OTHER -> IF k.id = 0 THEN "resolveImage" ELSE "startExisting"

\* a start called back by a preparation must not prepare again
Gate(t, k) == IF t \in Runners THEN Ready(k) ELSE "checkHost"

-----------------------------------------------------------------------------
(* The API calls up to their first await.  A call that is refused there    *)
(* changes nothing and is left out.                                        *)

Call(t, kind, k) ==
  /\ t \in Requests
  /\ At(t, "idle")
  /\ kind \in Calls
  /\ OneAtATime => AllIdle
  /\ calls < MaxCalls
  /\ calls' = calls + 1
  /\ task' = [task EXCEPT ![t] = k]
  /\ UNCHANGED <<config, preparations, engineVars, hostVars, faults, crashes>>

CallCreate(t, n, h, v) ==
  /\ h \in hosts
  /\ config[n] = None
  /\ Call(t, "create", [Idle EXCEPT !.pc = "checkName", !.mode = "create",
                          !.name = n, !.host = h,
                          !.cfg = [host |-> h, ver |-> v]])

\* update and recreate of a stored definition
CallReplace(t, n, v) ==
  /\ config[n] # None
  /\ config[n].host \in hosts
  /\ Call(t, IF v = None THEN "recreate" ELSE "replace",
          [Idle EXCEPT !.pc = "checkHost", !.mode = "replace", !.name = n,
             !.host = config[n].host, !.input = v,
             !.cfg = IF v = None THEN config[n]
                                 ELSE [config[n] EXCEPT !.ver = v]])

\* locate() reads the stored definition at once; a host that is gone throws
LocateFrom(n) == IF config[n] = None THEN None ELSE config[n].host
Locatable(n)  == config[n] # None => config[n].host \in hosts

CallLocated(t, n, mode, v, vols) ==
  /\ Locatable(n)
  /\ mode = "replace" => config[n] = None        \* loadConfig of an orphan
  /\ Call(t, IF mode = "replace" /\ v = None THEN "recreate" ELSE mode,
          [Idle EXCEPT !.pc = "locate", !.mode = mode, !.name = n,
             !.host = LocateFrom(n), !.input = v, !.vols = vols])

\* a definition whose host was deleted is dropped without asking an engine
CallRemoveDangling(t, n) ==
  /\ ~Locatable(n)
  /\ Call(t, "remove", [Idle EXCEPT !.pc = "forget", !.mode = "remove", !.name = n])

\* reconcile(adopt): the scan found a container without a definition
CallReconcile(t, n, h) ==
  /\ h \in hosts
  /\ engine[h][n] # None
  /\ config[n] = None
  /\ Call(t, "adopt", [Idle EXCEPT !.pc = "checkAdopt", !.mode = "adopt",
                         !.name = n, !.host = h,
                         !.cfg = [host |-> h, ver |-> engine[h][n].ver]])

-----------------------------------------------------------------------------
(* create: the name must be free on the engine too. *)

CheckName(t) ==
  /\ At(t, "checkName")
  /\ \/ Fault /\ Finish(t)
     \/ Fine /\ Live(t) # None /\ Finish(t)
     \/ Fine /\ Live(t) = None /\ Continue(t, "checkHost")
  /\ UNCHANGED <<config, engineVars, hostVars, boundVars>>

\* the truth, and what a failing probe makes of it: an image that cannot be
\* inspected looks absent, tools that cannot be read are not waited for
Unbuilt(k) == k.id = 0 /\ ImageOf[k.cfg.ver] \in Recipes \ built[k.host]

\* mutant: forgets the image
StepsNeededTools(k) == IF synced[k.host] THEN {} ELSE {"tools"}

StepsNeeded(k) ==
  IF Unbuilt(k) THEN Needs ELSE IF synced[k.host] THEN {} ELSE {"tools"}

StepsMisread(k) ==
  {need \in {Needs, {}} :
     IF need = {} THEN ~Unbuilt(k)
                  ELSE k.id = 0 /\ ImageOf[k.cfg.ver] \in Recipes}

\* preparationSteps; start looks at the image only when it has no container
CheckHost(t) ==
  LET k == task[t]
      Seen == [k EXCEPT !.id = IF k.mode = "start" THEN k.id ELSE 0]
  IN
  /\ At(t, "checkHost")
  /\ \E need \in {StepsNeeded(Seen)} \cup StepsMisread(Seen) :
       /\ IF need = StepsNeeded(Seen) THEN Fine ELSE Fault
       /\ task' = [task EXCEPT ![t].need = need,
                     ![t].pc = IF need = {} THEN Ready(k)
                               ELSE IF k.mode = "start" THEN "prepare"
                               ELSE "store"]
  /\ UNCHANGED <<config, preparations, engineVars, hostVars, boundVars>>

\* mutant: no look at the map
PrepareAgain(t, mode) ==
  \E w \in Runners :
    /\ At(w, "idle")
    /\ preparations' = preparations \cup {task[t].name}
    /\ task' = [task EXCEPT ![t] = Idle,
                  ![w] = [task[t] EXCEPT !.pc = "awaitJobs", !.mode = mode]]

\* prepare(): at most one preparation per name; a later caller just returns
Prepare(t, mode) ==
  LET k == task[t] IN
  IF k.name \in preparations
  THEN Finish(t)
  ELSE \E w \in Runners :
         /\ At(w, "idle")
         /\ preparations' = preparations \cup {k.name}
         /\ task' = [task EXCEPT ![t] = Idle,
                       ![w] = [Idle EXCEPT !.pc = "awaitJobs", !.mode = mode,
                                 !.name = k.name, !.host = k.host,
                                 !.cfg = k.cfg, !.need = k.need]]

\* create and replace store the definition before the work starts
StoreAndPrepare(t) ==
  /\ At(t, "store")
  /\ \/ Fault /\ Finish(t) /\ UNCHANGED config
     \/ Fine /\ PutConfig(t) /\ Prepare(t, task[t].mode)
  /\ UNCHANGED <<engineVars, hostVars, boundVars>>

StartPreparing(t) ==
  /\ At(t, "prepare")
  /\ Prepare(t, IF task[t].id = 0 THEN "create" ELSE "start")
  /\ UNCHANGED <<config, engineVars, hostVars, faults, boundVars>>

-----------------------------------------------------------------------------
(* runPreparation: the jobs, then the create, replace or start it was for. *)

AwaitBuild(t) ==
  /\ At(t, "awaitJobs")
  /\ "image" \in task[t].need
  /\ \/ Fault /\ Finish(t) /\ UNCHANGED built
     \/ /\ Fine
        /\ built' = [built EXCEPT ![task[t].host] = @ \cup {ImageOf[task[t].cfg.ver]}]
        /\ task' = [task EXCEPT ![t].need = @ \ {"image"}]
        /\ UNCHANGED preparations
  /\ UNCHANGED <<config, engineVars, hosts, synced, boundVars>>

\* start() locates the container again, minutes have passed
AwaitSync(t) ==
  LET k == task[t]
      done == [k EXCEPT !.need = {}]
  IN
  /\ At(t, "awaitJobs")
  /\ "image" \notin k.need
  /\ \/ Fault /\ Finish(t) /\ UNCHANGED synced
     \/ /\ Fine
        /\ synced' = [synced EXCEPT ![k.host] = TRUE]
        /\ IF k.mode # "start"
           THEN task' = [task EXCEPT ![t] = [done EXCEPT !.pc = Ready(k)]]
                /\ UNCHANGED preparations
           ELSE IF Locatable(k.name)
           THEN task' = [task EXCEPT ![t] = [done EXCEPT !.pc = "locate",
                                               !.host = LocateFrom(k.name)]]
                /\ UNCHANGED preparations
           ELSE Finish(t)
  /\ UNCHANGED <<config, engineVars, hosts, built, boundVars>>

-----------------------------------------------------------------------------
(* createContainerFor: image and tools first, then volumes, then container *)

\* resolveImage pulls an image that is no recipe; requireSyncedTools refuses
\* only when the probe is sure
ResolveImage(t) ==
  LET k == task[t]
      image == ImageOf[k.cfg.ver]
  IN
  /\ At(t, "resolveImage")
  /\ \/ Fault /\ Finish(t) /\ UNCHANGED built
     \/ Fine /\ image \in Recipes \ built[k.host] /\ Finish(t) /\ UNCHANGED built
     \/ /\ image \notin Recipes \ built[k.host]
        /\ built' = [built EXCEPT ![k.host] = @ \cup {image}]
        /\ \/ Fine  /\ synced[k.host]  /\ Continue(t, "listVolumes")
           \/ Fault /\ ~synced[k.host] /\ Continue(t, "listVolumes")
           \/ Fine  /\ ~synced[k.host] /\ Finish(t)
  /\ UNCHANGED <<config, engineVars, hosts, synced, boundVars>>

\* mutant: takes every volume for one of its own
ListVolumesCareless(t) ==
  /\ At(t, "listVolumes")
  /\ Fine
  /\ task' = [task EXCEPT ![t].pc = "createVolume", ![t].fresh = TRUE, ![t].since = nextId]
  /\ UNCHANGED <<config, preparations, engineVars, hostVars, boundVars>>

\* existingVolumeNames: unknown means nothing is rolled back
ListVolumes(t) ==
  /\ At(t, "listVolumes")
  /\ \E known \in BOOLEAN :
       LET fresh == known /\ Volume(t) = None IN
       /\ IF known THEN Fine ELSE Fault
       /\ task' = [task EXCEPT ![t].pc = "createVolume", ![t].fresh = fresh,
                     ![t].since = IF fresh THEN nextId ELSE 0]
  /\ UNCHANGED <<config, preparations, engineVars, hostVars, boundVars>>

\* idempotent on the engine
VolumeEnsured(t) ==
  IF Volume(t) = None THEN SetVolume(t, 0) ELSE UNCHANGED volume

CreateVolume(t) ==
  /\ At(t, "createVolume")
  /\ \/ Fault /\ Finish(t) /\ UNCHANGED volume
     \/ Fine /\ VolumeEnsured(t) /\ Continue(t, "createContainer")
  /\ UNCHANGED <<config, engine, nextId, hostVars, boundVars>>

AfterCreate(t) ==
  IF task[t].mode = "replace" THEN "storeReplaced"
  ELSE IF Boots(t) THEN "startNew" ELSE "storeNew"

CreateContainer(t) ==
  LET k == task[t] IN
  /\ At(t, "createContainer")
  /\ \/ /\ \/ Fault
           \/ Fine /\ Live(t) # None
        /\ Continue(t, "dropFresh")
        /\ UNCHANGED engineVars
     \/ /\ Fine
        /\ Live(t) = None
        /\ SetLive(t, [id |-> nextId, ver |-> k.cfg.ver, state |-> "created"])
        /\ VolumeEnsured(t)
        /\ nextId' = nextId + 1
        /\ task' = [task EXCEPT ![t].id = nextId, ![t].pc = AfterCreate(t)]
        /\ UNCHANGED preparations
  /\ UNCHANGED <<config, hostVars, boundVars>>

-----------------------------------------------------------------------------
(* materialize: start, persist, and the rollback of both. *)

\* mutant: a failed start rolls only the volume back
StartNewKeeps(t) ==
  /\ At(t, "startNew")
  /\ \/ Fine /\ StillThere(t) /\ RunLive(t) /\ Continue(t, "storeNew")
     \/ Fault /\ Continue(t, "dropFresh") /\ UNCHANGED engineVars
  /\ UNCHANGED <<config, hostVars, boundVars>>

StartNew(t) ==
  /\ At(t, "startNew")
  /\ \/ Fine /\ StillThere(t) /\ RunLive(t) /\ Continue(t, "storeNew")
     \/ /\ Fault \/ (Fine /\ ~StillThere(t))
        /\ Continue(t, "removeNew")
        /\ UNCHANGED engineVars
  /\ UNCHANGED <<config, hostVars, boundVars>>

StoreNew(t) ==
  /\ At(t, "storeNew")
  /\ \/ Fine /\ PutConfig(t) /\ Finish(t)
     \/ Fault /\ Continue(t, "removeNew") /\ UNCHANGED config
  /\ UNCHANGED <<engineVars, hostVars, boundVars>>

\* safeRemoveContainer swallows every error
RemoveNew(t) ==
  /\ At(t, "removeNew")
  /\ Continue(t, "dropFresh")
  /\ \/ Fine /\ StillThere(t) /\ SetLive(t, None)
     \/ Fine /\ ~StillThere(t) /\ UNCHANGED engine
     \/ Fault /\ UNCHANGED engine
  /\ UNCHANGED <<config, volume, nextId, hostVars, boundVars>>

\* removeFreshVolumes; an engine refuses while a container uses the volume
DropFresh(t) ==
  /\ At(t, "dropFresh")
  /\ Finish(t)
  /\ \/ Fine /\ task[t].fresh /\ Live(t) = None /\ SetVolume(t, None)
     \/ Fine /\ ~(task[t].fresh /\ Live(t) = None) /\ UNCHANGED volume
     \/ Fault /\ task[t].fresh /\ UNCHANGED volume
  /\ UNCHANGED <<config, engine, nextId, hostVars, boundVars>>

-----------------------------------------------------------------------------
(* doReplace: the previous container goes before the next one is created.  *)

FindPrevious(t) ==
  /\ At(t, "findPrevious")
  /\ \/ Fault /\ Finish(t)
     \/ /\ Fine
        /\ Live(t) = None
        /\ task' = [task EXCEPT ![t].pc = "resolveImage", ![t].id = 0, ![t].on = FALSE]
        /\ UNCHANGED preparations
     \/ /\ Fine
        /\ Live(t) # None
        /\ task' = [task EXCEPT ![t].id = Live(t).id,
                      ![t].on = Live(t).state = "running",
                      ![t].pc = IF Live(t).state = "running" THEN "stopPrevious"
                                                              ELSE "removePrevious"]
        /\ UNCHANGED preparations
  /\ UNCHANGED <<config, engineVars, hostVars, boundVars>>

\* stopContainer(task.id): state becomes exited when the container is there
StopLive(t) ==
  IF StillThere(t) /\ Live(t).state = "running"
  THEN SetLive(t, [Live(t) EXCEPT !.state = "exited"])
  ELSE UNCHANGED engine

RemoveLive(t) == IF StillThere(t) THEN SetLive(t, None) ELSE UNCHANGED engine

StopPrevious(t) ==
  /\ At(t, "stopPrevious")
  /\ \/ Fault /\ Finish(t) /\ UNCHANGED engine
     \/ Fine /\ StopLive(t) /\ Continue(t, "removePrevious")
  /\ UNCHANGED <<config, volume, nextId, hostVars, boundVars>>

RemovePrevious(t) ==
  /\ At(t, "removePrevious")
  /\ \/ Fault /\ Finish(t) /\ UNCHANGED engine
     \/ Fine /\ RemoveLive(t) /\ Continue(t, "resolveImage")
  /\ UNCHANGED <<config, volume, nextId, hostVars, boundVars>>

\* mutant: the new definition is not written back
ReplacedUnstored(t) ==
  /\ At(t, "storeReplaced")
  /\ Fine /\ Continue(t, "startReplaced")
  /\ UNCHANGED <<config, engineVars, hostVars, boundVars>>

StoreReplaced(t) ==
  /\ At(t, "storeReplaced")
  /\ \/ Fault /\ Finish(t) /\ UNCHANGED config
     \/ /\ Fine
        /\ PutConfig(t)
        /\ IF task[t].on \/ Boots(t) THEN Continue(t, "startReplaced") ELSE Finish(t)
  /\ UNCHANGED <<engineVars, hostVars, boundVars>>

StartReplaced(t) ==
  /\ At(t, "startReplaced")
  /\ Finish(t)
  /\ \/ Fine /\ StillThere(t) /\ RunLive(t)
     \/ (Fault \/ (Fine /\ ~StillThere(t))) /\ UNCHANGED engineVars
  /\ UNCHANGED <<config, hostVars, boundVars>>

-----------------------------------------------------------------------------
(* locate: the container of a stored definition on its host, or of an      *)
(* orphan on any host.                                                     *)

\* what the caller does with the container it got (k.id = 0: none)
AfterLocate(k) ==
  CASE k.mode = "start"   -> "loadConfig"
    [] k.mode = "replace" -> IF k.id = 0 THEN "idle" ELSE "checkAdopt"
    [] k.mode = "stop"    -> IF k.on THEN "stopContainer" ELSE "idle"
    [] k.mode = "restart" -> IF k.id = 0 THEN "idle" ELSE "restartContainer"
    [] OTHER -> IF k.on THEN "stopToRemove"
                ELSE IF k.id # 0 THEN "removeContainer"
                ELSE IF k.vols THEN "dropVolume" ELSE "forget"

GoOrFinish(t, k) ==
  IF k.pc = "idle" THEN Finish(t)
  ELSE task' = [task EXCEPT ![t] = k] /\ UNCHANGED preparations

Locate(t) ==
  LET k == task[t]
      searched == IF k.host = None THEN hosts ELSE {k.host}
  IN
  /\ At(t, "locate")
  /\ \/ Fault /\ Finish(t)
     \/ /\ Fine
        /\ \E h \in searched :
             LET c == engine[h][k.name]
                 found == [k EXCEPT !.host = h, !.id = c.id,
                             !.on = c.state = "running",
                             !.cfg = [host |-> h, ver |-> c.ver]]
             IN  /\ c # None
                 /\ GoOrFinish(t, [found EXCEPT !.pc = AfterLocate(found)])
     \/ /\ Fine
        /\ \A h \in searched : engine[h][k.name] = None
        /\ IF k.host = None
           THEN Finish(t)
           ELSE GoOrFinish(t, [k EXCEPT !.id = 0, !.on = FALSE,
                                 !.pc = AfterLocate([k EXCEPT !.id = 0, !.on = FALSE])])
  /\ UNCHANGED <<config, engineVars, hostVars, boundVars>>

\* loadConfig of start: the definition is read again after the listing
LoadConfig(t) ==
  LET k == task[t] IN
  /\ At(t, "loadConfig")
  /\ task' = [task EXCEPT ![t] =
       IF config[k.name] # None
       THEN [k EXCEPT !.cfg = config[k.name], !.pc = Gate(t, k)]
       ELSE IF k.id # 0 THEN [k EXCEPT !.pc = "checkAdopt"]
       ELSE [k EXCEPT !.pc = "locate", !.host = None]]
  /\ UNCHANGED <<config, preparations, engineVars, hostVars, faults, boundVars>>

\* back in the caller of loadConfig
Adopted(t, k) ==
  CASE k.mode = "start" -> [k EXCEPT !.pc = Gate(t, k)]
    [] k.mode = "replace" /\ k.cfg.host \in hosts ->
         [k EXCEPT !.pc = "checkHost",
            !.cfg.ver = IF k.input = None THEN @ ELSE k.input]
    [] OTHER -> [k EXCEPT !.pc = "idle"]

\* adopt: somebody else may have stored it during the inspect
CheckAdopt(t) ==
  /\ At(t, "checkAdopt")
  /\ IF config[task[t].name] # None THEN GoOrFinish(t, Adopted(t, task[t]))
                                    ELSE Continue(t, "storeAdopted")
  /\ UNCHANGED <<config, engineVars, hostVars, faults, boundVars>>

StoreAdopted(t) ==
  /\ At(t, "storeAdopted")
  /\ \/ Fault /\ Finish(t) /\ UNCHANGED config
     \/ Fine /\ PutConfig(t) /\ GoOrFinish(t, Adopted(t, task[t]))
  /\ UNCHANGED <<engineVars, hostVars, boundVars>>

-----------------------------------------------------------------------------
(* start, stop, restart of a container that exists. *)

StartExisting(t) ==
  /\ At(t, "startExisting")
  /\ Finish(t)
  /\ \/ Fine /\ StillThere(t) /\ ~task[t].on /\ RunLive(t)
     \/ (Fault \/ (Fine /\ (~StillThere(t) \/ task[t].on))) /\ UNCHANGED engineVars
  /\ UNCHANGED <<config, hostVars, boundVars>>

StopContainer(t) ==
  /\ At(t, "stopContainer")
  /\ Finish(t)
  /\ \/ Fine /\ StopLive(t)
     \/ Fault /\ UNCHANGED engine
  /\ UNCHANGED <<config, volume, nextId, hostVars, boundVars>>

RestartContainer(t) ==
  /\ At(t, "restartContainer")
  /\ Finish(t)
  /\ \/ Fine /\ StillThere(t) /\ RunLive(t)
     \/ (Fault \/ (Fine /\ ~StillThere(t))) /\ UNCHANGED engineVars
  /\ UNCHANGED <<config, hostVars, boundVars>>

-----------------------------------------------------------------------------
(* remove: stop and volume errors are only logged, a failed remove throws. *)

StopToRemove(t) ==
  /\ At(t, "stopToRemove")
  /\ Continue(t, "removeContainer")
  /\ \/ Fine /\ StopLive(t)
     \/ Fault /\ UNCHANGED engine
  /\ UNCHANGED <<config, volume, nextId, hostVars, boundVars>>

RemoveContainer(t) ==
  /\ At(t, "removeContainer")
  /\ \/ Fault /\ Finish(t) /\ UNCHANGED engine
     \/ /\ Fine
        /\ RemoveLive(t)
        /\ Continue(t, IF task[t].vols THEN "dropVolume" ELSE "forget")
  /\ UNCHANGED <<config, volume, nextId, hostVars, boundVars>>

DropVolume(t) ==
  /\ At(t, "dropVolume")
  /\ Continue(t, "forget")
  /\ \/ Fine /\ IF Live(t) = None THEN SetVolume(t, None) ELSE UNCHANGED volume
     \/ Fault /\ UNCHANGED volume
  /\ UNCHANGED <<config, engine, nextId, hostVars, boundVars>>

Forget(t) ==
  /\ At(t, "forget")
  /\ Finish(t)
  /\ \/ Fine /\ config' = [config EXCEPT ![task[t].name] = None]
     \/ Fault /\ UNCHANGED config
  /\ UNCHANGED <<engineVars, hostVars, boundVars>>

-----------------------------------------------------------------------------
(* The rest of the world. *)

\* HostManager.remove with force=1: containers of the host are left dangling
DeleteHost(h) ==
  /\ h \in DeletableHosts \cap hosts
  /\ hosts' = hosts \ {h}
  /\ UNCHANGED <<config, preparations, task, engineVars, built, synced, faults, boundVars>>

\* the process dies and boots again: only config.json and the engines remain
Restart ==
  /\ crashes < MaxCrashes
  /\ crashes' = crashes + 1
  /\ task' = [t \in Tasks |-> Idle]
  /\ preparations' = {}
  /\ UNCHANGED <<config, engineVars, hostVars, calls, faults>>

\* nothing in progress, nobody calls: the one way the server may stop moving
Rest == AllIdle /\ UNCHANGED vars

Api(t) ==
  \E n \in Names :
    \/ \E h \in Hosts, v \in Versions : CallCreate(t, n, h, v)
    \/ \E v \in Versions \cup {None} : CallReplace(t, n, v)
    \/ \E v \in Versions \cup {None} : CallLocated(t, n, "replace", v, FALSE)
    \/ \E mode \in {"start", "stop", "restart"} : CallLocated(t, n, mode, None, FALSE)
    \/ \E vols \in BOOLEAN : CallLocated(t, n, "remove", None, vols)
    \/ CallRemoveDangling(t, n)
    \/ \E h \in Hosts : CallReconcile(t, n, h)

Step(t) ==
  \/ CheckName(t) \/ CheckHost(t) \/ StoreAndPrepare(t) \/ StartPreparing(t)
  \/ AwaitBuild(t) \/ AwaitSync(t)
  \/ ResolveImage(t) \/ ListVolumes(t) \/ CreateVolume(t) \/ CreateContainer(t)
  \/ StartNew(t) \/ StoreNew(t) \/ RemoveNew(t) \/ DropFresh(t)
  \/ FindPrevious(t) \/ StopPrevious(t) \/ RemovePrevious(t)
  \/ StoreReplaced(t) \/ StartReplaced(t)
  \/ Locate(t) \/ LoadConfig(t) \/ CheckAdopt(t) \/ StoreAdopted(t)
  \/ StartExisting(t) \/ StopContainer(t) \/ RestartContainer(t)
  \/ StopToRemove(t) \/ RemoveContainer(t) \/ DropVolume(t) \/ Forget(t)

Next ==
  \/ \E t \in Requests : Api(t)
  \/ \E t \in Tasks : Step(t)
  \/ \E h \in Hosts : DeleteHost(h)
  \/ Restart
  \/ Rest

Spec == Init /\ [][Next]_vars

-----------------------------------------------------------------------------
(* Properties. *)

TypeOK ==
  /\ config \in [Names -> Definition \cup {None}]
  /\ preparations \subseteq Names
  /\ task \in [Tasks -> TaskRecord]
  /\ hosts \subseteq Hosts
  /\ engine \in [Hosts -> [Names -> Container \cup {None}]]
  /\ volume \in [Hosts -> [Names -> Nat \cup {None}]]
  /\ built \in [Hosts -> SUBSET Images]
  /\ synced \in [Hosts -> BOOLEAN]
  /\ nextId \in Nat /\ calls \in Nat /\ faults \in Nat /\ crashes \in Nat

\* The preparations map has an entry for a name exactly while one preparation
\* of that name runs, and there is never a second one: a second click cannot
\* start a second build, and a finished preparation never blocks Start.
PreparationExclusive ==
  /\ \A w \in Runners : ~At(w, "idle") => task[w].name \in preparations
  /\ \A v, w \in Runners :
       ~At(v, "idle") /\ ~At(w, "idle") /\ task[v].name = task[w].name => v = w
  /\ \A n \in preparations : \E w \in Runners : ~At(w, "idle") /\ task[w].name = n

\* An edit or recreate tears the working container down only on a host that
\* can bring up the next one: its recipe is built and, as far as a probe that
\* answered could tell, its tools are synced.
ReplaceOnlyWhenReady ==
  \A t \in Tasks :
    LET k == task[t] IN
    k.mode = "replace" /\ k.pc \in {"findPrevious", "stopPrevious", "removePrevious", "resolveImage"}
      => /\ ImageOf[k.cfg.ver] \notin Recipes \ built[k.host]
         /\ faults = 0 => synced[k.host]

\* What calls that come one at a time leave when they have ended.  Where nothing
\* failed, a stored definition is what its container was created from.  A create
\* that failed, whichever single call to the engine or the config store it was,
\* has left nothing behind: no container, no volume.
Settled ==
  AllIdle /\ crashes = 0 => \A n \in Names :
    /\ faults = 0 /\ config[n] # None =>
         /\ engine[config[n].host][n] # None
         /\ engine[config[n].host][n].ver = config[n].ver
    /\ calls = 1 /\ config[n] = None =>
         \A h \in Hosts : engine[h][n] = None /\ volume[h][n] = None

\* Without a crash no container on a configured host outlives its definition,
\* whichever single call of the engine or of the config store fails.
NoOrphans ==
  AllIdle /\ crashes = 0 => \A h \in hosts, n \in Names :
    engine[h][n] # None => config[n] # None

\* a step of t on volume h, n that takes it away from whoever has run on it
TakesVolume(t, h, n) ==
  /\ volume[h][n] \notin {None, 0} /\ volume'[h][n] = None
  /\ task[t].host = h /\ task[t].name = n /\ task'[t] # task[t]

\* A volume a container has run on is deleted by a remove with removeVolumes, or
\* by the rollback of a create that looked for it before that container was
\* there and saw no volume: whatever calls overlap, a workspace that was there
\* when a create looked outlives its rollback.
WorkspaceKept ==
  [][\A h \in Hosts, n \in Names :
       volume[h][n] \notin {None, 0} /\ volume'[h][n] = None =>
         \E t \in Tasks :
           /\ TakesVolume(t, h, n)
           /\ \/ At(t, "dropVolume")
              \/ /\ At(t, "dropFresh") /\ task[t].fresh
                 /\ volume[h][n] >= task[t].since]_vars

\* A rollback takes "only the volumes it created itself, never one that already
\* held a workspace": none that the container of another create has run on.
RollbackTakesItsOwn ==
  [][\A h \in Hosts, n \in Names, t \in Tasks :
       At(t, "dropFresh") /\ TakesVolume(t, h, n) => volume[h][n] = task[t].id]_vars

\* A stored definition changes only into what an update or recreate stores:
\* "The stored definition is updated right away so the edit is never lost".
EditSurvives ==
  [][\A n \in Names :
       config[n] # None /\ config'[n] \notin {None, config[n]} =>
         \E r \in Requests :
           task[r].mode = "replace" /\ task[r].cfg = config'[n] /\ task'[r] # task[r]]_vars
=============================================================================
