# PorterClaude in TLA+

PorterClaude is a self-hosted server (TypeScript, one Node process) with a web
UI that creates docker containers for coding agents on one or several hosts,
builds the images they need, and bridges browser terminals into them. This
directory holds TLA+ models of the parts in which several things happen at once
or fail half-way, the TLC configurations that check small instances, and TLAPS
proofs for every value of the constants.

All models share one view of the program: Node runs one callback at a time, so
what happens between two `await`s is atomic and everything else interleaves. An
action is "the awaited operation answers, and its caller runs on to the next
`await`". What a handler keeps in local variables over an `await` is in a record
of its own; what it reads again afterwards is read from the shared variables.

Paths below are relative to `server/src/` unless they start with `web/` or
`docs/`.

## 1. The system

| component | state it keeps | operations | interacts with |
|---|---|---|---|
| ConfigStore (`config/store.ts`) | `config.json`, the frozen current value, a promise queue | `init`, `get`, `update` and put/delete helpers built on it | everybody reads it; `change` event to HostManager |
| HostManager (`hosts/manager.ts`) | cache of docker clients per host, by fingerprint of the connection | create, update, remove, setDefault, setEnabledAgents, `backendFor`, probe | ConfigStore, CredentialStore, backends |
| CredentialStore (`hosts/credentials.ts`) | none of its own (encrypted keys in the config) | create, update, remove, test | ConfigStore, HostManager |
| ContainerService (`containers/service.ts`) | the `preparations` map, warnings, adopted names; the engines hold containers and volumes | create, update, recreate, start, stop, restart, remove, reconcile, background `runPreparation` | ConfigStore, HostManager, ImageService, docker engines |
| ImageService (`images/service.ts`) | map of jobs (50 at most), ring buffer of 2000 lines per job, cache of tools manifests | buildRecipe, pull, syncTools, cancelJob, awaitJob, ensureRecipeImage, ensureToolsSynced | engines; ContainerService awaits its jobs |
| Job modal (`web/public/js/images.js`) | id, cursor and timer of the job shown | openJob, pollJob, hide, cancel | `GET .../jobs/:id?since=` |
| Sessions (`sessions/ws.ts`, `sessions/service.ts`, `web/public/js/session.js`) | open streams per container; per socket: alive, closed, kill requested; tmux sessions live in the container | WebSocket open, input, resize, kill, close; heartbeat; `closeAll` | ContainerService, backends |
| ProfileStore (`profiles/`) | profiles with encrypted secrets in the config | create, update (merges secrets), remove (strips containers) | ConfigStore, ContainerService |
| AgentRegistry (`agents/`) | custom agents in the config | create, update, remove, resolve; enabled list of a host | ConfigStore, HostManager |
| Auth (`auth/`) | password hash and token version in the config | login, verify, changePassword | ConfigStore |
| Backends (`backends/`) | an agent with its sockets, the number of requests in flight | the docker API over a socket or through Portainer; `close` | docker engines |
| Tools volume (`images/service.ts`) | what the last look found, which images have a version, whether the v0.1 login is across | syncTools, readToolsVolume, toolsReadiness, agentStatuses, validateCustomImage | one-shot containers on the engines; ContainerService |
| After a start (`containers/service.ts`, `profiles/apply.ts`, `profiles/plugins.ts`) | syncs under way; files and a marker inside containers and login volumes | owner, settings of the profile, plugins of the profile | ContainerService, ProfileStore, execs |
| Container spec and files (`containers/container.ts`, `model.ts`, `files.ts`) | none | pure functions; file transfer over one exec | backends |
| HTTP, start-up (`app.ts`, `index.ts`, `routes/`, `http/`) | none | one service call per route; boot; shutdown | all |
| Page shell (`web/public/js/app.js`, `api.js`, `bus.js`) | settings, the login modal, which view is on | boot, login, logout, 401 | all views over the bus |
| Views (`web/public/js/containers.js`, `hosts.js`, `agents.js`, `profiles.js`, `settings.js`, `code.js`) | the last lists, the dialog that is open and what it was opened for, polls, the layout | dialogs, toggles, uploads, saving and restoring the layout | HTTP; Bootstrap modals; GoldenLayout; localStorage |
| Tools image, deployment (`docker/`, `deploy/`) | a volume per host | scripts run once, sequentially | engines |

What is hard, and what would make each part correct:

* **ContainerService.** Two calls about one container interleave at every
  `await`; preparations last minutes and end by writing back a definition they
  captured at the start; create and replace are sequences of engine calls and a
  config write, each of which may fail, with a rollback by hand. Correct means:
  one preparation per name; a working container is only torn down when its
  successor can be created; a failed create leaves nothing; a workspace that was
  used is never deleted but on request; an edit is never lost; a name is used once.
* **ImageService.** Look-up, engine call and start of a job are not atomic; a
  job's function outlives its cancellation; the map evicts. Correct means: at
  most one running job per target, it can be found, its status is final once
  told, and whoever waits for it is answered with the truth.
* **Job log.** Two cursors have to fit together over lost lines, a poll that is
  in flight, a timer and a modal that is hidden and opened again.
* **ConfigStore.** A crash at any file operation must leave a valid file;
  updates are atomic, in order, and a failed one blocks nobody. A boot that
  migrates a file of an earlier version, wherever the last boot died, loses nothing.
* **Tools volume.** All the server knows of a volume comes from a one-shot
  container, which is a handful of calls any of which may fail, and is cached; syncs
  can overlap. Correct means: no container is left behind, the cache tells what the
  volume holds, and an old login is neither lost nor put in the place of a new one.
* **After a start.** Settings belong to a container, plugins to a volume that
  several containers may mount, and both are brought up to date by execs that may
  fail half-way while profiles change. Correct means: a container has the settings of
  its profile and of no other, and what the marker lists is installed.
* **Backends.** A connection that is changed detaches its sockets while jobs go on
  using them; a wait for minutes is asked again when it is cut. Correct means:
  nothing in flight is cut, nothing is parked for ever, and an exit code is that of a
  container that has stopped.
* **Clients of ConfigStore** (hosts, credentials, profiles, agents, auth). They
  check the current value and queue a write that overwrites a whole entity: what
  was queued in between is lost, references may dangle. Correct means: without
  such an overlap the install is whole; transports never outlive the connection
  they were built from, and are never cut without a change of it; a cookie from
  before a password change is never accepted after it.
* **Sessions.** A socket may close while its exec is being opened; a stream may
  end before anybody listens; a stream that ends may mean that the shell exited,
  the container stopped, or the network broke, and the browser acts on which.
* **Page.** Every view keeps what it is about in globals (`editing`,
  `panelHostId`, `formAgents`, `filesState`, `syncWatch`, ...), reads them again
  behind an `await`, and paints whichever answer comes last; Bootstrap's modals
  take their time and ignore calls meanwhile; a lost login may come at any
  moment. Correct means: what is stored is what was on the screen it was asked
  from; polls end when they should and only then; the page has a login form
  exactly when it has no login, and the panes come back with the login.

`PROJECT.json` lists these hazards at their lines, with the properties that
cover them or the reason why none does yet.

## 2. Modules

| module | models | checked by | proved in |
|---|---|---|---|
| `ContainerService` | lifecycle and preparation, `containers/service.ts` | `MCContainerService`: ContainerRaces, ContainerLostEdit, ContainerTwoCreators; two instances of it in `MCContainerFailures`: ContainerFailures | `ContainerServiceProofs` |
| `ImageJobs` | job registry and the stream of a build, `images/service.ts`, `backends/socket.ts` | `MCServer`: Server; by itself: CancelledBuild | `JobProofs` |
| `AtomicStore` | what the store promises (abstract) | as property of ConfigStore | `ConfigStoreProofs` |
| `ConfigStore` | queue, file operations, crashes, `config/store.ts` | `MCServer`: Server | `ConfigStoreProofs` |
| `TailedLog` | what a tailed log promises (abstract) | as property of JobLog | `JobProofs` |
| `JobLog` | ring buffer and modal, `images/service.ts`, `web/public/js/images.js` | `MCServer`: Server | `JobProofs` |
| `SessionBridge` | server side of terminal sessions, `sessions/ws.ts`, `sessions/service.ts`, `SocketExecStream` | with SessionPane | `SessionProofs` |
| `SessionPane` | browser side, `web/public/js/session.js`, composed with SessionBridge | `MCSessionPane`: Sessions | `SessionProofs` |
| `Install` | the document: what `config.json` holds and what each put/delete helper does to it, `config/store.ts` | with the next two | `CatalogProofs` |
| `HostRegistry` | hosts, credentials, the cache of transports and probes, `hosts/` | with Catalog | `CatalogProofs` |
| `Catalog` | profiles, custom agents, container references, the password, composed with HostRegistry | `MCCatalog`: Registry | `CatalogProofs` |
| `ToolsVolume` | the tools volume of a host and the one-shot containers, `images/service.ts` | `MCCatalog`: Registry | `HostProofs` |
| `AfterStart` | owners, settings and plugins in a started container, `containers/service.ts`, `profiles/` | `MCCatalog`: Registry; `MCAfterStart`: SiblingPlugins | `HostProofs` |
| `ConfigBoot` | a boot: reading, migrating, seeding, `config/store.ts` | `MCCatalog` (files in `MCConfigBoot`): Registry | `ConfigStoreProofs` |
| `Transport` | requests of one Portainer host, `backends/portainer.ts` | `MCCatalog`: Registry | `TransportProofs` |
| `Page` | what the parts of the page share: a user, failures, a Bootstrap modal | with the next seven | - |
| `Shell` | login modal, `startApp`, the poll of the list, `app.js`, `containers.js`, `settings.js` | `MCPage`: Page | `PageProofs` |
| `Layout` | the workspace, its copies in localStorage and on the server, `code.js` | `MCPage`: Page | `PageProofs` |
| `AgentsPanel` | toggles per host and the sync watch, `agents.js` | `MCPage`: Page | - |
| `HostDialogs` | host, credential and import dialogs, `hosts.js` | `MCPage`: Page, HostForm | `PageProofs` |
| `ProfileForm` | the profile form and its secrets, `profiles.js` | `MCPage`: Page | `PageProofs` |
| `ContainerForm` | the container form and its lookups, `containers.js` | `MCPage`: Page, ContainerPins | - |
| `FilesModal` | the files dialog and its uploads, `containers.js` | `MCPage`: Page | `PageProofs` |

Parts that share no state are composed in one instance by a variable `part`, which
is chosen at the start and says which of them a behaviour is about: the others
rest. This is so in `MCServer`, `MCCatalog` and `MCPage`.

Operators whose comment begins with "mutant:" are not part of a specification:
each is a definition with a plausible bug, named in `PROJECT.json` next to the
property that must then fail.

### ContainerService

A *task* is an API call in progress (`Requests`) or a `runPreparation` in
progress (`Runners`). Its `pc` names the operation whose answer it consumes
next: `checkName` is the listing in `create`, `checkHost` is
`preparationSteps`, `store` the config write before `prepare`, `awaitJobs` the
loop over the steps, `resolveImage` to `createContainer` are
`createContainerFor`, `startNew`, `storeNew`, `removeNew`, `dropFresh` are
`materialize` and its rollback, `findPrevious` to `startReplaced` are
`doReplace`, `locate`, `loadConfig`, `checkAdopt`, `storeAdopted` are the
functions of these names, and `stopToRemove` to `forget` are `remove`.
`config` is the stored definition of each name, `preparations` the map of that
name, `engine` and `volume` are what docker has on each host, `built` and
`synced` whether the image and the tools volume are there. `config`, `engine`
and `volume` survive `Restart`; tasks and `preparations` do not.

Abstractions: probing the image and probing the tools (two answers) are one
step, because images and tools only ever appear in the model and the second
probe can only find more; `ensureRecipeImage` and `awaitJob` together are one
step (`AwaitBuild`), and are modelled in detail in ImageJobs and ToolsVolume; a `putContainer`
is one step that happens or fails, which is what ConfigStore proves. A container has
one volume: private history volumes take the same path. Login-set volumes
(`ensureAgentVolumes`) are never deleted and left out, as are the warnings; the execs after a
start, whose failures only become warnings, are in AfterStart. A call that is
refused before its first `await` changes nothing and is left out. `remove` is
modelled as the route calls it (`forget` is never false there).
`volume` remembers the container that first ran on it, and a task in `since` which
container comes next when it has looked for its volume; no code reads either. They are
there for `WorkspaceKept`, which says, of calls that overlap too, when a workspace goes:
by a `remove` with `removeVolumes`, or by the rollback of a create that saw no volume
when it looked, before the first container on it. `RollbackTakesItsOwn` says more, as
the comment at the code does, and is not true (§4).

### ImageJobs

`jobs` is every job ever started, `registry` the ids the map still holds, a job
is `settled` when its function has returned, and `present` is whether the
function's product is on the engine. A *click* is `buildRecipe`, `pull` or
`syncTools` by the user; a *caller* is a preparation inside `ensureRecipeImage`
or `ensureToolsSynced` and then `awaitJob`. A caller's probe and the use of its
answer are two steps (`Probe`, `Resume`), which is where the interesting races
are. `at` says where the function of a job is: before its stream, at it, or behind
it. A job that is cancelled at its stream is `deaf`: the stream is destroyed, its
promise hears nothing of that, and nobody settles the job.

### ConfigStore over AtomicStore

`AtomicStore` is the promise: a stored value, a value readers see, a queue of
updates that are applied entirely or not at all and answered truthfully.
`ConfigStore` has the file operations: `phase` is the one that is awaited,
`tmp` may be torn, `file` is `config.json`. The refinement maps the abstract
*stored* to `file`, *seen* to the current value of a running server, and *taken*
to the phase between the rename and the answer. Mutations are an operator of
the specification (`Apply`), the schema is another (`Valid`); MCServer
instantiates them with put and delete in a map with one definition the schema
refuses.

### ConfigBoot

`config` is the file, `kept` the copies `config.json.v<n>.bak`, `init` where the boot
is and what it has read. A file is a record of what a migration moves: backend, key,
hosts, credentials, containers under either name, what a schema may refuse, password
and identity. All of a migration is synchronous, so a boot that finds an old file is one
step up to the first write; a death may still come at a copy, or before the write. A
write happens or ends the process, as ConfigStore shows. `Facts` and `Secrets` are what
the server of a file's own version would talk to and with which key, and BootLosesNothing
compares them over a write. A file that is not accepted (no JSON, or refused by the
schema) is `aside` when it goes, unless the rename failed in this boot (`unmoved`): then
the code goes on and overwrites it. BootLosesNothing makes no claim of a copy that failed, was torn by a death
or stays of an earlier migration of another file (`stale`), of keys the schema
does not know (`sound` is FALSE where something was refused by the schema), and of
keys where no host is left and the environment brings a credential of the same id.

### JobLog over TailedLog

Lines are numbered, so a buffer is a sequence of numbers. `view` is `jobState`,
`strays` counts timers that `jobState.timer` no longer names (they fire all the
same), `poll` is the requests in flight, `shown` the modal. `tailed` is a history
variable, the job the modal was last opened for: the refinement takes the log of
that job for the log of TailedLog, and the numbers that are shown for what its reader
has. It is stated for the first time the modal is opened, for whichever job: opened for a
second one, the modal still appends what the requests for the first one bring. The lines the browser adds itself (`[success]`, an
error) are left out.

### SessionPane with SessionBridge

A *connection* is one websocket and the closure of `handleConnection` that
serves it. Its `pc` goes through `open` one await at a time (`opening`:
`requireRunningContainer`, `probing`: `hasTmux`, `starting`: `execCreate` and
`execStart`, `resizing`: `execResize`), is `live` when the callbacks are
registered, and goes through `onStreamClosed` when the exec has ended
(`inspecting`, `checking`, `waiting`). `held` says that `stream` and `sessionId`
are set, `closed` and `kill` are `closed` and `killRequested`, `task` is
`killTmuxSession` behind `cleanup`. `streams` is the map of SessionService,
`probe` the cached answer about tmux. The world is one container: `box` is its
state, with `dying` for the time in which its processes are dead and the engine
still says "running"; `shells` is the tmux sessions in it, each under the name
of its pane; an exec is alive or remembers why it ended.

A *pane* is the object of `session.js`: `status`, `ws`, `awaitEnter`, `signal`
(`_signalExit`), `note` are its fields, `dial` is the retry timer or the first
`connect`, `asks` the questions to the API that are in flight. The two ends
share the frames in flight (`up`, `down`) and `link`. `ClosePane` is the
`destroy` handler of `code.js`, `Leave` every teardown that is not the user's,
`Reopen` a new pane under a name that has become free.

Abstractions: codes 4502 and 4500 are one, as are the exit codes 137 and 143;
`tmuxSessionExists`, `hasBash` and `toolsPath` decide about labels and the command
line only; a probe cache either answers or has expired; the browser does not read
before its `onopen` is called. A slot of a connection that both ends
have let go of is used again. `tmux kill-session -t` takes the session of that very name;
that tmux falls back on a name that begins so when there is none is left out.

### ToolsVolume

A *worker* is a function in progress that looks at, or works on, the volume or
an image: a sync, a preparation that asks whether the volume is ready (`ensure`), a status
page, a read of a version, a check of a custom image. `step` is the call it awaits;
`shot` what its one-shot container is for. The path of such a container (`CreateShot`,
`RunShot`, `Clean`) is one for all; `AfterShot` is what each makes of it.
`volume` is what the volume holds, `manifests` the cached look, `known` the images
with a version, `legacy` and `login` the two places of a login. populate.sh is one step that may
fail half-way, with what it clears of another run. `CacheIsHonest` excuses what the
code cannot know: see its comment; the case of a look that caches what it saw before
a sync filled the volume is real, and lasts for the 30 s of the cache.

### AfterStart

A *starter* is `afterStart` of one container; `step` is the exec it
awaits (`home`, `apply`, `dirs`, `label`, `marker`, `plugins`, `mark`). `box` is
what a container has: label, mounted login volume, owner of its home, settings file;
`files` and `marker` are the plugins installed in each volume and the list of
them. `profiles` and `stored` are the two parts of the config that matter, and
change at any time. `unsure` remembers the volumes two containers have synced at once, or
of which a command has timed out: `runExec` resolves then, and the caller takes it for a success. A container
without a profile label is left alone, so a file may stay in one that got a
profile by an edit and lost it again; a volume mounted by users of two uids changes
its owner with each start. `Furnished` and `MarkedIsThere` name these exceptions:
`calm` remembers the containers whose start nothing has disturbed, neither an edit, a
second start, a failed exec (one that leaves the home to another user disturbs every
container on that volume) nor the start of another user's container on their volume.

### Transport

A *user* is a call of the service in progress: a single request, a stream
(build, pull, archive), a wait for a container, a start, or an exec; each is one
to several requests in slots. A slot remembers which agent it runs on, whether a response
has begun, and whether it was released. `inflight` is the counter, `agent`
the one in use, `draining` those `close()` has detached, `destroyed` those that are
gone. A connection may be cut
before the response, inside it, or be ended by the proxy so that what was read looks
complete; a response that is cut inside is not retried, because `readAll` is awaited outside the `try`.
A build that is cancelled while its stream is read leaves its user `deaf`, as in ImageJobs.

### Install, HostRegistry and Catalog

`Install` is the document and the mutators that `ConfigStore.update` runs on a
clone of it, as pure operators. `HostRegistry` has the calls of `HostManager` and
`CredentialStore`: a call checks the config as it is now (`BeginWrite`), builds
the record it will put, and queues it; `Commit` takes the first write of the
queue, which is what ConfigStore is shown to do. The write and what its caller
does up to its next `await` are one step: between the two there are only promise
callbacks. `cache` is the map of transports with the fingerprint each was built
under and what it was built from; `probe` is the answer of the last probe.
`Catalog` adds `ProfileStore`, `AgentRegistry`, the route that deletes login
volumes with a profile, container definitions (whose work on the engine lies
between the check and the write), and `changePassword` with its hash. `raced`
remembers that two calls which write have overlapped.

Abstractions: an encrypted key is the key; a host's name, a profile's texts and
an agent's definition are left out, so an update of an agent puts the same id
again; refused calls are left out. The agents of a host are not checked against
the registry by POST and PUT `/api/hosts`, so nothing is claimed of them.
A probe is remembered until it expires even when the connection changes while no
transport is cached (`hosts/manager.ts:274`).

### The page

The seven parts share `part`, which says which of them a behaviour is about, and
the counters of the bounds; each leaves the variables of the others alone. They
meet in the code only through the bus, and what one hears from another (a login
that is lost or made, settings that were read) is an action of the part that hears it.
Names follow the globals of the scripts. A request is a record in a slot with what
was asked and what the server has said; the server's step and the arrival of the
answer are two actions wherever something can come between them. Variables whose
comment begins with "history" remember what no code reads: that the user waited, or
what was on the screen.

* `Shell`: `wanted` is `loginVisible`, `modal` what Bootstrap has of the modal,
  `starting` the awaits of `startApp` for each of its two callers, `lists` the
  requests for the list, `timer` the poll.
* `Layout`: `localBlob` and `serverBlob` are the stored layouts with their
  `savedAt`, `appBlob` and `ownBlob` the two copies of the settings a page may
  have, `soon` and `pushing` the two debounces, `puts` the requests under way,
  `phase` whether GoldenLayout is imported. A layout is the set of its panes.
* `AgentsPanel`: `checked` is the ticks on the screen, which are what a toggle
  sends; `watch` and `pollDue` are `syncWatch`, whose handle may be overwritten
  while a poll is in flight: `strays` are the polls it then no longer names.
* `HostDialogs`: a host is its credential and the credential its endpoint was
  listed by; `asks` are the listings in flight, for the form or the import; one whose
  select was replaced is forgotten. `hostForm.previous` is the local of `openHostModal`
  that "+ Add credential..." puts the select back to, `putBack` remembers that it did.
* `ProfileForm`: `vault` is where each secret of a profile comes from, `secretRows`
  the rows of the form, `piled` how many listeners the form has collected.
* `ContainerForm`: `form` is the host and the ticks of the form, `formAgents` the
  global its picker is painted from, `lookups` the `loadLookups()` under way,
  `sending` the save with its confirmation.
* `FilesModal`: `filesState` is the object that is replaced, `screen` the listing
  that is shown, `picks` the `uploadFiles()` under way.

Abstractions: what a form has besides the fields named is left out, as are validation,
texts, filters and themes. A listing that fails paints an alert. Where the
reload after a save is a request whose answer may also come of a button or of another
view, it is one action (`LoadProfiles`, `CredentialsListed`).

## 3. Runs

| run | instance | shows |
|---|---|---|
| ContainerRaces | 1 host, 1 name, 2 versions, 2 request and 2 runner slots, all calls, 3 calls, 1 failure, 1 restart, the host may be deleted | PreparationExclusive, ReplaceOnlyWhenReady, WorkspaceKept |
| ContainerFailures: overlapping | the same with the calls that create, 2 calls, 1 failure, no restart, the host stays, fairness | NoOrphans, TasksEnd |
| ContainerFailures: sequential | 2 hosts of which one may be deleted, 1 request and 1 runner slot, 5 calls one at a time, 1 failure, 1 restart | SettlesInTurn |
| ContainerLostEdit | create, then an edit during its preparation | EditSurvives **fails** |
| ContainerTwoCreators | 1 host that is ready, 3 calls of create and remove, nothing fails | RollbackTakesItsOwn **fails** |
| Server: jobs | 2 keys, 2 callers, room for 2 jobs, 3 calls, 1 cancel or failure, fairness | JobsExclusive, ReadyIsPresent, CallersAnswered |
| Server: store | 2 clients and the boot, 3 updates, 2 failing file operations, 2 crashes | BootFindsValidFile, StoresAtomically |
| Server: log | 1 job, buffer of 2 lines, 3 lines, 2 requests, 2 openings, 1 failure, fairness | LinesAreNewest, TailsFaithfully, TailCompletes |
| CancelledBuild | the jobs of it, fairness | CancelIsHeard **fails** |
| Sessions | 1 pane, 2 connections, 1 thing that goes wrong, 1 reload or new pane | NothingLeaks, OnlyTheUserKills, ExitIsHonest |
| Sessions: staying | the same without the reload or new pane, fairness | KillArrives, PaneRecovers, StartIsOffered |
| Registry: catalog | 2 clients, 2 writes, 1 read, from an empty and a populated install | CacheIsCurrent, WholeUnlessRaced, CookiesEnd, CutOnlyWhenChanged, NothingLostUnlessRaced |
| Registry: tools | 2 workers, 2 contexts, 2 builds, 2 starts of a worker, 1 mishap | NothingLeftBehind, CacheIsHonest, LoginComesAcross |
| Registry: start | 2 containers (one of a custom image), 2 profiles, 2 plugins, 2 starters, 1 edit, 2 runs, 1 trouble | Furnished, MarkedIsThere |
| Registry: boot | files of versions 1 to 5, none, and one that is no JSON; 3 boots, 1 edit by a user, 1 by hand, 1 failure | BootLosesNothing |
| Registry: transport | 2 users, 2 request slots, 2 attempts of a wait, 2 calls, 2 cuts | TransportHolds |
| SiblingPlugins | the starts of it with 3 runs and no trouble | SiblingPluginsStay **fails** |
| Page | each part on its own: 2 of everything, 2 to 7 things the user does, 1 request that fails, fairness | LoginFollows, ListCatchesUp, PanesComeBack, NeverClobbered, WatchEnds, EndpointOfCredential, SecretsKept, UploadsLand |
| ContainerPins | the container form of it | PinsSurvive **fails** |
| HostForm | the host, credential and import dialogs of it, 7 things the user does | EndpointIsPicked **fails** |

Why the bounds are enough. The races of ContainerService are between two calls
and the preparation one of them started; a third call is there to have
something to race about (a container that was created first). One name suffices
because names do not share state but through the host, and two names on one
host share only `built` and `synced`, which only grow. Two hosts are there for
the container that is replaced on another one (the sequential part of ContainerFailures). One failure at any point is what the rollbacks are
written for (with two, a rollback itself fails, and the code only logs that).
The job map has room for two jobs so that three calls make it evict. The buffer
of two lines and three written ones make it drop lines while a
request is in flight, whose cursor then points at lines that are gone. Two crashes let the process die during the boot that
follows a crash. A pane holds one websocket at a time, so two connections are the
one it has and the one it has dropped that the server still works on; panes of
different names meet only in `probe`. `MaxTrouble` counts everything that goes
wrong in a session together (a failed call, a broken socket, an exec or a shell
that ends, a stop, a removal, a restart of the server): one of them may come at any
point of an open or a close, each of which has half a dozen. Two looks at the
container stand for the twelve of the recheck window.

The registries hold whole records that are put back, so two overlapping writes show
every way to lose one, and one write on a populated install shows every
reference; the populated install has a Portainer host with its credential, a
container with a profile and agents, and a profile may be made that shares its login set.

Two workers on the tools volume are a sync that was cancelled and the one that
follows it, or a sync and somebody who looks. Two containers and two profiles of which
one may name the login set of the other are every way to share a volume but for three
at a time. The files of a boot are one of each version with everything a migration
moves, so each migration is run from every version below it, over
deaths and copies put back by hand. Two slots of requests are a
request that is in flight while another ends, on the same agent or on two, and
two attempts are one that is retried and the last one (five in the code).

Of the page, a form needs to be opened twice, for two things, to show what one
opening leaves for the next; two requests in flight are every order of answers;
`MCMaxUser` is, per part, the clicks of the longest such story.

Symmetry is used in ContainerRaces and Registry (slots of requests, of runners and of
clients are interchangeable, and these runs have no liveness property).

Where a run has parts, a behaviour is of one of them, and each property is stated of
its own part. `KillArrives`, `PaneRecovers` and `StartIsOffered` are ClosedPaneEnds,
PaneComesBack and OffersStart of SessionPane, of a user who stays (`staying`), and
`SettlesInTurn` is the Settled of ContainerService for calls one at a time.

Fairness. The specifications of the runs add weak fairness to the steps of tasks, callers, requests
and file operations: an awaited promise settles and the event loop resumes
its awaiter. No fairness is put on users: nobody has to call, click, open a modal or
delete a host. The assumption that every engine call settles is an assumption
about the docker client. A build stream that is destroyed by a cancel is the one
place where the code does not keep it, so a deaf job has no fairness, CallersAnswered
excuses those who wait for one, and CancelledBuild shows it. The runs of the
store, of the tools volume, of starts, boots and transports have safety properties and properties of steps only,
and assume nothing.
For sessions the fair steps are the server's own (`Serve`), the browser's own
(`Run`: timers, callbacks, answers), and that a stop lands. Two assumptions are
about time: the recheck window of the server (3 s) outlasts a stop, and so does
the poll of the browser; the comments at `sessions/ws.ts:364` measure 170 ms.

Of the page the fair steps are requests that are answered, transitions that
end and timers that fire (`ShellFairness`, `AgentsFairness`); nobody has to click.

In the other modules `Rest` is the one stuttering step that tells a server at rest from
a deadlock: it is enabled only when nothing is in progress, so that TLC's
deadlock check finds every state in which something is in progress and nobody
can go on. The session runs switch that check off: once the pane is closed and the
bounds are used up, nothing is left to do; that panes do not get stuck is
PaneRecovers. So do the runs of the page, which rests when its user does.

## 4. What the failing runs say

Each is listed under `findings` with the sentence of the code or documents it
contradicts.

* **EditSurvives.** PUT during a preparation stores the edit, `prepare` finds a
  preparation running and returns; that one then stores the definition it
  captured before the edit. (`containers/service.ts:1465`)
* **RollbackTakesItsOwn.** Two creators of one container both list its volume as absent.
  One makes the container, which runs; the other is refused its name, and while it is
  about to roll back the container is removed without its volumes. The rollback then
  deletes the workspace, as one "it created itself". (`containers/service.ts:1251`)
* **EndpointIsPicked.** A host on one credential is edited, and another credential added
  out of its form, which then offers that one's endpoints. "+ Add credential..." again
  puts the select back to the first credential, which is not how a user picks one, and
  leaves the endpoints: whoever cancels now and saves stores an endpoint of the second
  credential under the first. (`web/public/js/hosts.js:663`)
* **PinsSurvive.** The form of a container is painted before its lookups are there,
  from the `formAgents` of the lookups before (none, or another host's), and
  `repaintLookups` takes the ticks from that DOM: the pinned agents come back
  unticked, and a save stores no agents, or some of them.
  (`web/public/js/containers.js:1155`)

* **CancelIsHeard.** `cancelJob` aborts a build whose stream is being read:
  `consumeJsonLineStream` destroys the stream, which then emits neither `end` nor
  `error`, and the promise of the job stays pending, with every `awaitJob` that waits for
  it. (`backends/socket.ts:648`)
* **SiblingPluginsStay.** A login set counts as a profile's own when it bears its id,
  though another profile may name it as its `loginSet`: the sync of the owner then
  uninstalls plugins the other asks for. (`profiles/plugins.ts:141`)

More disagreements have no run of their own and are told with the hazards:
the second of two preparations that probe at the same time gets the 409 meant for a
user's second click instead of joining the build (`images/service.ts:1541`);
`open` awaits a resize after the exec has started and the callbacks are registered
after it, so that a stream which ends in between has ended for nobody
(`sessions/service.ts:155`);
two creates of one name on two hosts at the same time both pass the check of
`containers/service.ts:540`; and a kill that reaches the server while the pane is still opening is lost
(`sessions/ws.ts:438`). An exec that takes too long resolves with the exit code 0
(`backends/socket.ts:541`), and a plugin is marked as installed by it
(`profiles/plugins.ts:243`, `:290`). A file of a newer version is parsed and written
back as version 4 without the keys this one does not know (`config/store.ts:103`,
`:243`). A wait that is cut inside its response is not asked again, though one that is cut
before it is (`backends/portainer.ts:343`, `:365`). And a look into the tools volume
that failed is cached like one that did not (`images/service.ts:305`, `:707`).

## 5. Proofs

tlapm checks these for every value of the constants that satisfies the assumptions
named in the modules. A proof has one lemma per action or kind of action (`...Keeps`);
what they show together is an inductive invariant of which the property is a part or a
consequence. Each of these properties TLC had found to hold on its run before it was proved.

* **ContainerServiceProofs.** `Typing` (`Spec => []TypeOK`) and `Exclusion`
  (`Spec => []PreparationExclusive`). TypeOK is not inductive: an action writes
  `engine[task[t].host][...]`, so a task that is not idle must have a name, and
  one past its first lookups must have a host and a definition. `Shape` says so
  per `pc`, and `IInv` is the two together. `Exclusion` needs no
  more than what a step does to the tasks and the map (lemma `StepTasks`).
  `TeardownIsReady` (`Spec => []ReplaceOnlyWhenReady`): the property speaks of the
  awaits at which a container is torn down, and what it says of them was found out
  awaits before. `FitsIn` carries it along: a preparation that does not wait for a
  build has seen the image. It holds on because images and tools only come to a host.
  `WorkspaceSafe` (`Spec => WorkspaceKept`) holds for any calls, overlapping or not,
  any failures and restarts: a volume that a container has run on
  when a create looks is not fresh to it, and containers are numbered as they are made
  (`Used`), so what its rollback takes has run nothing older than its look (`FreshIn`).
  `RollbackIsComplete` (`Spec => []NoOrphans`) assumes at most one failure and no call
  that removes a container, as its run does; calls may overlap and there may be any number
  of them. A container without a definition belongs to the create that made it (`Owned`),
  which is about to store the definition, or to take the container back because the one
  failure is behind it; an edit only creates for a name that keeps its definition
  (`Tame`, `ConfigKept`). `RestIsSettled` (`Spec => []Settled`) assumes calls one at a time
  and at most one failure. Settled speaks of rest, so its invariant says of each await what
  the steps to come rely on: while nothing has failed, that a task which has broken the tie
  of a definition to its container knows enough to restore it (`SoundIn`, `Between`); during
  the first call, that a create which has not stored its definition knows its container by
  its id and its volume for its own, or has met the one failure already (`FirstIn`).
  `NoneAssumption` says that None is no definition, container, mode or number.
* **ConfigStoreProofs.** `BootsAgain` (`Spec => []BootFindsValidFile`),
  `ReadsWhatIsStored` (what readers see is on disk, which no run checks: it is proved)
  and `Implements` (`Spec => StoresAtomically`), from the assumption that the default config is
  valid and mutations yield configs. The invariant ties the phases to the files:
  from `open` on, the draft is the valid result of the first update on what is
  stored; at `rename` the temporary file is that draft; at `commit` the file is.
  Every step then maps to a step of AtomicStore or to a stutter.
  `StartsLoseNothing` (`BootSpec => BootLosesNothing`): `Reading` says that what was read
  says the same as the file at each step of the migration (`SaysTheSame`, a lemma per
  version: `HostsKeep`, `ContainersKeep`, `ProfilesKeep`, `ParsedKeeps`), and that of
  each version passed there is a copy, or it is known not to be (`Copied`); a file that is
  not accepted and still there when the seeds are stored could not be moved. Any file of
  the types of `ConfigFile` is covered, not only those of the run. `BootAssumption` says
  that a file that is no JSON is not one that is, and names the words the code itself uses.
* **JobProofs**, of the log of a job and of the registry. `NewestLines` (`LogSpec => []LinesAreNewest`): the lemma
  `AppendKeeps` is the arithmetic of appending to a full and to a part-filled
  buffer. `LogIsTailed` (`LogSpec => TailsFaithfully`): `Chain` says that during the
  first opening there is one request or one timer and that the cursor is the last line
  shown; `ServesNewest` is the arithmetic of `since - dropped` clamped into the
  buffer, which makes an answer what follows the cursor it was asked with among the lines
  there were when it was served. Every step then is one of TailedLog or a stutter. Of a
  modal that is opened again it says nothing: the refinement ends with the first opening.
  `OneJobPerKey` (`JobsSpec => []JobsExclusive`): that a new job
  finds no running one in the map is enough only while no running one was evicted, and
  evict throws out a running job when none has ended. `Bounded` (the map holds at most
  JobLimit ids) and a pigeonhole argument show that then there would be more keys with a running
  job than there are ids, so the theorem supposes, as the property does, no more keys
  than JobLimit. `ReadyIsTrue` (`JobsSpec => []ReadyIsPresent`) adds what a job's state
  says of the engine (`Delivered`) and what a caller knows at each step (`Knows`).
* **TransportProofs.** `TransportIsSound` (`TransportSpec => []TransportHolds`):
  `inflight` is the cardinality of the requests that were counted and are not released
  (`Counted`), each of them holds the agent in use or a parked one, none of
  which is destroyed (`Alive`), and a request belongs to one call, which has no other
  (`Owned`). It assumes finitely many slots, as there are sockets.
* **CatalogProofs.** Five theorems about the registries, from one invariant of the
  document, the calls, the queue and the cache. `TransportsAreCurrent`
  (`CacheIsCurrent`) and `OnlyChangesCut` (`CutOnlyWhenChanged`): a cached transport
  is the one that would be built now (`CacheOK`), and who runs on one that was not cut runs
  on a cached one (`Holding`). `OldCookiesEnd` (`CookiesEnd`): versions only grow.
  `InstallStaysWhole` (`WholeUnlessRaced`) and `NothingIsLost` (`NothingLostUnlessRaced`):
  until two writers have overlapped, the one write that is queued or in hand would still
  pass its caller's checks (`Undisturbed`). Steps divide into those that leave the
  config (`Ordinary`) and the turn of a write (`Turn`). `CatalogAssumption` says that the install a
  behaviour begins with is a config in which ids are unique and references lead
  somewhere: that is what the program itself writes.
* **SessionProofs.** `HandlersLeaveNothing` (`NothingLeaks`), `ShellsEndByTheUser`
  (`OnlyTheUserKills`) and `ExitsAreHonest` (`ExitIsHonest`), for any number of panes and
  connections. The invariant is about one connection at a time: what its closure's
  variables are at each of its awaits (`Consistent`), what is known of its exec while the
  container stops and starts (`Honest`), and whose wish a kill is, as a frame on the
  way, a flag or a task (`UsersKill`). `BridgeAssumption` is that there is at least one look.
* **HostProofs.** Of the tools volume: `NothingIsLeft` (`NothingLeftBehind`), `CacheTellsTruth`
  (`CacheIsHonest`) and `LoginIsKept` (`LoginComesAcross`). `Fits` says what a worker may
  have in hand at its step; between a fill and the moment its worker has dropped the
  cache entry, that entry may be stale (`CacheFits`), and `CacheIsHonest` names that worker.
  Of what comes after a start: `MarkersTellTruth` (`MarkedIsThere`) from `Marks`: what a
  sync is going to list is there, and two syncs of one volume are known; and `StartsFurnish`
  (`Furnished`) from `Undisturbed`: how far the one start of a container nothing has disturbed
  has brought it, and that nobody else is about to give its volume to another user.
* **PageProofs.** Every safety property of the page, each from an invariant of its own
  part, for a step of another part leaves its variables alone (`...Keeps`).
  `LoginModalFollows` (`LoginFollows`): until the boot has asked who is signed in, nothing
  has begun that could show the modal (`Booting`), which is why `startApp` may leave the
  modal alone then; from there on every step that changes what is wanted also asks for the
  modal. `EndpointsStayWithTheirs` (`EndpointOfCredential`): what a select offers, and what
  is on its way to it, is of the credential the form shows, or the form shows none, or was
  put back to another one since (`Unmixed`); that last case, and two lists in flight, the
  property excepts, and HostForm shows the first. `UploadsLandThere` (`UploadsLand`): what is up is up for what the dialog shows,
  and then nothing is listed (`Heeded`). `SecretsStay` (`SecretsKept`): every key of the
  profile that is edited has a row or had one taken away. `PanesAreBack` (`PanesComeBack`):
  who is signed out has stored the panes first, and every layout that is about since
  (`Blobs`) is older or another browser's. `LayoutIsLeft` (`NeverClobbered`): a workspace is
  empty because somebody made it so or the settings said so (`Decided`), so what is pushed
  has panes or is meant (`Earned`). The assumptions: `boot` and `login` run `startApp`, and
  "none" is the id of no profile.

Model-checked only, and why:

* Liveness (TasksEnd, CallersAnswered, TailCompletes, ListCatchesUp, WatchEnds,
  and the three of Sessions): fairness and ENABLED are beyond the prover.

Neither checked nor proved yet: that ContainerService with ImageJobs in it does what
ContainerService does with its one step `AwaitBuild` (§7).

## 6. Not modelled

See `components` in `PROJECT.json`. Pure functions (container specs,
fingerprints of connections, parsers, recipes), network probes without state
(`profiles/verify.ts`, `test` of credentials and hosts), encryption, rendering,
the image recipes, the installers of the agents and the deployment scripts are left out: they
have one caller, one answer and no state that others see. Of the scripts of the tools image
populate.sh is a step of ToolsVolume; entrypoint.sh is what a container does by itself. The
routes check a body and call one service, whose guards are in its module. Of the sessions, logins (a refused upgrade counts as a
broken one, and the login holds), the refusals for a malformed query, an agent
and a host (4400, 4410, 4411), and the frames that carry input,
output, sizes and pings are left out.

## 7. Plan

Done, in this order: ContainerService, its proofs, ImageJobs, AtomicStore with
ConfigStore and its proofs, TailedLog with JobLog and its proof, SessionBridge
with SessionPane, Install with HostRegistry and
Catalog, the seven parts of the page, ToolsVolume, AfterStart, ConfigBoot and
Transport. To come:

1. **Composition**: ContainerService with ImageJobs in place of the one step
   `AwaitBuild`, shown to implement ContainerService.
2. **Proofs**: that composition, step by step. Every safety property of a run has its
   theorem.
