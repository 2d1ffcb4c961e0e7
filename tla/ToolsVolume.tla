----------------------------- MODULE ToolsVolume ------------------------------
(***************************************************************************)
(* server/src/images/service.ts: the tools volume of one host.             *)
(*                                                                         *)
(* syncTools builds the tools image when it has to, lets a one-shot        *)
(* container fill the volume every container of the host mounts, reads     *)
(* back what is in it, and brings the login of a v0.1 install across.      *)
(* Everything the server knows of a volume or of the inside of an image it *)
(* knows from such one-shot containers: create, start, wait, read the log, *)
(* remove.  What a look into the volume found is cached for                *)
(* MANIFEST_TTL_MS.                                                        *)
(*                                                                         *)
(* Up to two functions of a sync can be at work at once: one that was      *)
(* cancelled goes on, and a new one may be started.                        *)
(***************************************************************************)
EXTENDS Naturals, FiniteSets

CONSTANTS
  Workers,      \* slots for asynchronous functions, numbers
  Contexts,     \* content hashes of docker/tools, one per release
  Builds,       \* bound: what tells images of one context apart
  NoImage,
  MaxStarts,    \* bound: functions started
  MaxMishaps    \* bound: calls that fail, cancels, deaths of the server, and
                \* volumes removed by hand

ToolsImage == [context : Contexts, build : Builds]

ASSUME ToolsAssumption ==
  /\ Contexts \subseteq Nat /\ \E c \in Contexts : \A d \in Contexts : c <= d
  /\ Workers \subseteq Nat /\ MaxStarts \in Nat /\ MaxMishaps \in Nat

VARIABLES
  tag,       \* what <ns>/tools:latest resolves to
  images,    \* the tools images on the engine
  context,   \* docker/tools of the release that runs
  volume,    \* the tools volume
  login,     \* the auth volume of claude
  legacy,    \* the login volume of a v0.1 install
  custom,    \* is the custom image on the engine
  shots,     \* the workers whose one-shot container exists
  work,      \* what every worker does
  manifests, \* the last look into the volume
  imported,  \* legacyImported
  known,     \* claudeVersions: the images with an answer that is still good
  litter,    \* has a container been left behind: a removal failed, or a crash
  excused,   \* may the cache be wrong: see CacheIsHonest
  starts, mishaps

engineVars  == <<tag, images, volume, login, legacy, custom, shots, litter>>
serviceVars == <<context, manifests, imported, known>>
toolsBounds == <<starts, mishaps>>
toolsVars   == <<engineVars, serviceVars, work, excused, toolsBounds>>

Kinds == {"none", "sync", "ensure", "status", "version", "check"}
Shots == {"populate", "version", "read", "import", "check"}

\* edition says which sync wrote it, boot whether entrypoint.sh is there
Content  == [there : BOOLEAN, boot : BOOLEAN, edition : Nat]
NoVolume == [there |-> FALSE, boot |-> FALSE, edition |-> 0]

\* looked is FALSE where bootstrap is null: nobody could look
Entry == [there : BOOLEAN, fresh : BOOLEAN, looked : BOOLEAN,
          boot : BOOLEAN, edition : Nat]
NoEntry == [there |-> FALSE, fresh |-> FALSE, looked |-> FALSE,
            boot |-> FALSE, edition |-> 0]

Idle == [kind |-> "none", step |-> "idle", shot |-> "read", ok |-> TRUE,
         cancelled |-> FALSE, force |-> FALSE, brought |-> FALSE,
         image |-> NoImage, previous |-> NoImage, saw |-> NoEntry]

ToolsInit ==
  /\ tag = NoImage /\ images = {}
  /\ context = CHOOSE c \in Contexts : \A d \in Contexts : c <= d
  /\ volume = NoVolume
  /\ login \in {[there |-> FALSE, creds |-> "none", marker |-> FALSE],
                [there |-> TRUE,  creds |-> "none", marker |-> TRUE]}
  /\ legacy \in {"absent", "login"}
  /\ custom = FALSE
  /\ shots = {} /\ work = [w \in Workers |-> Idle]
  /\ manifests = NoEntry /\ imported = FALSE /\ known = {}
  /\ litter = FALSE /\ excused = FALSE
  /\ starts = 0 /\ mishaps = 0

-----------------------------------------------------------------------------
(* Steps. *)

Does(w, kind) == work[w].kind = kind
AtStep(w, s)  == work[w].step = s
Running == {w \in Workers : Does(w, "sync") /\ ~work[w].cancelled}

Sound  == UNCHANGED mishaps
Mishap == mishaps < MaxMishaps /\ mishaps' = mishaps + 1

Goto(w, s)       == work' = [work EXCEPT ![w].step = s]
Leave(w)         == work' = [work EXCEPT ![w] = Idle]
Shoot(w, s, img) == work' = [work EXCEPT ![w].step = "create", ![w].shot = s, ![w].image = img]

Begin(w, record) ==
  /\ AtStep(w, "idle")
  /\ \A v \in Workers : AtStep(v, "idle") => w <= v
  /\ starts < MaxStarts /\ starts' = starts + 1
  /\ work' = [work EXCEPT ![w] = record]
  /\ UNCHANGED <<engineVars, serviceVars, excused, mishaps>>

-----------------------------------------------------------------------------
(* The one-shot container: every use of it is create, run, remove.         *)

\* the image is named by its tag, but for a version that is read
ShotImage(w) ==
  CASE work[w].shot = "version" -> work[w].image
    [] work[w].shot = "check"   -> NoImage
    [] OTHER                    -> tag

Startable(w) ==
  \/ ShotImage(w) \in images
  \/ work[w].shot = "check" /\ custom
  \/ work[w].shot = "read" /\ work[w].brought

MountsVolume(w) == work[w].shot \in {"populate", "read"}

\* createContainer; docker creates a volume that is mounted and not there
CreateShot(w) ==
  /\ AtStep(w, "create")
  /\ \/ /\ Startable(w) /\ Sound
        /\ shots' = shots \cup {w}
        /\ volume' = IF MountsVolume(w) THEN [volume EXCEPT !.there = TRUE] ELSE volume
        /\ work' = [work EXCEPT ![w].step = "run", ![w].image = ShotImage(w)]
     \/ /\ IF Startable(w) THEN Mishap ELSE Sound
        /\ work' = [work EXCEPT ![w].step = "remove", ![w].ok = FALSE]
        /\ UNCHANGED <<shots, volume>>
  /\ UNCHANGED <<tag, images, login, legacy, custom, litter, serviceVars, excused, starts>>

Filling(w) == w \in shots /\ work[w].shot = "populate" /\ AtStep(w, "run")
Alone(w)   == \A v \in Workers \ {w} : ~Filling(v)

\* has seen what the volume holds and is yet to cache it
Looking(w) == work[w].shot = "read" /\ AtStep(w, "remove") /\ work[w].saw.looked

\* populate.sh: the payload is staged and promoted; it clears the stage of any
\* other run, which then may promote anything
Populate(w, ok) ==
  /\ volume' \in
       IF ok /\ Alone(w)
       THEN {[there |-> TRUE, boot |-> TRUE, edition |-> volume.edition + 1]}
       ELSE {volume} \cup {[there |-> TRUE, boot |-> b, edition |-> volume.edition + 1] :
                             b \in {TRUE, volume.boot}}
  /\ excused' = (excused \/ ~ok \/ ~Alone(w) \/ \E v \in Workers : Looking(v))
  /\ UNCHANGED login

\* the entry a look at the volume comes back with
Seen == [there |-> TRUE, fresh |-> TRUE, looked |-> TRUE,
         boot |-> volume.boot, edition |-> volume.edition]

HasLogin == legacy = "login"

\* mutant: the marker alone says that everything is across
ImportMarked(ok) ==
  LET copied == [login EXCEPT !.creds = IF @ = "none" /\ HasLogin THEN "v0.1" ELSE @] IN
  login' \in IF ok THEN {IF login.marker THEN login ELSE [copied EXCEPT !.marker = TRUE]}
                   ELSE {login, copied}

\* the script of importLegacyClaudeLogin: copies what is not there, then marks
Import(ok) ==
  LET copied == [login EXCEPT !.creds = IF @ = "none" /\ HasLogin THEN "v0.1" ELSE @]
      skip   == login.marker /\ (login.creds # "none" \/ ~HasLogin)
  IN  login' \in IF ok THEN {IF skip THEN login ELSE [copied EXCEPT !.marker = TRUE]}
                       ELSE {login, copied}

\* startContainer, waitContainer and containerLogs
RunShot(w) ==
  /\ AtStep(w, "run")
  /\ \E ok \in BOOLEAN :
       /\ IF ok THEN Sound ELSE Mishap
       /\ CASE work[w].shot = "populate" -> Populate(w, ok)
            [] work[w].shot = "import"   -> Import(ok) /\ UNCHANGED <<volume, excused>>
            [] OTHER                     -> UNCHANGED <<volume, login, excused>>
       /\ work' = [work EXCEPT ![w].step = "remove", ![w].ok = ok,
            ![w].saw = IF work[w].shot = "read" /\ ok THEN Seen ELSE @]
  /\ UNCHANGED <<tag, images, legacy, custom, shots, litter, serviceVars, starts>>

\* mutant: the container is removed where everything went well
CleanOnSuccess(w) ==
  IF w \notin shots \/ ~work[w].ok THEN UNCHANGED <<shots, litter>> /\ Sound
  ELSE \/ shots' = shots \ {w} /\ UNCHANGED litter /\ Sound
       \/ shots' = shots /\ litter' = TRUE /\ Mishap

\* the finally block; a removal that fails is logged and forgotten
Clean(w) ==
  IF w \notin shots THEN UNCHANGED <<shots, litter>> /\ Sound
  ELSE \/ shots' = shots \ {w} /\ UNCHANGED litter /\ Sound
       \/ shots' = shots \ {w} /\ litter' = TRUE /\ Mishap
-----------------------------------------------------------------------------
(* syncTools. *)

Sync(force) == [Idle EXCEPT !.kind = "sync", !.step = "inspect", !.force = force]

\* a user's click; 409 while a sync of this volume counts as running
SyncTools(w, force) == Running = {} /\ Begin(w, Sync(force))

\* the function goes on, but for one at the stream of the build, which nobody
\* will ever hear of again: see ImageJobs
CancelSync(w) ==
  /\ w \in Running
  /\ Mishap
  /\ work' = [work EXCEPT ![w].cancelled = TRUE,
                          ![w].step = IF @ = "build" THEN "deaf" ELSE @]
  /\ UNCHANGED <<engineVars, serviceVars, excused, starts>>

\* requireDir, hashContext and a look at the image: build or reuse
Inspect(w) ==
  /\ Does(w, "sync") /\ AtStep(w, "inspect")
  /\ \/ /\ Sound
        /\ LET build == work[w].force \/ tag = NoImage \/ tag.context # context
           IN  work' = [work EXCEPT ![w].step = IF build THEN "build" ELSE "volume",
                                    ![w].previous = tag]
     \/ Mishap /\ Leave(w)
  /\ UNCHANGED <<engineVars, serviceVars, excused, starts>>

\* buildImage to the end of its stream; the version is in the log, but for a
\* build that is served from the layer cache
Build(w) ==
  LET new   == {b \in Builds : [context |-> context, build |-> b] \notin images}
      built == [context |-> context, build |-> CHOOSE b \in new : TRUE]
  IN  /\ AtStep(w, "build")
      /\ \/ /\ Sound /\ new # {}
            /\ tag' = built /\ images' = images \cup {built}
            /\ \E logged \in {TRUE, work[w].force} :
                 /\ known' = IF logged THEN known \cup {built} ELSE known \ {built}
                 /\ work' = [work EXCEPT ![w].step = IF logged THEN "collect" ELSE "version",
                                         ![w].image = built]
         \/ Mishap /\ Leave(w) /\ UNCHANGED <<tag, images, known>>
      /\ UNCHANGED <<volume, login, legacy, custom, shots, litter, context, manifests,
                     imported, excused, starts>>

\* the images whose version somebody reads: versionProbes
Probed == {work[w].image : w \in {v \in Workers : work[v].shot = "version"
                                     /\ work[v].step \in {"create", "run", "remove"}}}

\* recordClaudeVersion without a logged version: a read that is under way is
\* joined
RecordVersion(w) ==
  /\ \/ AtStep(w, "version") /\ work[w].image \in Probed /\ Goto(w, "joined")
     \/ AtStep(w, "version") /\ work[w].image \notin Probed
                             /\ Shoot(w, "version", work[w].image)
     \/ AtStep(w, "joined")  /\ work[w].image \notin Probed /\ Goto(w, "collect")
  /\ UNCHANGED <<engineVars, serviceVars, excused, toolsBounds>>

\* removeReplacedImage: not the one the tag has, never by force; the engine
\* refuses while a container runs from it
RemoveReplaced(w) ==
  LET old   == work[w].previous
      inUse == \E v \in shots : work[v].image = old
  IN  /\ Does(w, "sync") /\ AtStep(w, "collect")
      /\ \/ /\ Sound
            /\ images' = IF old = tag \/ inUse THEN images ELSE images \ {old}
         \/ Mishap /\ UNCHANGED images
      /\ Goto(w, "volume")
      /\ UNCHANGED <<tag, volume, login, legacy, custom, shots, litter, serviceVars,
                     excused, starts>>

\* createVolume finds it or makes it
EnsureVolume(w) ==
  /\ Does(w, "sync") /\ AtStep(w, "volume")
  /\ \/ Sound  /\ volume' = [volume EXCEPT !.there = TRUE] /\ Shoot(w, "populate", NoImage)
     \/ Mishap /\ UNCHANGED volume /\ Leave(w)
  /\ UNCHANGED <<tag, images, login, legacy, custom, shots, litter, serviceVars,
                 excused, starts>>

\* mutant: the entry of before the sync stays until there is a new one
PopulatedKeeps(w) ==
  /\ AtStep(w, "remove") /\ work[w].shot = "populate"
  /\ Clean(w)
  /\ IF work[w].ok THEN Goto(w, "image") ELSE Leave(w)
  /\ UNCHANGED <<manifests, imported, known>>

\* removed, and its exit code looked at: what is cached is no longer true
Populated(w) ==
  /\ AtStep(w, "remove") /\ work[w].shot = "populate"
  /\ Clean(w)
  /\ IF work[w].ok THEN manifests' = NoEntry /\ Goto(w, "image")
                   ELSE UNCHANGED manifests /\ Leave(w)
  /\ UNCHANGED <<imported, known>>

-----------------------------------------------------------------------------
(* readToolsVolume, toolsReadiness and agentStatuses. *)

\* an entry that could not look is no answer for one who brings an image
IsAnswer(brought) == manifests.there /\ manifests.fresh /\ (manifests.looked \/ ~brought)

\* agentStatuses: answered from the manifests, or with a look
Status(w) ==
  /\ ~IsAnswer(FALSE)
  /\ Begin(w, [Idle EXCEPT !.kind = "status", !.step = "image"])

\* ensureToolsSynced: unless a sync runs, toolsReadiness asks for the volumes
Ensure_(w, brought) ==
  /\ Running = {}
  /\ Begin(w, [Idle EXCEPT !.kind = "ensure", !.step = "volumes", !.brought = brought])

\* "unsynced" starts a sync, unless somebody has by now
SyncUnless(w) == IF Running = {} THEN work' = [work EXCEPT ![w] = Sync(FALSE)] ELSE Leave(w)

\* listVolumes, then what is cached, then a look
Volumes(w) ==
  /\ Does(w, "ensure") /\ AtStep(w, "volumes")
  /\ \/ /\ Sound
        /\ IF ~volume.there THEN SyncUnless(w)
           ELSE IF ~IsAnswer(work[w].brought) THEN Goto(w, "image")
           ELSE IF manifests.looked /\ ~manifests.boot THEN SyncUnless(w)
           ELSE Leave(w)
     \/ Mishap /\ Leave(w)
  /\ UNCHANGED <<engineVars, serviceVars, excused, starts>>

\* probeImageRef: nothing to look with is no failure when the engine answers
ProbeImage(w) ==
  /\ AtStep(w, "image")
  /\ \/ Sound  /\ IF tag = NoImage /\ ~work[w].brought
                   THEN work' = [work EXCEPT ![w].step = "remove", ![w].shot = "read",
                          ![w].saw = [NoEntry EXCEPT !.there = TRUE, !.fresh = TRUE]]
                   ELSE Shoot(w, "read", NoImage)
     \/ Mishap /\ work' = [work EXCEPT ![w].step = "remove", ![w].shot = "read",
                                       ![w].ok = FALSE]
  /\ UNCHANGED <<engineVars, serviceVars, excused, starts>>

\* a look that failed is remembered like an answer, for MANIFEST_TTL_MS
FailedEntry == [NoEntry EXCEPT !.there = TRUE, !.fresh = TRUE]

\* a sync caches what came of its look, toolsVolumeRead what it saw
Looked(w) ==
  /\ AtStep(w, "remove") /\ work[w].shot = "read"
  /\ Clean(w)
  /\ manifests' = IF work[w].ok THEN work[w].saw
              ELSE IF Does(w, "sync") THEN FailedEntry ELSE manifests
  /\ CASE Does(w, "sync")   -> IF imported THEN Leave(w)
                               ELSE work' = [work EXCEPT ![w].step = "list", ![w].ok = TRUE]
       [] Does(w, "ensure") -> IF work[w].ok /\ work[w].saw.looked /\ ~work[w].saw.boot
                               THEN SyncUnless(w) ELSE Leave(w)
       [] OTHER             -> Leave(w)
  /\ UNCHANGED <<imported, known>>

-----------------------------------------------------------------------------
(* importLegacyClaudeLogin. *)

\* listVolumes: no v0.1 volume, nothing to do for good
ListLegacy(w) ==
  /\ AtStep(w, "list")
  /\ \/ /\ Sound
        /\ imported' = (legacy = "absent")
        /\ IF legacy = "absent" THEN Leave(w)
           ELSE IF login.there THEN Shoot(w, "import", NoImage)
           ELSE Goto(w, "auth")
     \/ Mishap /\ Leave(w) /\ UNCHANGED imported
  /\ UNCHANGED <<engineVars, context, manifests, known, excused, starts>>

\* createVolume of the auth volume; its failure fails the whole job
CreateAuth(w) ==
  /\ AtStep(w, "auth")
  /\ \/ Sound  /\ login' = [login EXCEPT !.there = TRUE] /\ Shoot(w, "import", NoImage)
     \/ Mishap /\ UNCHANGED login /\ Leave(w)
  /\ UNCHANGED <<tag, images, volume, legacy, custom, shots, litter, serviceVars,
                 excused, starts>>

\* a failed import is a warning, and is tried again with the next sync
Imported(w) ==
  /\ AtStep(w, "remove") /\ work[w].shot = "import"
  /\ Clean(w)
  /\ imported' = (imported \/ work[w].ok)
  /\ Leave(w)
  /\ UNCHANGED <<manifests, known>>

-----------------------------------------------------------------------------
(* Versions and custom images. *)

\* claudeVersionOf of a status that is polled: one read per image at a time
PollVersion(w) ==
  /\ tag # NoImage /\ tag \notin known /\ tag \notin Probed
  /\ Begin(w, [Idle EXCEPT !.kind = "version", !.step = "create", !.shot = "version",
                           !.image = tag])

\* the answer is kept, also that there is none
VersionRead(w) ==
  /\ AtStep(w, "remove") /\ work[w].shot = "version"
  /\ Clean(w)
  /\ known' = known \cup {work[w].image}
  /\ IF Does(w, "sync") THEN work' = [work EXCEPT ![w].step = "collect", ![w].ok = TRUE]
                        ELSE Leave(w)
  /\ UNCHANGED <<manifests, imported>>

\* validateCustomImage
Check(w) == Begin(w, [Idle EXCEPT !.kind = "check", !.step = "look"])

\* inspectImage, and pullImage when it is not there
PullCustom(w) ==
  /\ Does(w, "check") /\ AtStep(w, "look")
  /\ \/ Sound  /\ custom' = TRUE /\ Shoot(w, "check", NoImage)
     \/ Mishap /\ UNCHANGED custom /\ Leave(w)
  /\ UNCHANGED <<tag, images, volume, login, legacy, shots, litter, serviceVars,
                 excused, starts>>

Checked(w) ==
  /\ AtStep(w, "remove") /\ work[w].shot = "check"
  /\ Clean(w)
  /\ Leave(w)
  /\ UNCHANGED <<manifests, imported, known>>

\* what comes after a container depends on what it was for
AfterShot(w) ==
  /\ Populated(w) \/ Looked(w) \/ Imported(w) \/ VersionRead(w) \/ Checked(w)
  /\ UNCHANGED <<tag, images, volume, login, legacy, custom, context, excused, starts>>

-----------------------------------------------------------------------------
(* The world around. *)

\* MANIFEST_TTL_MS
Expire ==
  /\ manifests.there /\ manifests.fresh
  /\ manifests' = [manifests EXCEPT !.fresh = FALSE]
  /\ UNCHANGED <<engineVars, context, imported, known, work, excused, toolsBounds>>

\* an agent session logs in by itself; of interest where there is an old login
LogIn ==
  /\ HasLogin
  /\ login.creds # "own"
  /\ login' = [login EXCEPT !.there = TRUE, !.creds = "own"]
  /\ UNCHANGED <<tag, images, volume, legacy, custom, shots, litter, serviceVars, work,
                 excused, toolsBounds>>

\* by hand, on the engine, while no container mounts it
RemoveVolume ==
  /\ volume.there /\ \A w \in shots : ~MountsVolume(w)
  /\ Mishap
  /\ volume' = [volume EXCEPT !.there = FALSE, !.boot = FALSE]
  /\ excused' = TRUE
  /\ UNCHANGED <<tag, images, login, legacy, custom, shots, litter, serviceVars, work,
                 starts>>

\* the server dies, its one-shot containers do not; the next may be a new release
Restart ==
  /\ Mishap
  /\ context' \in {c \in Contexts : c >= context}
  /\ work' = [w \in Workers |-> Idle]
  /\ manifests' = NoEntry /\ imported' = FALSE /\ known' = {}
  /\ litter' = (litter \/ shots # {}) /\ shots' = {}
  /\ excused' = (excused \/ \E w \in Workers : Filling(w))
  /\ UNCHANGED <<tag, images, volume, login, legacy, custom, starts>>

SyncStep(w) == \/ Inspect(w) \/ Build(w) \/ RecordVersion(w) \/ RemoveReplaced(w)
               \/ EnsureVolume(w) \/ ListLegacy(w) \/ CreateAuth(w)
Step(w) == \/ SyncStep(w) \/ Volumes(w) \/ ProbeImage(w) \/ PullCustom(w)
           \/ CreateShot(w) \/ RunShot(w) \/ AfterShot(w)

ToolsRest ==
  /\ \A w \in Workers : work[w].step \in {"idle", "deaf"}
  /\ UNCHANGED toolsVars

ToolsNext ==
  \/ \E w \in Workers :
       \/ \E force \in BOOLEAN : SyncTools(w, force)
       \/ \E brought \in BOOLEAN : Ensure_(w, brought)
       \/ Status(w) \/ PollVersion(w) \/ Check(w) \/ CancelSync(w) \/ Step(w)
  \/ Expire \/ LogIn \/ RemoveVolume \/ Restart \/ ToolsRest

ToolsSpec == ToolsInit /\ [][ToolsNext]_toolsVars

-----------------------------------------------------------------------------
(* Properties. *)

Work ==
  [kind : Kinds, shot : Shots, ok : BOOLEAN, cancelled : BOOLEAN, force : BOOLEAN,
   step : {"idle", "inspect", "build", "deaf", "version", "joined", "collect", "volume",
           "create", "run", "remove", "volumes", "image", "list", "auth", "look"},
   brought : BOOLEAN, image : ToolsImage \cup {NoImage},
   previous : ToolsImage \cup {NoImage}, saw : Entry]

ToolsTypeOK ==
  /\ tag \in ToolsImage \cup {NoImage} /\ images \subseteq ToolsImage
  /\ context \in Contexts /\ volume \in Content /\ manifests \in Entry
  /\ login \in [there : BOOLEAN, creds : {"none", "v0.1", "own"}, marker : BOOLEAN]
  /\ legacy \in {"absent", "login"} /\ custom \in BOOLEAN /\ imported \in BOOLEAN
  /\ shots \subseteq Workers /\ known \subseteq ToolsImage
  /\ work \in [Workers -> Work]
  /\ litter \in BOOLEAN /\ excused \in BOOLEAN
  /\ starts \in 0 .. MaxStarts /\ mishaps \in 0 .. MaxMishaps

\* Whatever becomes of what a one-shot container was for, it is gone when its
\* worker goes on: none is left on the engine unless a removal itself failed or
\* the server died.
NothingLeftBehind ==
  ~litter => \A w \in shots : work[w].step \in {"run", "remove"}

\* The cached look says what the volume holds: every sync that changes it drops
\* the entry of before.  But for one that is just filling it, that failed, or that
\* was cancelled and followed by another; for a volume somebody removed by hand;
\* and for a look that was under way while the sync filled the volume, and caches
\* afterwards what it saw before.
CacheIsHonest ==
  manifests.there /\ manifests.looked =>
    \/ manifests.edition = volume.edition /\ manifests.boot = volume.boot
    \/ excused
    \/ \E w \in Workers : work[w].shot = "populate" /\ AtStep(w, "remove")

\* Once the server holds that the login of v0.1 is across, it is, or the agents
\* have their own; whatever was half done before, and no step ever takes a login
\* away or puts the old one in the place of a new one.
LoginComesAcross ==
  /\ [](imported /\ HasLogin => login.creds # "none")
  /\ [][login.creds' = login.creds \/ login.creds = "none" \/ login'.creds = "own"]_toolsVars
=============================================================================
