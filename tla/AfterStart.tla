------------------------------- MODULE AfterStart ------------------------------
(***************************************************************************)
(* server/src/containers/service.ts (afterStart), profiles/apply.ts and    *)
(* profiles/plugins.ts: what the server does inside a container it has     *)
(* just started.                                                           *)
(*                                                                         *)
(* Four things, each one or more execs: its home and its login volume get  *)
(* an owner, the agent directories are repaired, the settings of its       *)
(* profile (with decrypted secrets) are written or removed, and the        *)
(* plugins of the profile are installed into its login volume.             *)
(*                                                                         *)
(* The settings belong to the container, the plugins and the marker that   *)
(* lists them to the login volume, which several containers may mount.     *)
(* The container keeps the volume it was created with; the profile may     *)
(* name another one by now.                                                *)
(***************************************************************************)
EXTENDS Naturals, FiniteSets

CONSTANTS
  Boxes,        \* containers
  Custom,       \* those of a custom image, which runs as a user of its own
  Profiles,     \* ids of profiles, which are names of login sets as well
  HostSet,      \* the login set of the host
  Unset,        \* no profile, no login set
  Refs,         \* plugins
  Drafts,       \* what a profile may say: set, secret and plugins
  Drafted,      \* the profiles a behaviour may start with
  Starters,     \* slots for runs, numbers
  MaxEdits,     \* bound: edits of profiles and of definitions
  MaxRuns,      \* bound: runs
  MaxTroubles   \* bound: execs that fail, deaths of the server

Sets == Profiles \cup {HostSet}

\* set is Unset where loginSet is null, secret 0 where there is none
ProfileType == [there : BOOLEAN, set : Sets \cup {Unset}, secret : Nat, plugins : SUBSET Refs]

ASSUME AfterAssumption ==
  /\ Unset \notin Boxes \cup Sets
  /\ Drafts \subseteq ProfileType /\ Drafted \subseteq [Profiles -> ProfileType]
  /\ Starters \subseteq Nat
  /\ MaxEdits \in Nat /\ MaxRuns \in Nat /\ MaxTroubles \in Nat

VARIABLES
  profiles,  \* the profiles
  stored,    \* the profileId in each definition
  box,       \* each container: its label, its volume, its file, its home
  files,     \* the plugins in each login volume
  marker,    \* what .porterclaude-plugins.json in it lists
  owner,     \* whose the volume is
  filled,    \* has an agent written to it
  starting,  \* the afterStart in each slot
  calm,      \* afterHistory: has nothing happened to a container since it was started
  unsure,    \* afterHistory: may the marker of a volume be wrong, see MarkedIsThere
  edits, runs, troubles

profileVars == <<profiles, stored>>
volumeVars  == <<files, marker, owner, filled>>
afterHistory     == <<calm, unsure>>
afterBounds      == <<edits, runs, troubles>>
afterVars   == <<profileVars, box, volumeVars, starting, afterHistory, afterBounds>>

\* root, the user of the recipes and the user of a custom image
Owners == {"root", "dev", "other"}
UserOf(c) == IF c \in Custom THEN "other" ELSE "dev"

NoFile == [there |-> FALSE, secret |-> 0, enabled |-> {}]

NoStart == [box |-> Unset, step |-> "idle", profile |-> Unset, gone |-> FALSE,
         blob |-> NoFile, wanted |-> {}, private |-> FALSE,
         listed |-> {}, present |-> {}, todo |-> {}, removed |-> FALSE]

NoProfile == [there |-> FALSE, set |-> Unset, secret |-> 0, plugins |-> {}]

\* loginSetFor
SetOf(id) ==
  IF id = Unset THEN HostSet
  ELSE IF profiles[id].there /\ profiles[id].set # Unset THEN profiles[id].set
  ELSE id

\* composeManagedSettings: nothing to say is no file
Settings(id) ==
  IF id = Unset \/ (profiles[id].secret = 0 /\ profiles[id].plugins = {}) THEN NoFile
  ELSE [there |-> TRUE, secret |-> profiles[id].secret, enabled |-> profiles[id].plugins]

\* containers as createContainerFor makes them
Fresh(c, id) == [label |-> id, mount |-> SetOf(id), file |-> NoFile,
                 home |-> IF c \in Custom THEN "root" ELSE "dev"]

AfterInit ==
  /\ profiles \in Drafted
  /\ stored \in [Boxes -> {Unset} \cup {p \in Profiles : profiles[p].there}]
  /\ box = [c \in Boxes |-> Fresh(c, stored[c])]
  /\ files = [s \in Sets |-> {}] /\ marker = [s \in Sets |-> {}]
  /\ owner = [s \in Sets |-> "root"] /\ filled = [s \in Sets |-> FALSE]
  /\ starting = [w \in Starters |-> NoStart]
  /\ calm = [c \in Boxes |-> FALSE] /\ unsure = [s \in Sets |-> FALSE]
  /\ edits = 0 /\ runs = 0 /\ troubles = 0

-----------------------------------------------------------------------------
(* Steps. *)

At(w, s) == starting[w].step = s
Box(w)   == starting[w].box
Volume(w) == box[Box(w)].mount
Busy(c)  == {w \in Starters : Box(w) = c}

\* an exec fails by chance, and always in a container that is no more
Well      == UNCHANGED troubles
Troubled  == troubles < MaxTroubles /\ troubles' = troubles + 1
Works(w)  == ~starting[w].gone /\ Well
Breaks(w) == IF starting[w].gone THEN Well ELSE Troubled

GoOn(w, s) == starting' = [starting EXCEPT ![w].step = s]
Finish(w)    == starting' = [starting EXCEPT ![w] = NoStart]

Disturb(boxes) == calm' = [c \in Boxes |-> calm[c] /\ c \notin boxes]
Spoil(w)       == Disturb(IF starting[w].gone THEN {} ELSE {Box(w)})

-----------------------------------------------------------------------------
(* Profiles and definitions change while containers run. *)

Edited == edits < MaxEdits /\ edits' = edits + 1

UsersOf(p) == {c \in Boxes : stored[c] = p}

\* ProfileStore.create and update
EditProfile(p) ==
  /\ Edited
  /\ \E d \in Drafts : profiles[p] # d /\ profiles' = [profiles EXCEPT ![p] = d]
  /\ Disturb(UsersOf(p))
  /\ UNCHANGED <<stored, box, volumeVars, starting, unsure, runs, troubles>>

\* ProfileStore.remove with force: one transaction
ForgetProfile(p) ==
  /\ Edited
  /\ profiles[p].there
  /\ profiles' = [profiles EXCEPT ![p] = NoProfile]
  /\ stored' = [c \in Boxes |-> IF stored[c] = p THEN Unset ELSE stored[c]]
  /\ Disturb(UsersOf(p))
  /\ UNCHANGED <<box, volumeVars, starting, unsure, runs, troubles>>

\* an edit that waits for a preparation is stored before its container is made
StoreEdit(c, id) ==
  /\ Edited
  /\ id # stored[c] /\ (IF id = Unset THEN TRUE ELSE profiles[id].there)
  /\ stored' = [stored EXCEPT ![c] = id]
  /\ Disturb({c})
  /\ UNCHANGED <<profiles, box, volumeVars, starting, unsure, runs, troubles>>

-----------------------------------------------------------------------------
(* Starts. *)

\* a volume has one owner: a start of c spoils it for those of another user; so does
\* one that could not hand over its home, for all
BeginStart(w, c, mount) ==
  LET rivals  == {d \in Boxes \ {c} : box[d].mount = mount /\ UserOf(d) # UserOf(c)}
      botched == {Box(v) : v \in {u \in Starters : At(u, "dirs") /\ Volume(u) = mount
                                                   /\ box[Box(u)].home # UserOf(Box(u))}}
  IN
  /\ At(w, "idle") /\ \A v \in Starters : At(v, "idle") => w <= v
  /\ runs < MaxRuns /\ runs' = runs + 1
  /\ calm' = [d \in Boxes |->
       IF d = c THEN \A v \in Starters : Box(v) \notin {c} \cup rivals \cup botched
       ELSE calm[d] /\ d \notin rivals]

\* start and restart: the definition is read before the engine is asked
StartBox(w, c) ==
  /\ BeginStart(w, c, box[c].mount)
  /\ starting' = [starting EXCEPT ![w] =
       [NoStart EXCEPT !.box = c, !.step = "home", !.profile = stored[c]]]
  /\ UNCHANGED <<profileVars, box, volumeVars, unsure, edits, troubles>>

\* doReplace, with an edit or without, up to the start of the new container; what
\* is at work in the old one finds it gone.  The id was checked when the edit came,
\* and that may be a preparation ago
Replace(w, c, id) ==
  /\ BeginStart(w, c, SetOf(id))
  /\ stored' = [stored EXCEPT ![c] = id]
  /\ box' = [box EXCEPT ![c] = Fresh(c, id)]
  /\ starting' = [v \in Starters |->
       IF v = w THEN [NoStart EXCEPT !.box = c, !.step = "home", !.profile = id]
       ELSE IF Box(v) = c THEN [starting[v] EXCEPT !.gone = TRUE, !.removed = FALSE]
       ELSE starting[v]]
  /\ unsure' = [unsure EXCEPT ![box[c].mount] = @ \/ \E v \in Busy(c) : starting[v].removed]
  /\ UNCHANGED <<profiles, volumeVars, edits, troubles>>

\* ensureHomeWritable: a custom image's home and a volume that is root's or empty
HomeWritable(w) ==
  LET c == Box(w)
      s == Volume(w)
      u == UserOf(c)
  IN  /\ At(w, "home")
      /\ \/ c \notin Custom /\ Well /\ UNCHANGED <<box, owner>> /\ UNCHANGED calm
         \/ /\ c \in Custom /\ Works(w)
            /\ box' = [box EXCEPT ![c].home = u]
            /\ owner' = [owner EXCEPT ![s] = IF @ = "root" \/ ~filled[s] THEN u ELSE @]
            /\ UNCHANGED calm
         \/ /\ c \in Custom /\ Breaks(w) /\ UNCHANGED <<box, owner>>
            /\ Disturb({d \in Boxes : ~starting[w].gone /\ box[d].mount = s})
      /\ GoOn(w, "dirs")
      /\ UNCHANGED <<profileVars, files, marker, filled, unsure, edits, runs>>

\* applyProfileSettings: composed before the exec
ToSettings(w) ==
  LET id == starting[w].profile IN
  starting' = [starting EXCEPT ![w].step = IF id = Unset THEN "label" ELSE "apply",
                               ![w].blob = Settings(id)]

\* ensureAgentDirs hands the volume to the owner of the home, whatever is in it
AgentDirs(w) ==
  LET c == Box(w) IN
  /\ At(w, "dirs")
  /\ \/ /\ Works(w)
        /\ owner' = [owner EXCEPT ![Volume(w)] =
             IF box[c].home = "root" THEN "dev" ELSE box[c].home]
        /\ UNCHANGED calm
     \/ Breaks(w) /\ UNCHANGED owner /\ Spoil(w)
  /\ ToSettings(w)
  /\ UNCHANGED <<profileVars, box, files, marker, filled, unsure, edits, runs>>

\* inspectedProfileLabel: a container that never had a profile is left alone
ReadLabel(w) ==
  LET c == Box(w) IN
  /\ At(w, "label")
  /\ \/ /\ Works(w)
        /\ IF box[c].label = Unset THEN Finish(w) ELSE GoOn(w, "apply")
        /\ UNCHANGED calm
     \/ Breaks(w) /\ Finish(w) /\ Spoil(w)
  /\ UNCHANGED <<profileVars, box, volumeVars, unsure, edits, runs>>

\* inFlight: one sync per container, and any number per volume
Held(w) ==
  ~starting[w].gone /\ \E v \in Busy(Box(w)) :
    ~starting[v].gone /\ starting[v].step \in {"marker", "plugins", "mark"}

\* loginSetIsPrivate, and what the profile resolves to now
IsPrivate(id) == id # HostSet /\ SetOf(id) = id

\* syncProfilePlugins up to its first exec, with the profile as it is now
ToPlugins(w) ==
  LET id == starting[w].profile IN
  IF id = Unset THEN Finish(w)
  ELSE IF profiles[id].plugins = {} \/ Held(w) THEN Finish(w)
  ELSE starting' = [starting EXCEPT ![w].step = "marker",
         ![w].wanted = profiles[id].plugins, ![w].private = IsPrivate(id)]

\* mutant: a profile with nothing to say leaves the file alone
ApplyNonEmpty(w) ==
  LET c == Box(w) IN
  /\ At(w, "apply")
  /\ \/ /\ Works(w)
        /\ box' = [box EXCEPT ![c].file = IF starting[w].blob.there THEN starting[w].blob ELSE @]
        /\ UNCHANGED calm
     \/ Breaks(w) /\ UNCHANGED box /\ Spoil(w)
  /\ ToPlugins(w)
  /\ UNCHANGED <<profileVars, volumeVars, unsure, edits, runs>>

\* applyManagedSettings: one exec that writes or removes the file
ApplySettings(w) ==
  LET c == Box(w) IN
  /\ At(w, "apply")
  /\ \/ Works(w)  /\ box' = [box EXCEPT ![c].file = starting[w].blob] /\ UNCHANGED calm
     \/ Breaks(w) /\ UNCHANGED box /\ Spoil(w)
  /\ ToPlugins(w)
  /\ UNCHANGED <<profileVars, volumeVars, unsure, edits, runs>>

-----------------------------------------------------------------------------
(* syncLocked: the plugins of the login volume. *)

Syncing(s) == {w \in Starters : At(w, "plugins") \/ At(w, "mark")}
AtVolume(w) == {v \in Syncing(Volume(w)) \ {w} : Volume(v) = Volume(w) /\ ~starting[v].gone}

\* what is being written cannot be parsed, and lists nothing
Listings(w) ==
  {marker[Volume(w)]} \cup {{} : v \in {u \in AtVolume(w) : At(u, "mark")}}

\* nothing to do, or what is to be installed and what will be listed of the rest
Compare(w, listed) ==
  IF listed = starting[w].wanted THEN Finish(w)
  ELSE starting' = [starting EXCEPT ![w].step = "plugins", ![w].listed = listed,
         ![w].present = IF starting[w].private THEN listed ELSE listed \cap starting[w].wanted,
         ![w].todo = starting[w].wanted \ listed]

\* one cat, and the flags of the CLI
ReadMarker(w) ==
  LET s == Volume(w) IN
  /\ At(w, "marker")
  /\ \/ Works(w) /\ \E listed \in Listings(w) : Compare(w, listed)
     \/ Breaks(w) /\ Compare(w, {})
  /\ unsure' = [unsure EXCEPT ![s] = @ \/ (AtVolume(w) # {} /\ ~starting[w].gone)]
  /\ UNCHANGED <<profileVars, box, volumeVars, calm, edits, runs>>

\* mutant: a plugin that could not be installed is listed all the same
InstallListed(w, r) ==
  LET s == Volume(w) IN
  /\ At(w, "plugins") /\ r \in starting[w].todo
  /\ \/ /\ Works(w)
        /\ files' = [files EXCEPT ![s] = @ \cup {r}]
        /\ filled' = [filled EXCEPT ![s] = TRUE]
     \/ Breaks(w) /\ UNCHANGED <<files, filled>>
  /\ starting' = [starting EXCEPT ![w].todo = @ \ {r}, ![w].present = @ \cup {r}]
  /\ UNCHANGED <<profileVars, box, marker, owner, afterHistory, edits, runs>>

\* one exec; a failure is a warning, and the next start tries again.  A command that
\* takes too long may have its effect all the same, and is not told from one that
\* ended well: runExec resolves, with the exit code 0
InstallPlugin(w, r) ==
  LET s == Volume(w) IN
  /\ At(w, "plugins") /\ r \in starting[w].todo
  /\ \/ /\ Works(w)
        /\ files' = [files EXCEPT ![s] = @ \cup {r}]
        /\ starting' = [starting EXCEPT ![w].todo = @ \ {r}, ![w].present = @ \cup {r}]
        /\ UNCHANGED unsure
     \/ /\ Breaks(w)
        /\ files' \in {files, [files EXCEPT ![s] = IF starting[w].gone THEN @ ELSE @ \cup {r}]}
        /\ starting' = [starting EXCEPT ![w].todo = @ \ {r}]
        /\ UNCHANGED unsure
     \/ /\ ~starting[w].gone /\ Troubled
        /\ files' \in {files, [files EXCEPT ![s] = @ \cup {r}]}
        /\ starting' = [starting EXCEPT ![w].todo = @ \ {r}, ![w].present = @ \cup {r}]
        /\ unsure' = [unsure EXCEPT ![s] = TRUE]
  /\ filled' = [filled EXCEPT ![s] = @ \/ r \in files'[s]]
  /\ UNCHANGED <<profileVars, box, marker, owner, calm, edits, runs>>

\* one exec, in what loginSetIsPrivate takes for a set of the profile's own
UninstallPlugin(w, r) ==
  LET s == Volume(w) IN
  /\ At(w, "plugins") /\ starting[w].todo = {}
  /\ starting[w].private /\ r \in starting[w].listed \ starting[w].wanted
  /\ \/ /\ Works(w)
        /\ files' = [files EXCEPT ![s] = @ \ {r}]
        /\ starting' = [starting EXCEPT ![w].listed = @ \ {r}, ![w].present = @ \ {r},
                                        ![w].removed = TRUE]
        /\ UNCHANGED unsure
     \/ /\ Breaks(w)
        /\ files' \in {files, [files EXCEPT ![s] = IF starting[w].gone THEN @ ELSE @ \ {r}]}
        /\ starting' \in {[starting EXCEPT ![w].listed = @ \ {r}],
                          [starting EXCEPT ![w].listed = @ \ {r}, ![w].present = @ \ {r}]}
        /\ unsure' = [unsure EXCEPT ![s] = @ \/ files' # files]
  /\ UNCHANGED <<profileVars, box, marker, owner, filled, calm, edits, runs>>

ToMark(w) ==
  /\ At(w, "plugins") /\ starting[w].todo = {}
  /\ starting[w].private => starting[w].listed \subseteq starting[w].wanted
  /\ GoOn(w, "mark")
  /\ UNCHANGED <<profileVars, box, volumeVars, afterHistory, afterBounds>>

\* writeMarker, the last exec; half of one is a marker nobody can read
WriteMarker(w) ==
  LET s == Volume(w) IN
  /\ At(w, "mark")
  /\ \/ /\ Works(w)
        /\ marker' = [marker EXCEPT ![s] = starting[w].present]
        /\ UNCHANGED unsure
     \/ /\ Breaks(w)
        /\ marker' \in {marker, [marker EXCEPT ![s] = IF starting[w].gone THEN @ ELSE {}]}
        /\ unsure' = [unsure EXCEPT ![s] = @ \/ starting[w].removed]
  /\ Finish(w)
  /\ UNCHANGED <<profileVars, box, files, owner, filled, calm, edits, runs>>

-----------------------------------------------------------------------------

\* an agent logs in, or works, in a container whose volume is its user's
AgentWrites(c) ==
  /\ owner[box[c].mount] = UserOf(c) /\ ~filled[box[c].mount]
  /\ filled' = [filled EXCEPT ![box[c].mount] = TRUE]
  /\ UNCHANGED <<profileVars, box, files, marker, owner, starting, afterHistory, afterBounds>>

\* the server dies: what it was doing inside containers is not continued
Crash ==
  /\ Troubled
  /\ starting' = [w \in Starters |-> NoStart]
  /\ Disturb({Box(w) : w \in Starters})
  /\ unsure' = [s \in Sets |-> unsure[s] \/
       \E w \in Starters : ~At(w, "idle") /\ Volume(w) = s /\ starting[w].removed]
  /\ UNCHANGED <<profileVars, box, volumeVars, edits, runs>>

AfterStep(w) ==
  \/ HomeWritable(w) \/ AgentDirs(w) \/ ReadLabel(w) \/ ApplySettings(w)
  \/ ReadMarker(w) \/ ToMark(w) \/ WriteMarker(w)
  \/ \E r \in Refs : InstallPlugin(w, r) \/ UninstallPlugin(w, r)

AfterRest == (\A w \in Starters : At(w, "idle")) /\ UNCHANGED afterVars

AfterNext ==
  \/ \E p \in Profiles : EditProfile(p) \/ ForgetProfile(p)
  \/ \E c \in Boxes, id \in Profiles \cup {Unset} : StoreEdit(c, id)
  \/ \E w \in Starters, c \in Boxes :
       StartBox(w, c) \/ \E id \in Profiles \cup {Unset} : Replace(w, c, id)
  \/ \E w \in Starters : AfterStep(w)
  \/ \E c \in Boxes : AgentWrites(c)
  \/ Crash \/ AfterRest

AfterSpec == AfterInit /\ [][AfterNext]_afterVars

-----------------------------------------------------------------------------
(* Properties. *)

FileType  == [there : BOOLEAN, secret : Nat, enabled : SUBSET Refs]
BoxType   == [label : Profiles \cup {Unset}, mount : Sets, file : FileType, home : Owners]
StartType ==
  [box : Boxes \cup {Unset}, profile : Profiles \cup {Unset}, gone : BOOLEAN,
   step : {"idle", "home", "dirs", "label", "apply", "marker", "plugins", "mark"},
   blob : FileType, wanted : SUBSET Refs, private : BOOLEAN, listed : SUBSET Refs,
   present : SUBSET Refs, todo : SUBSET Refs, removed : BOOLEAN]

AfterTypeOK ==
  /\ profiles \in [Profiles -> ProfileType] /\ stored \in [Boxes -> Profiles \cup {Unset}]
  /\ box \in [Boxes -> BoxType]
  /\ files \in [Sets -> SUBSET Refs] /\ marker \in [Sets -> SUBSET Refs]
  /\ owner \in [Sets -> Owners] /\ filled \in [Sets -> BOOLEAN]
  /\ starting \in [Starters -> StartType]
  /\ calm \in [Boxes -> BOOLEAN] /\ unsure \in [Sets -> BOOLEAN]
  /\ edits \in 0 .. MaxEdits /\ runs \in 0 .. MaxRuns /\ troubles \in 0 .. MaxTroubles

\* A container that was started, with nothing failing and nothing changed since, has
\* what its definition says: the settings and secrets of its profile and none of an
\* earlier one, and a login volume its user may write to.  But for one that lost a
\* profile it was not created with, whose label does not tell.
Furnished ==
  \A c \in Boxes : calm[c] /\ Busy(c) = {} =>
    /\ \/ box[c].file = Settings(stored[c])
       \/ stored[c] = Unset /\ box[c].label = Unset
    /\ owner[box[c].mount] = UserOf(c)

\* What the marker of a login volume lists is installed there, or no start would ever
\* install it: failed commands are not recorded.  But where two containers synced one
\* volume at a time, where a removal did not get as far as the marker, and where a
\* command took too long, which the server takes for one that ended well.
MarkedIsThere ==
  \A s \in Sets :
    \/ marker[s] \subseteq files[s]
    \/ unsure[s] \/ \E w \in Starters : starting[w].removed /\ Volume(w) = s

\* "never uninstalls on a SHARED login set", so the test: a plugin that the profile of
\* another container on the same volume asks for stays.
SiblingPluginsStay ==
  [][\A w \in Starters, r \in Refs : UninstallPlugin(w, r) /\ files' # files =>
       \A c \in Boxes : box[c].mount = Volume(w) /\ stored[c] \notin {Unset, starting[w].profile}
                          => r \notin profiles[stored[c]].plugins]_afterVars
=============================================================================
