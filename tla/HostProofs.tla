------------------------------ MODULE HostProofs ------------------------------
(***************************************************************************)
(* For any number of workers, contexts and one-shot containers, the tools  *)
(* volume of a host: the server leaves no container of its own behind but  *)
(* where a removal failed or the server died, what it remembers of the     *)
(* volume is what is in it, and the login of a v0.1 install comes across.  *)
(*                                                                         *)
(* For any number of containers, profiles, plugins and starts, what comes  *)
(* after a start: the marker of a login volume lists what is installed in  *)
(* it, and a container that nothing disturbed has what its definition      *)
(* says.                                                                   *)
(*                                                                         *)
(* ToolsInv says what each worker may have in hand, given what is on the   *)
(* engine (Fits): what it has read from the volume is what is there, or a  *)
(* mishap excuses it.  Until the worker that filled the volume has dropped *)
(* the entry of before, that entry is allowed to be stale (CacheFits).     *)
(*                                                                         *)
(* AfterInv says that a sync lists only what is there and that two syncs   *)
(* of one volume are known (Marks), and how far the one start of an        *)
(* undisturbed container has brought it, with nobody else about to give    *)
(* its volume to another user (Undisturbed).                               *)
(***************************************************************************)
EXTENDS ToolsVolume, AfterStart, TLAPS

-----------------------------------------------------------------------------
(* The tools volume.                                                       *)

\* somebody has filled the volume, and is yet to drop the entry of before
Untold == \E w \in Workers : work[w].shot = "populate" /\ work[w].step = "remove" /\ work[w].ok

\* a version is read from an image
Named(r) ==
  (\/ r.step \in {"version", "joined"}
   \/ r.shot = "version" /\ r.step \in {"create", "run", "remove"}) => r.image \in ToolsImage

\* what a worker may be doing, given what is on the engine
Fits(w, r) ==
  /\ Named(r)
  /\ w \in shots => r.step \in {"run", "remove"}
  /\ r.shot = "read" /\ r.step = "remove" /\ r.ok /\ r.saw.looked =>
       excused \/ (r.saw.edition = volume.edition /\ r.saw.boot = volume.boot)
  /\ r.shot = "import" /\ r.step = "remove" /\ r.ok /\ HasLogin => login.creds # "none"

\* CacheIsHonest, but for a fill that failed
CacheFits ==
  manifests.there /\ manifests.looked =>
    \/ manifests.edition = volume.edition /\ manifests.boot = volume.boot
    \/ excused \/ Untold

LoginFits == imported /\ HasLogin => login.creds # "none"

ToolsInv ==
  /\ ToolsTypeOK
  /\ \A w \in Workers : Fits(w, work[w])
  /\ CacheFits /\ LoginFits

Steps == {"idle", "inspect", "build", "deaf", "version", "joined", "collect", "volume",
          "create", "run", "remove", "volumes", "image", "list", "auth", "look"}

\* A field of its type leaves a worker one.
LEMMA WorkRetyped ==
  ASSUME NEW r \in Work
  PROVE  /\ \A x \in Steps : [r EXCEPT !.step = x] \in Work
         /\ \A x \in Shots : [r EXCEPT !.shot = x] \in Work
         /\ \A x \in BOOLEAN : [r EXCEPT !.ok = x] \in Work /\ [r EXCEPT !.cancelled = x] \in Work
         /\ \A x \in ToolsImage \cup {NoImage} :
              [r EXCEPT !.image = x] \in Work /\ [r EXCEPT !.previous = x] \in Work
         /\ \A x \in Entry : [r EXCEPT !.saw = x] \in Work
<1>1. \A x \in Steps : [r EXCEPT !.step = x] \in Work
  BY DEF Work, Steps
<1>2. \A x \in Shots : [r EXCEPT !.shot = x] \in Work
  BY DEF Work
<1>3. \A x \in BOOLEAN : [r EXCEPT !.ok = x] \in Work /\ [r EXCEPT !.cancelled = x] \in Work
  BY DEF Work
<1>4. \A x \in ToolsImage \cup {NoImage} :
        [r EXCEPT !.image = x] \in Work /\ [r EXCEPT !.previous = x] \in Work
  BY DEF Work
<1>5. \A x \in Entry : [r EXCEPT !.saw = x] \in Work
  BY DEF Work
<1> QED BY <1>1, <1>2, <1>3, <1>4, <1>5

\* A worker that does nothing, and one that begins.
LEMMA IdleIs ==
  /\ NoEntry \in Entry
  /\ Idle \in Work /\ Idle.step = "idle" /\ Idle.shot = "read"
  /\ \A force \in BOOLEAN : Sync(force) \in Work /\ Sync(force).step = "inspect"
<1>1. NoEntry \in Entry
  BY DEF NoEntry, Entry
<1>2. Idle \in Work
  BY <1>1 DEF Idle, Work, Kinds, Shots
<1>3. ASSUME NEW force \in BOOLEAN PROVE Sync(force) \in Work /\ Sync(force).step = "inspect"
  BY <1>1 DEF Sync, Idle, Work, Kinds, Shots
<1> QED BY <1>1, <1>2, <1>3 DEF Idle

\* types of what is not a worker
ToolsTypes ==
  /\ tag \in ToolsImage \cup {NoImage} /\ images \subseteq ToolsImage
  /\ context \in Contexts /\ volume \in Content /\ manifests \in Entry
  /\ login \in [there : BOOLEAN, creds : {"none", "v0.1", "own"}, marker : BOOLEAN]
  /\ legacy \in {"absent", "login"} /\ custom \in BOOLEAN /\ imported \in BOOLEAN
  /\ shots \subseteq Workers /\ known \subseteq ToolsImage
  /\ litter \in BOOLEAN /\ excused \in BOOLEAN
  /\ starts \in 0 .. MaxStarts /\ mishaps \in 0 .. MaxMishaps

\* a fill that ended well
Filled(r) == r.shot = "populate" /\ r.step = "remove" /\ r.ok

\* what the volume holds stays
Same == volume'.edition = volume.edition /\ volume'.boot = volume.boot

\* A step of one worker keeps the invariant when it fits, spoils nobody's look
\* at the volume, takes no login away, and caches nothing but what is there.
LEMMA WorkerKeeps ==
  ASSUME ToolsInv, NEW w \in Workers, NEW r \in Work, work' = [work EXCEPT ![w] = r],
         ToolsTypes', legacy' = legacy, excused => excused',
         \A v \in Workers : Looking(v) => excused' \/ Same,
         login.creds # "none" => login'.creds # "none",
         shots' \subseteq shots \cup {w}, Fits(w, r)',
         \/ ~manifests'.there \/ ~manifests'.looked
         \/ excused' \/ (manifests'.edition = volume'.edition /\ manifests'.boot = volume'.boot)
         \/ /\ manifests' = manifests /\ (Same \/ Filled(r))
            /\ Filled(work[w]) => Filled(r),
         imported' => imported \/ legacy = "absent" \/ login'.creds # "none"
  PROVE  ToolsInv'
<1>1. /\ work \in [Workers -> Work] /\ work' \in [Workers -> Work]
      /\ work'[w] = r /\ \A v \in Workers \ {w} : work'[v] = work[v]
  BY DEF ToolsInv, ToolsTypeOK
<1>2. ToolsTypeOK'
  BY <1>1 DEF ToolsTypes, ToolsTypeOK
<1>3. ASSUME NEW v \in Workers PROVE Fits(v, work[v])'
  <2>1. CASE v = w
    BY <1>1, <2>1
  <2>2. CASE v # w
    <3>1. Fits(v, work[v]) /\ work'[v] = work[v]
      BY <1>1, <2>2 DEF ToolsInv
    <3>2. Looking(v) => excused' \/ Same
      OBVIOUS
    <3> QED BY <2>2, <3>1, <3>2 DEF Fits, Looking, AtStep, Same, HasLogin
  <2> QED BY <2>1, <2>2
<1>4. Filled(r) => Untold'
  BY <1>1 DEF Filled, Untold
<1>5. CacheFits'
  <2>1. CASE manifests' = manifests /\ (Same \/ Filled(r)) /\ (Filled(work[w]) => Filled(r))
    <3>1. Untold => Untold'
      <4> SUFFICES ASSUME NEW v \in Workers, Filled(work[v]) PROVE Untold'
        BY DEF Untold, Filled
      <4>1. CASE v = w
        BY <1>4, <2>1, <4>1
      <4>2. CASE v # w
        BY <1>1, <4>2 DEF Untold, Filled
      <4> QED BY <4>1, <4>2
    <3>2. CacheFits /\ (excused => excused')
      BY DEF ToolsInv
    <3> QED BY <1>4, <2>1, <3>1, <3>2 DEF CacheFits, Same
  <2>2. CASE ~manifests'.there \/ ~manifests'.looked \/ excused'
             \/ (manifests'.edition = volume'.edition /\ manifests'.boot = volume'.boot)
    BY <2>2 DEF CacheFits
  <2> QED BY <2>1, <2>2
<1>6. LoginFits'
  BY DEF ToolsInv, LoginFits, HasLogin
<1> QED BY <1>2, <1>3, <1>5, <1>6 DEF ToolsInv

\* What is known before a step.
LEMMA ToolsIs ==
  ASSUME ToolsInv
  PROVE  ToolsTypes /\ work \in [Workers -> Work] /\ \A w \in Workers : work[w] \in Work
BY DEF ToolsInv, ToolsTypeOK, ToolsTypes

\* A step of a worker whose container does not exist, that changes at most the
\* worker, what counts, and what nobody's look depends on.
LEMMA QuietKeeps ==
  ASSUME ToolsInv, NEW w \in Workers, NEW r \in Work, work' = [work EXCEPT ![w] = r],
         work[w].step \notin {"run", "remove"}, Named(r),
         r.step = "remove" => ~r.ok \/ (r.shot = "read" /\ ~r.saw.looked),
         UNCHANGED <<legacy, shots, excused, manifests>>, ToolsTypes',
         Same, login'.creds = login.creds,
         imported' => imported \/ legacy = "absent"
  PROVE  ToolsInv'
<1>1. w \notin shots'
  BY DEF ToolsInv, Fits
<1>2. Fits(w, r)'
  BY <1>1 DEF Fits, Named
<1>3. ~Filled(work[w])
  BY DEF Filled
<1> QED BY <1>2, <1>3, WorkerKeeps

\* How a worker is moved.
LEMMA Moves ==
  ASSUME work \in [Workers -> Work], NEW w \in Workers
  PROVE  /\ \A s \in Steps : Goto(w, s) =>
              \E r \in Work : /\ r.step = s /\ r.image = work[w].image
                              /\ work' = [work EXCEPT ![w] = r]
         /\ Leave(w) => \E r \in Work : r = Idle /\ work' = [work EXCEPT ![w] = r]
         /\ \A s \in Shots, i \in ToolsImage \cup {NoImage} : Shoot(w, s, i) =>
              \E r \in Work : /\ r.step = "create" /\ r.shot = s /\ r.image = i
                              /\ work' = [work EXCEPT ![w] = r]
<1>1. work[w] \in Work
  OBVIOUS
<1>2. ASSUME NEW s \in Steps, Goto(w, s)
      PROVE  \E r \in Work : /\ r.step = s /\ r.image = work[w].image
                             /\ work' = [work EXCEPT ![w] = r]
  <2>1. PICK r : r = [work[w] EXCEPT !.step = s]
    OBVIOUS
  <2>2. r \in Work
    BY <1>1, <2>1, WorkRetyped
  <2>3. r.step = s /\ r.image = work[w].image
    BY <1>1, <2>1 DEF Work
  <2> QED BY <1>1, <1>2, <2>1, <2>2, <2>3 DEF Goto
<1>3. ASSUME Leave(w) PROVE \E r \in Work : r = Idle /\ work' = [work EXCEPT ![w] = r]
  BY <1>3, IdleIs DEF Leave
<1>4. ASSUME NEW s \in Shots, NEW i \in ToolsImage \cup {NoImage}, Shoot(w, s, i)
      PROVE  \E r \in Work : /\ r.step = "create" /\ r.shot = s /\ r.image = i
                             /\ work' = [work EXCEPT ![w] = r]
  <2>1. PICK r : r = [work[w] EXCEPT !.step = "create", !.shot = s, !.image = i]
    OBVIOUS
  <2>2. r \in Work /\ r.step = "create" /\ r.shot = s /\ r.image = i
    BY <1>1, <2>1 DEF Work
  <2> QED BY <1>1, <1>4, <2>1, <2>2 DEF Shoot
<1> QED BY <1>2, <1>3, <1>4

\* A worker that goes on, or leaves, has no container.
LEMMA GoesOn ==
  ASSUME work \in [Workers -> Work], NEW w \in Workers,
         \/ Leave(w) \/ SyncUnless(w)
         \/ \E s \in Steps \ {"version", "joined", "create", "run", "remove"} : Goto(w, s)
         \/ Goto(w, "joined") /\ work[w].image \in ToolsImage
         \/ \E s \in Shots \ {"version"}, i \in ToolsImage \cup {NoImage} : Shoot(w, s, i)
         \/ \E i \in ToolsImage : Shoot(w, "version", i)
  PROVE  \E r \in Work : work' = [work EXCEPT ![w] = r] /\ r.step # "remove" /\ Named(r)
<1>1. CASE Leave(w) \/ SyncUnless(w)
  <2>1. Leave(w) => \E r \in Work : r = Idle /\ work' = [work EXCEPT ![w] = r]
    BY Moves
  <2> QED BY <1>1, <2>1, IdleIs DEF SyncUnless, Named
<1>2. CASE \/ \E s \in Steps \ {"version", "joined", "create", "run", "remove"} : Goto(w, s)
           \/ Goto(w, "joined") /\ work[w].image \in ToolsImage
  <2>1. \A s \in Steps : Goto(w, s) =>
          \E r \in Work : /\ r.step = s /\ r.image = work[w].image
                          /\ work' = [work EXCEPT ![w] = r]
    BY Moves
  <2> QED BY <1>2, <2>1 DEF Named, Steps
<1>3. CASE \/ \E s \in Shots \ {"version"}, i \in ToolsImage \cup {NoImage} : Shoot(w, s, i)
           \/ \E i \in ToolsImage : Shoot(w, "version", i)
  <2>1. \A s \in Shots, i \in ToolsImage \cup {NoImage} : Shoot(w, s, i) =>
          \E r \in Work : /\ r.step = "create" /\ r.shot = s /\ r.image = i
                          /\ work' = [work EXCEPT ![w] = r]
    BY Moves
  <2> QED BY <1>3, <2>1 DEF Named, Shots
<1> QED BY <1>1, <1>2, <1>3

\* A function that begins.
LEMMA BeginKeeps ==
  ASSUME ToolsInv, NEW w \in Workers, NEW r \in Work, r.step # "remove", Named(r), Begin(w, r)
  PROVE  ToolsInv'
<1>1. ToolsTypes /\ starts' = starts + 1 /\ starts < MaxStarts /\ MaxStarts \in Nat
  BY ToolsIs, ToolsAssumption DEF Begin
<1>2. starts' \in 0 .. MaxStarts
  BY <1>1 DEF ToolsTypes
<1>3. ToolsTypes'
  BY <1>1, <1>2 DEF Begin, ToolsTypes, engineVars, serviceVars
<1>4. work[w].step \notin {"run", "remove"}
  BY DEF Begin, AtStep
<1> QED BY <1>3, <1>4, QuietKeeps DEF Begin, engineVars, serviceVars, Same

\* SyncTools, Ensure_, Status, PollVersion and Check.
LEMMA StartKeeps ==
  ASSUME ToolsInv, NEW w \in Workers,
         \/ \E force \in BOOLEAN : SyncTools(w, force)
         \/ \E brought \in BOOLEAN : Ensure_(w, brought)
         \/ Status(w) \/ PollVersion(w) \/ Check(w)
  PROVE  ToolsInv'
<1>1. CASE \E force \in BOOLEAN : SyncTools(w, force)
  <2>1. PICK force \in BOOLEAN : SyncTools(w, force)
    BY <1>1
  <2>2. Sync(force) \in Work /\ Sync(force).step # "remove"
    BY IdleIs
  <2> QED BY <2>1, <2>2, IdleIs, BeginKeeps DEF SyncTools, Named
<1>2. CASE \E brought \in BOOLEAN : Ensure_(w, brought)
  <2>1. PICK brought \in BOOLEAN : Ensure_(w, brought)
    BY <1>2
  <2>2. PICK r : r = [Idle EXCEPT !.kind = "ensure", !.step = "volumes", !.brought = brought]
    OBVIOUS
  <2>3. r \in Work /\ r.step # "remove" /\ Named(r)
    BY <2>2, IdleIs DEF Work, Kinds, Named
  <2> QED BY <2>1, <2>2, <2>3, BeginKeeps DEF Ensure_
<1>3. CASE Status(w)
  <2>2. PICK r : r = [Idle EXCEPT !.kind = "status", !.step = "image"]
    OBVIOUS
  <2>3. r \in Work /\ r.step # "remove" /\ Named(r)
    BY <2>2, IdleIs DEF Work, Kinds, Named
  <2> QED BY <1>3, <2>2, <2>3, BeginKeeps DEF Status
<1>4. CASE PollVersion(w)
  <2>2. PICK r : r = [Idle EXCEPT !.kind = "version", !.step = "create", !.shot = "version",
                                  !.image = tag]
    OBVIOUS
  <2>3. r \in Work /\ r.step # "remove" /\ Named(r)
    BY <1>4, <2>2, IdleIs, ToolsIs DEF PollVersion, Work, Kinds, Shots, ToolsTypes, Named
  <2> QED BY <1>4, <2>2, <2>3, BeginKeeps DEF PollVersion
<1>5. CASE Check(w)
  <2>2. PICK r : r = [Idle EXCEPT !.kind = "check", !.step = "look"]
    OBVIOUS
  <2>3. r \in Work /\ r.step # "remove" /\ Named(r)
    BY <2>2, IdleIs DEF Work, Kinds, Named
  <2> QED BY <1>5, <2>2, <2>3, BeginKeeps DEF Check
<1> QED BY <1>1, <1>2, <1>3, <1>4, <1>5

\* What counts calls that fail keeps its type.
LEMMA Counts ==
  ASSUME ToolsTypes, Sound \/ Mishap
  PROVE  mishaps' \in 0 .. MaxMishaps
BY ToolsAssumption DEF ToolsTypes, Sound, Mishap

\* The user cancels a sync.
LEMMA CancelKeeps ==
  ASSUME ToolsInv, NEW w \in Workers, CancelSync(w)
  PROVE  ToolsInv'
<1>1. ToolsTypes /\ work \in [Workers -> Work] /\ work[w] \in Work
  BY ToolsIs
<1>2. ToolsTypes'
  BY <1>1, Counts DEF ToolsTypes, CancelSync, engineVars, serviceVars
<1>3. PICK s : s = IF work[w].step = "build" THEN "deaf" ELSE work[w].step
  OBVIOUS
<1>4. PICK r : r = [work[w] EXCEPT !.cancelled = TRUE, !.step = s]
  OBVIOUS
<1>5. s \in Steps
  BY <1>1, <1>3 DEF Work, Steps
<1>6. r \in Work /\ r.step = s
  BY <1>1, <1>4, <1>5 DEF Work, Steps
<1>7. r.shot = work[w].shot /\ r.ok = work[w].ok /\ r.saw = work[w].saw
      /\ r.image = work[w].image
  BY <1>1, <1>4 DEF Work
<1>8. work' = [work EXCEPT ![w] = r]
  BY <1>1, <1>3, <1>4 DEF CancelSync
<1>9. Same /\ shots' = shots /\ excused' = excused /\ login' = login /\ legacy' = legacy
      /\ manifests' = manifests /\ imported' = imported /\ volume' = volume
  BY DEF CancelSync, engineVars, serviceVars, Same
<1>10. Fits(w, r)'
  BY <1>3, <1>6, <1>7, <1>9 DEF ToolsInv, Fits, HasLogin, Named
<1>11. Filled(work[w]) => Filled(r)
  BY <1>3, <1>6, <1>7 DEF Filled
<1> QED BY <1>2, <1>6, <1>8, <1>9, <1>10, <1>11, WorkerKeeps

\* The image is looked at.
LEMMA InspectKeeps ==
  ASSUME ToolsInv, NEW w \in Workers, Inspect(w)
  PROVE  ToolsInv'
<1>1. ToolsTypes /\ work \in [Workers -> Work] /\ work[w] \in Work
  BY ToolsIs
<1>2. ToolsTypes'
  BY <1>1, Counts DEF ToolsTypes, Inspect, engineVars, serviceVars
<1>3. PICK r \in Work : work' = [work EXCEPT ![w] = r] /\ r.step # "remove" /\ Named(r)
  <2>1. CASE Leave(w)
    BY <1>1, <2>1, GoesOn
  <2>2. CASE ~Leave(w)
    <3>1. PICK s \in {"build", "volume"} :
            work' = [work EXCEPT ![w].step = s, ![w].previous = tag]
      BY <2>2 DEF Inspect
    <3>2. PICK r : r = [work[w] EXCEPT !.step = s, !.previous = tag]
      OBVIOUS
    <3>3. r \in Work /\ r.step # "remove" /\ Named(r)
      <4>1. r \in Work /\ r.step = s /\ r.shot = work[w].shot /\ r.image = work[w].image
        BY <1>1, <3>2 DEF Work, ToolsTypes
      <4> QED BY <4>1 DEF Named
    <3> QED BY <1>1, <3>1, <3>2, <3>3
  <2> QED BY <2>1, <2>2
<1> QED BY <1>2, <1>3, QuietKeeps DEF Inspect, AtStep, engineVars, serviceVars, Same

\* An image is built.
LEMMA BuildKeeps ==
  ASSUME ToolsInv, NEW w \in Workers, Build(w)
  PROVE  ToolsInv'
<1>1. ToolsTypes /\ work \in [Workers -> Work] /\ work[w] \in Work
  BY ToolsIs
<1>2. UNCHANGED <<volume, login, legacy, custom, shots, litter, context, manifests,
                  imported, excused, starts>> /\ work[w].step = "build" /\ (Sound \/ Mishap)
  BY DEF Build, AtStep
<1>3. /\ tag' \in ToolsImage \cup {NoImage} /\ images' \subseteq ToolsImage
      /\ known' \subseteq ToolsImage
      /\ \E r \in Work : work' = [work EXCEPT ![w] = r] /\ r.step # "remove" /\ Named(r)
  <2>1. CASE Leave(w) /\ UNCHANGED <<tag, images, known>>
    BY <1>1, <2>1, GoesOn DEF ToolsTypes
  <2>2. CASE ~(Leave(w) /\ UNCHANGED <<tag, images, known>>)
    <3>1. PICK new : new = {b \in Builds : [context |-> context, build |-> b] \notin images}
      OBVIOUS
    <3>2. PICK built : built = [context |-> context, build |-> CHOOSE b \in new : TRUE]
      OBVIOUS
    <3>3. /\ new # {}
          /\ tag' = built /\ images' = images \cup {built}
          /\ \E logged \in {TRUE, work[w].force} :
               /\ known' = IF logged THEN known \cup {built} ELSE known \ {built}
               /\ work' = [work EXCEPT ![w].step = IF logged THEN "collect" ELSE "version",
                                       ![w].image = built]
      BY <2>2, <3>1, <3>2 DEF Build
    <3>4. built \in ToolsImage
      BY <1>1, <3>1, <3>2, <3>3 DEF ToolsImage, ToolsTypes
    <3>5. PICK s \in {"collect", "version"} :
            work' = [work EXCEPT ![w].step = s, ![w].image = built]
      BY <3>3
    <3>6. PICK r : r = [work[w] EXCEPT !.step = s, !.image = built]
      OBVIOUS
    <3>7. r \in Work /\ r.step # "remove" /\ Named(r)
      BY <1>1, <3>4, <3>6 DEF Work, Named
    <3>8. work' = [work EXCEPT ![w] = r]
      BY <1>1, <3>5, <3>6
    <3> QED BY <1>1, <3>3, <3>4, <3>7, <3>8 DEF ToolsTypes
  <2> QED BY <2>1, <2>2
<1>4. ToolsTypes'
  BY <1>1, <1>2, <1>3, Counts DEF ToolsTypes
<1> QED BY <1>2, <1>3, <1>4, QuietKeeps DEF Same

\* A version is recorded, or its read is joined.
LEMMA RecordKeeps ==
  ASSUME ToolsInv, NEW w \in Workers, RecordVersion(w)
  PROVE  ToolsInv'
<1>1. ToolsTypes /\ work \in [Workers -> Work] /\ work[w] \in Work
  BY ToolsIs
<1>2. UNCHANGED <<engineVars, serviceVars, excused, toolsBounds>>
      /\ work[w].step \notin {"run", "remove"}
  BY DEF RecordVersion, AtStep
<1>3. ToolsTypes'
  BY <1>1, <1>2 DEF ToolsTypes, engineVars, serviceVars, toolsBounds
<1>4. work[w].image \in ToolsImage /\ "collect" \in Steps
  <2>1. Fits(w, work[w])
    BY DEF ToolsInv
  <2> QED BY <2>1 DEF RecordVersion, AtStep, Fits, Named, Steps
<1>5. PICK r \in Work : work' = [work EXCEPT ![w] = r] /\ r.step # "remove" /\ Named(r)
  <2>1. Goto(w, "joined") \/ Goto(w, "collect") \/ Shoot(w, "version", work[w].image)
    BY DEF RecordVersion
  <2> QED BY <1>1, <1>4, <2>1, GoesOn
<1> QED BY <1>2, <1>3, <1>5, QuietKeeps DEF engineVars, serviceVars, Same

\* The image that was replaced is removed.
LEMMA ReplacedKeeps ==
  ASSUME ToolsInv, NEW w \in Workers, RemoveReplaced(w)
  PROVE  ToolsInv'
<1>1. ToolsTypes /\ work \in [Workers -> Work] /\ work[w] \in Work
  BY ToolsIs
<1>2. UNCHANGED <<tag, volume, login, legacy, custom, shots, litter, serviceVars, excused, starts>>
      /\ work[w].step = "collect" /\ images' \subseteq images /\ (Sound \/ Mishap)
      /\ Goto(w, "volume")
  BY DEF RemoveReplaced, AtStep
<1>3. ToolsTypes'
  BY <1>1, <1>2, Counts DEF ToolsTypes, serviceVars
<1>4. PICK r \in Work : work' = [work EXCEPT ![w] = r] /\ r.step # "remove" /\ Named(r)
  BY <1>1, <1>2, GoesOn DEF Steps
<1> QED BY <1>2, <1>3, <1>4, QuietKeeps DEF serviceVars, Same

\* The volume is found or made.
LEMMA VolumeKeeps ==
  ASSUME ToolsInv, NEW w \in Workers, EnsureVolume(w)
  PROVE  ToolsInv'
<1>1. ToolsTypes /\ work \in [Workers -> Work] /\ work[w] \in Work
  BY ToolsIs
<1>2. UNCHANGED <<tag, images, login, legacy, custom, shots, litter, serviceVars, excused, starts>>
      /\ work[w].step = "volume" /\ (Sound \/ Mishap)
      /\ (Shoot(w, "populate", NoImage) \/ Leave(w))
      /\ (volume' = volume \/ volume' = [volume EXCEPT !.there = TRUE])
  BY DEF EnsureVolume, AtStep
<1>3. volume' \in Content /\ Same
  BY <1>1, <1>2 DEF ToolsTypes, Content, Same
<1>4. ToolsTypes'
  BY <1>1, <1>2, <1>3, Counts DEF ToolsTypes, serviceVars
<1>5. PICK r \in Work : work' = [work EXCEPT ![w] = r] /\ r.step # "remove" /\ Named(r)
  BY <1>1, <1>2, GoesOn DEF Shots
<1> QED BY <1>2, <1>3, <1>4, <1>5, QuietKeeps DEF serviceVars

\* The volumes are listed, and what is cached looked at.
LEMMA VolumesKeeps ==
  ASSUME ToolsInv, NEW w \in Workers, Volumes(w)
  PROVE  ToolsInv'
<1>1. ToolsTypes /\ work \in [Workers -> Work] /\ work[w] \in Work
  BY ToolsIs
<1>2. UNCHANGED <<engineVars, serviceVars, excused, starts>>
      /\ work[w].step = "volumes" /\ (Sound \/ Mishap)
      /\ (SyncUnless(w) \/ Goto(w, "image") \/ Leave(w))
  BY DEF Volumes, AtStep
<1>3. ToolsTypes'
  BY <1>1, <1>2, Counts DEF ToolsTypes, engineVars, serviceVars
<1>4. PICK r \in Work : work' = [work EXCEPT ![w] = r] /\ r.step # "remove" /\ Named(r)
  BY <1>1, <1>2, GoesOn DEF Steps
<1> QED BY <1>2, <1>3, <1>4, QuietKeeps DEF engineVars, serviceVars, Same

\* Is there an image to look with.
LEMMA ProbeKeeps ==
  ASSUME ToolsInv, NEW w \in Workers, ProbeImage(w)
  PROVE  ToolsInv'
<1>1. ToolsTypes /\ work \in [Workers -> Work] /\ work[w] \in Work
  BY ToolsIs
<1>2. UNCHANGED <<engineVars, serviceVars, excused, starts>>
      /\ work[w].step = "image" /\ (Sound \/ Mishap)
  BY DEF ProbeImage, AtStep
<1>3. ToolsTypes'
  BY <1>1, <1>2, Counts DEF ToolsTypes, engineVars, serviceVars
<1>4. PICK e : e = [NoEntry EXCEPT !.there = TRUE, !.fresh = TRUE]
  OBVIOUS
<1>5. e \in Entry /\ ~e.looked
  BY <1>4 DEF NoEntry, Entry
<1>6. PICK r \in Work : work' = [work EXCEPT ![w] = r]
                        /\ (r.step = "remove" => ~r.ok \/ (r.shot = "read" /\ ~r.saw.looked))
                        /\ Named(r)
  <2>1. CASE Shoot(w, "read", NoImage)
    BY <1>1, <2>1, GoesOn DEF Shots
  <2>2. CASE work' = [work EXCEPT ![w].step = "remove", ![w].shot = "read", ![w].saw = e]
    <3>1. PICK r : r = [work[w] EXCEPT !.step = "remove", !.shot = "read", !.saw = e]
      OBVIOUS
    <3>2. r \in Work /\ r.step = "remove" /\ r.shot = "read" /\ r.saw = e
      BY <1>1, <1>5, <3>1 DEF Work, Shots
    <3>3. work' = [work EXCEPT ![w] = r]
      BY <1>1, <2>2, <3>1
    <3> QED BY <1>5, <3>2, <3>3 DEF Named
  <2>3. CASE work' = [work EXCEPT ![w].step = "remove", ![w].shot = "read", ![w].ok = FALSE]
    <3>1. PICK r : r = [work[w] EXCEPT !.step = "remove", !.shot = "read", !.ok = FALSE]
      OBVIOUS
    <3>2. r \in Work /\ r.step = "remove" /\ r.shot = "read" /\ ~r.ok
      BY <1>1, <3>1 DEF Work, Shots
    <3>3. work' = [work EXCEPT ![w] = r]
      BY <1>1, <2>3, <3>1
    <3> QED BY <3>2, <3>3 DEF Named
  <2> QED BY <1>4, <2>1, <2>2, <2>3 DEF ProbeImage
<1> QED BY <1>2, <1>3, <1>6, QuietKeeps DEF engineVars, serviceVars, Same

\* Is there a volume of v0.1.
LEMMA ListKeeps ==
  ASSUME ToolsInv, NEW w \in Workers, ListLegacy(w)
  PROVE  ToolsInv'
<1>1. ToolsTypes /\ work \in [Workers -> Work] /\ work[w] \in Work
  BY ToolsIs
<1>2. UNCHANGED <<engineVars, context, manifests, known, excused, starts>>
      /\ work[w].step = "list" /\ (Sound \/ Mishap)
      /\ (Leave(w) \/ Shoot(w, "import", NoImage) \/ Goto(w, "auth"))
      /\ (imported' = imported \/ imported' = (legacy = "absent"))
  BY DEF ListLegacy, AtStep
<1>3. imported' \in BOOLEAN /\ (imported' => imported \/ legacy = "absent")
  <2>1. imported \in BOOLEAN /\ (legacy = "absent") \in BOOLEAN
    BY <1>1 DEF ToolsTypes
  <2> QED BY <1>2, <2>1, Zenon
<1>4. ToolsTypes'
  BY <1>1, <1>2, <1>3, Counts DEF ToolsTypes, engineVars
<1>5. PICK r \in Work : work' = [work EXCEPT ![w] = r] /\ r.step # "remove" /\ Named(r)
  BY <1>1, <1>2, GoesOn DEF Steps, Shots
<1> QED BY <1>2, <1>3, <1>4, <1>5, QuietKeeps DEF engineVars, Same

\* The volume for the login of claude is made.
LEMMA AuthKeeps ==
  ASSUME ToolsInv, NEW w \in Workers, CreateAuth(w)
  PROVE  ToolsInv' /\ login'.creds = login.creds
<1>1. ToolsTypes /\ work \in [Workers -> Work] /\ work[w] \in Work
  BY ToolsIs
<1>2. UNCHANGED <<tag, images, volume, legacy, custom, shots, litter, serviceVars, excused, starts>>
      /\ work[w].step = "auth" /\ (Sound \/ Mishap)
      /\ (Leave(w) \/ Shoot(w, "import", NoImage))
      /\ (login' = login \/ login' = [login EXCEPT !.there = TRUE])
  BY DEF CreateAuth, AtStep
<1>3. login' \in [there : BOOLEAN, creds : {"none", "v0.1", "own"}, marker : BOOLEAN]
      /\ login'.creds = login.creds
  BY <1>1, <1>2 DEF ToolsTypes
<1>4. ToolsTypes'
  BY <1>1, <1>2, <1>3, Counts DEF ToolsTypes, serviceVars
<1>5. PICK r \in Work : work' = [work EXCEPT ![w] = r] /\ r.step # "remove" /\ Named(r)
  BY <1>1, <1>2, GoesOn DEF Shots
<1> QED BY <1>2, <1>3, <1>4, <1>5, QuietKeeps DEF serviceVars, Same

\* A custom image is looked at, or pulled.
LEMMA PullKeeps ==
  ASSUME ToolsInv, NEW w \in Workers, PullCustom(w)
  PROVE  ToolsInv'
<1>1. ToolsTypes /\ work \in [Workers -> Work] /\ work[w] \in Work
  BY ToolsIs
<1>2. UNCHANGED <<tag, images, volume, login, legacy, shots, litter, serviceVars, excused, starts>>
      /\ work[w].step = "look" /\ (Sound \/ Mishap)
      /\ (Leave(w) \/ Shoot(w, "check", NoImage))
  BY DEF PullCustom, AtStep
<1>3. custom' \in BOOLEAN
  BY <1>1 DEF PullCustom, ToolsTypes
<1>4. ToolsTypes'
  BY <1>1, <1>2, <1>3, Counts DEF ToolsTypes, serviceVars
<1>5. PICK r \in Work : work' = [work EXCEPT ![w] = r] /\ r.step # "remove" /\ Named(r)
  BY <1>1, <1>2, GoesOn DEF Shots
<1> QED BY <1>2, <1>3, <1>4, <1>5, QuietKeeps DEF serviceVars, Same

\* A one-shot container is created, or is not.
LEMMA CreateKeeps ==
  ASSUME ToolsInv, NEW w \in Workers, CreateShot(w)
  PROVE  ToolsInv'
<1>1. ToolsTypes /\ work \in [Workers -> Work] /\ work[w] \in Work /\ Fits(w, work[w])
  BY ToolsIs DEF ToolsInv
<1>2. UNCHANGED <<tag, images, login, legacy, custom, litter, serviceVars, excused, starts>>
      /\ work[w].step = "create" /\ (Sound \/ Mishap)
  BY DEF CreateShot, AtStep
<1>3. volume' \in Content /\ Same /\ shots' \subseteq shots \cup {w} /\ w \notin shots
  <2>1. volume \in Content
    BY <1>1 DEF ToolsTypes
  <2>2. volume' = volume \/ volume' = [volume EXCEPT !.there = TRUE]
    BY DEF CreateShot
  <2>3. volume' \in Content /\ Same
    BY <2>1, <2>2 DEF Content, Same
  <2>4. shots' \subseteq shots \cup {w}
    BY DEF CreateShot
  <2>5. w \notin shots
    BY <1>1, <1>2 DEF Fits
  <2> QED BY <2>3, <2>4, <2>5
<1>4. ToolsTypes'
  BY <1>1, <1>2, <1>3, Counts DEF ToolsTypes, serviceVars
<1>5. CASE /\ shots' = shots \cup {w}
           /\ work' = [work EXCEPT ![w].step = "run", ![w].image = ShotImage(w)]
  <2>1. ShotImage(w) \in ToolsImage \cup {NoImage}
        /\ (work[w].shot = "version" => ShotImage(w) = work[w].image)
    BY <1>1 DEF ShotImage, Work, ToolsTypes
  <2>2. PICK i \in ToolsImage \cup {NoImage} : i = ShotImage(w)
    BY <2>1
  <2>3. PICK r : r = [work[w] EXCEPT !.step = "run", !.image = i]
    OBVIOUS
  <2>4. r \in Work /\ r.step = "run" /\ r.image = i /\ r.shot = work[w].shot
    BY <1>1, <2>3 DEF Work
  <2>5. Named(r)
    BY <1>1, <1>2, <2>1, <2>2, <2>4 DEF Fits, Named
  <2>6. Fits(w, r)'
    BY <2>4, <2>5 DEF Fits, Named
  <2>7. ~Filled(work[w])
    BY <1>2 DEF Filled
  <2>8. work' = [work EXCEPT ![w] = r]
    BY <1>1, <1>5, <2>2, <2>3
  <2> QED BY <1>2, <1>3, <1>4, <2>4, <2>6, <2>7, <2>8, WorkerKeeps DEF serviceVars
<1>6. CASE /\ work' = [work EXCEPT ![w].step = "remove", ![w].ok = FALSE]
           /\ UNCHANGED <<shots, volume>>
  <2>1. PICK r : r = [work[w] EXCEPT !.step = "remove", !.ok = FALSE]
    OBVIOUS
  <2>2. r \in Work /\ r.step = "remove" /\ ~r.ok /\ r.shot = work[w].shot /\ r.image = work[w].image
    BY <1>1, <2>1 DEF Work
  <2>3. Named(r)
    BY <1>1, <1>2, <2>2 DEF Fits, Named
  <2>4. work' = [work EXCEPT ![w] = r]
    BY <1>1, <1>6, <2>1
  <2> QED BY <1>2, <1>3, <1>4, <1>6, <2>2, <2>3, <2>4, QuietKeeps DEF serviceVars
<1> QED BY <1>5, <1>6 DEF CreateShot

\* What importing leaves of a login.
LEMMA ImportIs ==
  ASSUME ToolsTypes, NEW ok \in BOOLEAN, Import(ok)
  PROVE  /\ login' \in [there : BOOLEAN, creds : {"none", "v0.1", "own"}, marker : BOOLEAN]
         /\ login.creds # "none" => login'.creds = login.creds
         /\ ok /\ HasLogin => login'.creds # "none"
<1>1. PICK cr : cr = IF login.creds = "none" /\ HasLogin THEN "v0.1" ELSE login.creds
  OBVIOUS
<1>2. PICK copied : copied = [login EXCEPT !.creds = cr]
  OBVIOUS
<1>3. PICK marked : marked = [copied EXCEPT !.marker = TRUE]
  OBVIOUS
<1>4. login \in [there : BOOLEAN, creds : {"none", "v0.1", "own"}, marker : BOOLEAN]
  BY DEF ToolsTypes
<1>5. copied \in [there : BOOLEAN, creds : {"none", "v0.1", "own"}, marker : BOOLEAN]
      /\ copied.creds = cr
  BY <1>1, <1>2, <1>4
<1>6. marked \in [there : BOOLEAN, creds : {"none", "v0.1", "own"}, marker : BOOLEAN]
      /\ marked.creds = cr
  BY <1>3, <1>5
<1>7. IF ok THEN login' = IF login.marker /\ (login.creds # "none" \/ ~HasLogin)
                          THEN login ELSE marked
            ELSE login' \in {login, copied}
  BY <1>1, <1>2, <1>3 DEF Import
<1> QED BY <1>1, <1>4, <1>5, <1>6, <1>7

\* A one-shot container runs.
LEMMA RunKeeps ==
  ASSUME ToolsInv, NEW w \in Workers, RunShot(w)
  PROVE  ToolsInv' /\ (login.creds # "none" => login'.creds = login.creds)
<1>1. ToolsTypes /\ work \in [Workers -> Work] /\ work[w] \in Work /\ Fits(w, work[w])
  BY ToolsIs DEF ToolsInv
<1>2. UNCHANGED <<tag, images, legacy, custom, shots, litter, serviceVars, starts>>
      /\ work[w].step = "run"
  BY DEF RunShot, AtStep
<1>3. PICK ok \in BOOLEAN :
        /\ IF ok THEN Sound ELSE Mishap
        /\ CASE work[w].shot = "populate" -> Populate(w, ok)
             [] work[w].shot = "import"   -> Import(ok) /\ UNCHANGED <<volume, excused>>
             [] OTHER                     -> UNCHANGED <<volume, login, excused>>
        /\ work' = [work EXCEPT ![w].step = "remove", ![w].ok = ok,
             ![w].saw = IF work[w].shot = "read" /\ ok THEN Seen ELSE @]
  BY DEF RunShot
<1>4. /\ work[w].shot = "populate" => Populate(w, ok)
      /\ work[w].shot = "import" => Import(ok) /\ UNCHANGED <<volume, excused>>
      /\ work[w].shot \notin {"populate", "import"} => UNCHANGED <<volume, login, excused>>
  BY <1>3
<1>5. Seen \in Entry
  BY <1>1 DEF Seen, Entry, ToolsTypes, Content
<1>6. PICK e \in Entry : e = IF work[w].shot = "read" /\ ok THEN Seen ELSE work[w].saw
  BY <1>1, <1>5 DEF Work
<1>7. PICK r : r = [work[w] EXCEPT !.step = "remove", !.ok = ok, !.saw = e]
  OBVIOUS
<1>8. r \in Work /\ r.step = "remove" /\ r.ok = ok /\ r.saw = e
      /\ r.shot = work[w].shot /\ r.image = work[w].image
  BY <1>1, <1>7 DEF Work
<1>9. work' = [work EXCEPT ![w] = r]
  BY <1>1, <1>3, <1>6, <1>7
<1>10. Named(r) /\ ~Filled(work[w])
  BY <1>1, <1>2, <1>8 DEF Fits, Named, Filled
<1>11. mishaps' \in 0 .. MaxMishaps
  BY <1>1, <1>3, Counts
<1>12. CASE work[w].shot = "populate"
  <2>1. PICK new : new = [there |-> TRUE, boot |-> TRUE, edition |-> volume.edition + 1]
    OBVIOUS
  <2>2. volume' \in Content
    <3>1. volume \in Content
      BY <1>1 DEF ToolsTypes
    <3>2. CASE ok /\ Alone(w)
      <4>1. volume' = new
        BY <1>4, <1>12, <2>1, <3>2 DEF Populate
      <4> QED BY <2>1, <3>1, <4>1 DEF Content
    <3>3. CASE ~(ok /\ Alone(w))
      <4>1. volume' \in {volume} \cup {[there |-> TRUE, boot |-> b, edition |-> volume.edition + 1] :
                                         b \in {TRUE, volume.boot}}
        BY <1>4, <1>12, <3>3 DEF Populate
      <4>2. volume.boot \in BOOLEAN /\ volume.edition + 1 \in Nat
        BY <3>1 DEF Content
      <4>3. \A b \in BOOLEAN :
              [there |-> TRUE, boot |-> b, edition |-> volume.edition + 1] \in Content
        BY <4>2 DEF Content
      <4>4. {[there |-> TRUE, boot |-> b, edition |-> volume.edition + 1] :
               b \in {TRUE, volume.boot}} \subseteq Content
        BY <4>2, <4>3
      <4> QED BY <3>1, <4>1, <4>4, Zenon
    <3> QED BY <3>2, <3>3
  <2>3. /\ excused' \in BOOLEAN /\ (excused => excused') /\ login' = login
        /\ ~ok => excused'
        /\ \A v \in Workers : Looking(v) => excused'
    BY <1>1, <1>4, <1>12 DEF Populate, ToolsTypes
  <2>4. ToolsTypes'
    BY <1>1, <1>2, <1>11, <2>2, <2>3 DEF ToolsTypes, serviceVars
  <2>5. Fits(w, r)'
    BY <1>8, <1>10, <1>12 DEF Fits, Named
  <2>6. excused' \/ Filled(r)
    BY <1>8, <1>12, <2>3 DEF Filled
  <2> QED BY <1>2, <1>8, <1>9, <1>10, <2>3, <2>4, <2>5, <2>6, WorkerKeeps DEF serviceVars
<1>13. CASE work[w].shot = "import"
  <2>1. UNCHANGED <<volume, excused>> /\ Same
    BY <1>4, <1>13 DEF Same
  <2>2. /\ login' \in [there : BOOLEAN, creds : {"none", "v0.1", "own"}, marker : BOOLEAN]
        /\ login.creds # "none" => login'.creds = login.creds
        /\ ok /\ HasLogin => login'.creds # "none"
    BY <1>1, <1>4, <1>13, ImportIs
  <2>3. ToolsTypes'
    BY <1>1, <1>2, <1>11, <2>1, <2>2 DEF ToolsTypes, serviceVars
  <2>4. Fits(w, r)'
    BY <1>2, <1>8, <1>10, <1>13, <2>2 DEF Fits, Named, HasLogin
  <2> QED BY <1>2, <1>8, <1>9, <1>10, <2>1, <2>2, <2>3, <2>4, WorkerKeeps DEF serviceVars
<1>14. CASE work[w].shot \notin {"populate", "import"}
  <2>1. UNCHANGED <<volume, excused, login>> /\ Same
    BY <1>4, <1>14 DEF Same
  <2>2. ToolsTypes'
    BY <1>1, <1>2, <1>11, <2>1 DEF ToolsTypes, serviceVars
  <2>3. work[w].shot = "read" /\ ok => e.edition = volume.edition /\ e.boot = volume.boot
    BY <1>6 DEF Seen
  <2>4. Fits(w, r)'
    BY <1>2, <1>8, <1>10, <1>14, <2>1, <2>3 DEF Fits, Named
  <2> QED BY <1>2, <1>8, <1>9, <1>10, <2>1, <2>2, <2>4, WorkerKeeps DEF serviceVars
<1> QED BY <1>12, <1>13, <1>14

\* The container is gone, whether or not that is known to have worked.
LEMMA CleanIs ==
  ASSUME ToolsTypes, NEW w \in Workers, Clean(w)
  PROVE  /\ shots' \subseteq shots \ {w} /\ (Sound \/ Mishap)
         /\ litter' \in BOOLEAN
<1>1. litter \in BOOLEAN
  BY DEF ToolsTypes
<1>2. CASE w \notin shots
  <2>1. shots' = shots /\ litter' = litter /\ Sound
    BY <1>2 DEF Clean
  <2> QED BY <1>1, <1>2, <2>1
<1>3. CASE w \in shots
  <2>1. shots' = shots \ {w} /\ (litter' = litter \/ litter' = TRUE) /\ (Sound \/ Mishap)
    BY <1>3 DEF Clean
  <2> QED BY <1>1, <2>1
<1> QED BY <1>2, <1>3

\* What comes after a container.
LEMMA AfterKeeps ==
  ASSUME ToolsInv, NEW w \in Workers, AfterShot(w)
  PROVE  ToolsInv'
<1>1. ToolsTypes /\ work \in [Workers -> Work] /\ work[w] \in Work /\ Fits(w, work[w])
  BY ToolsIs DEF ToolsInv
<1>2. UNCHANGED <<tag, images, volume, login, legacy, custom, context, excused, starts>>
      /\ work[w].step = "remove" /\ Same /\ Clean(w)
  BY DEF AfterShot, Same, Populated, Looked, Imported, VersionRead, Checked, AtStep
<1>3. shots' \subseteq shots \ {w} /\ (Sound \/ Mishap) /\ litter' \in BOOLEAN
  BY <1>1, <1>2, CleanIs
<1>4. ASSUME manifests' \in Entry, imported' \in BOOLEAN, known' \subseteq ToolsImage
      PROVE  ToolsTypes'
  BY <1>1, <1>2, <1>3, <1>4, Counts DEF ToolsTypes
<1>5. ASSUME NEW r \in Work, r.step # "remove", Named(r) PROVE Fits(w, r)'
  BY <1>3, <1>5 DEF Fits, Named
<1>6. CASE Populated(w)
  <2>1. PICK r \in Work : work' = [work EXCEPT ![w] = r] /\ r.step # "remove" /\ Named(r)
    BY <1>1, <1>6, GoesOn DEF Populated, Steps
  <2>2. manifests' = NoEntry \/ (manifests' = manifests /\ ~work[w].ok)
    BY <1>6 DEF Populated
  <2>3. manifests' \in Entry /\ UNCHANGED <<imported, known>>
    BY <1>1, <1>6, <2>2, IdleIs DEF Populated, ToolsTypes
  <2>4. ToolsTypes'
    BY <1>1, <1>4, <2>3 DEF ToolsTypes
  <2>5. ~manifests'.there \/ (manifests' = manifests /\ ~Filled(work[w]))
    BY <2>2 DEF NoEntry, Filled
  <2> QED BY <1>2, <1>3, <1>5, <2>1, <2>3, <2>4, <2>5, WorkerKeeps
<1>7. CASE Looked(w)
  <2>1. PICK r \in Work : work' = [work EXCEPT ![w] = r] /\ r.step # "remove" /\ Named(r)
    <3>1. CASE Leave(w) \/ SyncUnless(w)
      BY <1>1, <3>1, GoesOn
    <3>2. CASE work' = [work EXCEPT ![w].step = "list", ![w].ok = TRUE]
      <4>1. PICK r : r = [work[w] EXCEPT !.step = "list", !.ok = TRUE]
        OBVIOUS
      <4>2. r \in Work /\ r.step = "list"
        BY <1>1, <4>1 DEF Work
      <4>3. work' = [work EXCEPT ![w] = r]
        BY <1>1, <3>2, <4>1
      <4> QED BY <4>2, <4>3 DEF Named
    <3> QED BY <1>7, <3>1, <3>2 DEF Looked
  <2>2. work[w].shot = "read" /\ UNCHANGED <<imported, known>>
        /\ manifests' = IF work[w].ok THEN work[w].saw
                        ELSE IF Does(w, "sync") THEN FailedEntry ELSE manifests
    BY <1>7 DEF Looked
  <2>3. FailedEntry \in Entry /\ ~FailedEntry.looked
    BY DEF FailedEntry, NoEntry, Entry
  <2>4. manifests' \in Entry
    BY <1>1, <2>2, <2>3 DEF ToolsTypes, Work
  <2>5. ToolsTypes'
    BY <1>1, <1>4, <2>2, <2>4 DEF ToolsTypes
  <2>6. ~Filled(work[w])
    BY <2>2 DEF Filled
  <2>7. \/ ~manifests'.looked
        \/ excused' \/ (manifests'.edition = volume'.edition /\ manifests'.boot = volume'.boot)
        \/ manifests' = manifests
    BY <1>1, <1>2, <2>2, <2>3 DEF Fits
  <2> QED BY <1>2, <1>3, <1>5, <2>1, <2>2, <2>5, <2>6, <2>7, WorkerKeeps
<1>8. CASE Imported(w)
  <2>1. PICK r \in Work : work' = [work EXCEPT ![w] = r] /\ r.step # "remove" /\ Named(r)
    BY <1>1, <1>8, GoesOn DEF Imported
  <2>2. work[w].shot = "import" /\ UNCHANGED <<manifests, known>>
        /\ imported' = (imported \/ work[w].ok)
    BY <1>8 DEF Imported
  <2>3. imported \in BOOLEAN /\ work[w].ok \in BOOLEAN
    BY <1>1 DEF ToolsTypes, Work
  <2>4. imported' \in BOOLEAN /\ (imported' => imported \/ work[w].ok)
    BY <2>2, <2>3, Zenon
  <2>5. ToolsTypes'
    BY <1>1, <1>4, <2>2, <2>4 DEF ToolsTypes
  <2>6. ~Filled(work[w])
    BY <2>2 DEF Filled
  <2>7. imported' => imported \/ legacy = "absent" \/ login'.creds # "none"
    BY <1>1, <1>2, <2>2, <2>4 DEF Fits, HasLogin, ToolsTypes
  <2> QED BY <1>2, <1>3, <1>5, <2>1, <2>2, <2>5, <2>6, <2>7, WorkerKeeps
<1>9. CASE VersionRead(w)
  <2>1. PICK r \in Work : work' = [work EXCEPT ![w] = r] /\ r.step # "remove" /\ Named(r)
    <3>1. CASE Leave(w)
      BY <1>1, <3>1, GoesOn
    <3>2. CASE work' = [work EXCEPT ![w].step = "collect", ![w].ok = TRUE]
      <4>1. PICK r : r = [work[w] EXCEPT !.step = "collect", !.ok = TRUE]
        OBVIOUS
      <4>2. r \in Work /\ r.step = "collect"
        BY <1>1, <4>1 DEF Work
      <4>3. work' = [work EXCEPT ![w] = r]
        BY <1>1, <3>2, <4>1
      <4> QED BY <4>2, <4>3 DEF Named
    <3> QED BY <1>9, <3>1, <3>2 DEF VersionRead
  <2>2. work[w].shot = "version" /\ UNCHANGED <<manifests, imported>>
        /\ known' = known \cup {work[w].image}
    BY <1>9 DEF VersionRead
  <2>3. work[w].image \in ToolsImage
    BY <1>1, <1>2, <2>2 DEF Fits, Named
  <2>4. ToolsTypes'
    BY <1>1, <1>4, <2>2, <2>3 DEF ToolsTypes
  <2>5. ~Filled(work[w])
    BY <2>2 DEF Filled
  <2> QED BY <1>2, <1>3, <1>5, <2>1, <2>2, <2>4, <2>5, WorkerKeeps
<1>10. CASE Checked(w)
  <2>1. PICK r \in Work : work' = [work EXCEPT ![w] = r] /\ r.step # "remove" /\ Named(r)
    BY <1>1, <1>10, GoesOn DEF Checked
  <2>2. work[w].shot = "check" /\ UNCHANGED <<manifests, imported, known>>
    BY <1>10 DEF Checked
  <2>3. ToolsTypes'
    BY <1>1, <1>4, <2>2 DEF ToolsTypes
  <2>4. ~Filled(work[w])
    BY <2>2 DEF Filled
  <2> QED BY <1>2, <1>3, <1>5, <2>1, <2>2, <2>3, <2>4, WorkerKeeps
<1> QED BY <1>6, <1>7, <1>8, <1>9, <1>10 DEF AfterShot

\* A step of the world around keeps what the workers were told, when it leaves
\* them alone.
LEMMA WorldKeeps ==
  ASSUME ToolsInv, Expire \/ LogIn \/ RemoveVolume
  PROVE  ToolsInv' /\ (login'.creds = login.creds \/ login'.creds = "own")
<1>1. ToolsTypes /\ work \in [Workers -> Work] /\ \A w \in Workers : work[w] \in Work /\ Fits(w, work[w])
  BY ToolsIs DEF ToolsInv
<1>2. UNCHANGED <<tag, images, legacy, custom, shots, litter, context, imported, known, work, starts>>
  BY DEF Expire, LogIn, RemoveVolume, engineVars, serviceVars, toolsBounds
<1>3. Untold' <=> Untold
  BY <1>2 DEF Untold
<1>4. CASE Expire
  <2>1. UNCHANGED <<volume, login, excused, mishaps>>
        /\ manifests' = [manifests EXCEPT !.fresh = FALSE]
    BY <1>4 DEF Expire, engineVars, toolsBounds
  <2>2. manifests' \in Entry /\ manifests'.looked = manifests.looked /\ manifests'.there = manifests.there
        /\ manifests'.edition = manifests.edition /\ manifests'.boot = manifests.boot
    BY <1>1, <2>1 DEF ToolsTypes, Entry
  <2>3. ToolsTypeOK'
    BY <1>1, <1>2, <2>1, <2>2 DEF ToolsTypes, ToolsTypeOK
  <2>4. CacheFits'
    BY <1>3, <2>1, <2>2 DEF ToolsInv, CacheFits
  <2>5. LoginFits' /\ \A w \in Workers : Fits(w, work[w])'
    BY <1>1, <1>2, <2>1 DEF ToolsInv, LoginFits, Fits, HasLogin, Named
  <2> QED BY <2>1, <2>3, <2>4, <2>5 DEF ToolsInv
<1>5. CASE LogIn
  <2>1. UNCHANGED <<volume, manifests, excused, mishaps>>
        /\ login' = [login EXCEPT !.there = TRUE, !.creds = "own"]
    BY <1>5 DEF LogIn, serviceVars, toolsBounds
  <2>2. login' \in [there : BOOLEAN, creds : {"none", "v0.1", "own"}, marker : BOOLEAN]
        /\ login'.creds = "own"
    BY <1>1, <2>1 DEF ToolsTypes
  <2>3. ToolsTypeOK'
    BY <1>1, <1>2, <2>1, <2>2 DEF ToolsTypes, ToolsTypeOK
  <2>4. CacheFits'
    BY <1>3, <2>1 DEF ToolsInv, CacheFits
  <2>5. LoginFits' /\ \A w \in Workers : Fits(w, work[w])'
    BY <1>1, <1>2, <2>1, <2>2 DEF ToolsInv, LoginFits, Fits, HasLogin, Named
  <2> QED BY <2>2, <2>3, <2>4, <2>5 DEF ToolsInv
<1>6. CASE RemoveVolume
  <2>1. UNCHANGED <<login, manifests>> /\ excused' = TRUE /\ Mishap
        /\ volume' = [volume EXCEPT !.there = FALSE, !.boot = FALSE]
    BY <1>6 DEF RemoveVolume, serviceVars
  <2>2. volume' \in Content
    BY <1>1, <2>1 DEF ToolsTypes, Content
  <2>3. ToolsTypeOK'
    BY <1>1, <1>2, <2>1, <2>2, Counts DEF ToolsTypes, ToolsTypeOK
  <2>4. CacheFits'
    BY <2>1 DEF CacheFits
  <2>5. LoginFits' /\ \A w \in Workers : Fits(w, work[w])'
    BY <1>1, <1>2, <2>1 DEF ToolsInv, LoginFits, Fits, HasLogin, Named
  <2> QED BY <2>1, <2>3, <2>4, <2>5 DEF ToolsInv
<1> QED BY <1>4, <1>5, <1>6

\* A server that has just started knows of nothing, and nothing runs for it.
LEMMA RestartKeeps ==
  ASSUME ToolsInv, Restart
  PROVE  ToolsInv' /\ login' = login
<1>1. ToolsTypes
  BY ToolsIs
<1>2. UNCHANGED <<tag, images, volume, login, legacy, custom, starts>> /\ Mishap
      /\ context' \in Contexts /\ work' = [w \in Workers |-> Idle]
      /\ manifests' = NoEntry /\ imported' = FALSE /\ known' = {} /\ shots' = {}
  BY DEF Restart
<1>3. litter' \in BOOLEAN /\ excused' \in BOOLEAN
  BY <1>1 DEF Restart, ToolsTypes
<1>4. ToolsTypeOK'
  BY <1>1, <1>2, <1>3, IdleIs, Counts DEF ToolsTypes, ToolsTypeOK
<1>5. CacheFits' /\ LoginFits'
  BY <1>2 DEF CacheFits, LoginFits, NoEntry
<1>6. \A w \in Workers : Fits(w, work[w])'
  BY <1>2, IdleIs DEF Fits, Named
<1> QED BY <1>2, <1>4, <1>5, <1>6 DEF ToolsInv

\* Nothing has happened yet.
LEMMA ToolsStart ==
  ASSUME ToolsInit
  PROVE  ToolsInv
<1>1. context \in Contexts
  BY ToolsAssumption DEF ToolsInit
<1>2. /\ tag = NoImage /\ images = {} /\ volume = NoVolume /\ custom = FALSE /\ shots = {}
      /\ work = [w \in Workers |-> Idle] /\ manifests = NoEntry /\ imported = FALSE /\ known = {}
      /\ litter = FALSE /\ excused = FALSE /\ starts = 0 /\ mishaps = 0
      /\ legacy \in {"absent", "login"}
      /\ login \in {[there |-> FALSE, creds |-> "none", marker |-> FALSE],
                    [there |-> TRUE,  creds |-> "none", marker |-> TRUE]}
  BY DEF ToolsInit
<1>3. NoVolume \in Content /\ 0 \in 0 .. MaxStarts /\ 0 \in 0 .. MaxMishaps
  BY ToolsAssumption DEF NoVolume, Content
<1>4. ToolsTypeOK
  <2>1. login \in [there : BOOLEAN, creds : {"none", "v0.1", "own"}, marker : BOOLEAN]
    <3>1. CASE login = [there |-> FALSE, creds |-> "none", marker |-> FALSE]
      BY <3>1
    <3>2. CASE login = [there |-> TRUE, creds |-> "none", marker |-> TRUE]
      BY <3>2
    <3> QED BY <1>2, <3>1, <3>2
  <2>2. work \in [Workers -> Work]
    BY <1>2, IdleIs
  <2>3. images \subseteq ToolsImage /\ known \subseteq ToolsImage /\ shots \subseteq Workers
        /\ manifests \in Entry /\ tag \in ToolsImage \cup {NoImage} /\ volume \in Content
    BY <1>2, <1>3, IdleIs
  <2>4. legacy \in {"absent", "login"} /\ custom \in BOOLEAN /\ imported \in BOOLEAN
        /\ litter \in BOOLEAN /\ excused \in BOOLEAN
        /\ starts \in 0 .. MaxStarts /\ mishaps \in 0 .. MaxMishaps
    BY <1>2, <1>3
  <2> QED BY <1>1, <2>1, <2>2, <2>3, <2>4 DEF ToolsTypeOK
<1>5. CacheFits /\ LoginFits
  BY <1>2 DEF CacheFits, LoginFits, NoEntry
<1>6. \A w \in Workers : Fits(w, work[w])
  BY <1>2, IdleIs DEF Fits, Named
<1> QED BY <1>4, <1>5, <1>6 DEF ToolsInv

\* no step takes a login away, or puts the old one in the place of a new one
LoginStays == login.creds' = login.creds \/ login.creds = "none" \/ login'.creds = "own"

\* Every step keeps the invariant and the login.
LEMMA ToolsStep ==
  ASSUME ToolsInv, [ToolsNext]_toolsVars
  PROVE  ToolsInv' /\ LoginStays
<1>1. ASSUME NEW w \in Workers, Step(w) PROVE ToolsInv' /\ LoginStays
  <2>1. CASE CreateAuth(w)
    BY <2>1, AuthKeeps DEF LoginStays
  <2>2. CASE RunShot(w)
    BY <2>2, RunKeeps DEF LoginStays
  <2>3. CASE \/ Inspect(w) \/ Build(w) \/ RecordVersion(w) \/ RemoveReplaced(w) \/ EnsureVolume(w)
             \/ ListLegacy(w) \/ Volumes(w) \/ ProbeImage(w) \/ PullCustom(w) \/ CreateShot(w)
    <3>1. ToolsInv'
      BY <2>3, InspectKeeps, BuildKeeps, RecordKeeps, ReplacedKeeps, VolumeKeeps, ListKeeps,
         VolumesKeeps, ProbeKeeps, PullKeeps, CreateKeeps
    <3>2. login' = login
      BY <2>3 DEF Inspect, Build, RecordVersion, RemoveReplaced, EnsureVolume, ListLegacy,
                  Volumes, ProbeImage, PullCustom, CreateShot, engineVars
    <3> QED BY <3>1, <3>2 DEF LoginStays
  <2>4. CASE AfterShot(w)
    BY <2>4, AfterKeeps DEF AfterShot, LoginStays
  <2> QED BY <1>1, <2>1, <2>2, <2>3, <2>4 DEF Step, SyncStep
<1>2. ASSUME NEW w \in Workers,
             \/ \E force \in BOOLEAN : SyncTools(w, force)
             \/ \E brought \in BOOLEAN : Ensure_(w, brought)
             \/ Status(w) \/ PollVersion(w) \/ Check(w)
      PROVE  ToolsInv' /\ LoginStays
  <2>1. ToolsInv'
    BY <1>2, StartKeeps
  <2>2. login' = login
    BY <1>2 DEF SyncTools, Ensure_, Status, PollVersion, Check, Begin, engineVars
  <2> QED BY <2>1, <2>2 DEF LoginStays
<1>3. ASSUME NEW w \in Workers, CancelSync(w) PROVE ToolsInv' /\ LoginStays
  BY <1>3, CancelKeeps DEF CancelSync, engineVars, LoginStays
<1>4. CASE Expire \/ LogIn \/ RemoveVolume
  BY <1>4, WorldKeeps DEF LoginStays
<1>5. CASE Restart
  BY <1>5, RestartKeeps DEF LoginStays
<1>6. CASE ToolsRest \/ UNCHANGED toolsVars
  <2>1. UNCHANGED toolsVars
    BY <1>6 DEF ToolsRest
  <2>2. ToolsInv'
    BY <2>1 DEF toolsVars, engineVars, serviceVars, toolsBounds, ToolsInv, ToolsTypeOK, Fits, Named,
                HasLogin, CacheFits, Untold, LoginFits
  <2> QED BY <2>1, <2>2 DEF toolsVars, engineVars, LoginStays
<1> QED BY <1>1, <1>2, <1>3, <1>4, <1>5, <1>6 DEF ToolsNext

\* The inductive invariant of the tools volume.
LEMMA ToolsInvariance == ToolsSpec => []ToolsInv
<1>1. ToolsInit => ToolsInv
  BY ToolsStart
<1>2. ToolsInv /\ [ToolsNext]_toolsVars => ToolsInv'
  BY ToolsStep
<1> QED BY <1>1, <1>2, PTL DEF ToolsSpec

\* Every one-shot container of syncTools, readToolsVolume, importLegacyClaudeLogin,
\* recordClaudeVersion and validateCustomImage is removed before its function goes
\* on, unless a removal itself failed or the server died.
THEOREM NothingIsLeft == ToolsSpec => []NothingLeftBehind
<1>1. ToolsInv => NothingLeftBehind
  BY DEF ToolsInv, ToolsTypeOK, Fits, NothingLeftBehind
<1> QED BY <1>1, ToolsInvariance, PTL

\* What the manifests cache is what the volume holds, but in the cases that
\* CacheIsHonest names.
THEOREM CacheTellsTruth == ToolsSpec => []CacheIsHonest
<1>1. ToolsInv => CacheIsHonest
  BY DEF ToolsInv, CacheFits, Untold, CacheIsHonest, AtStep
<1> QED BY <1>1, ToolsInvariance, PTL

\* legacyImported is set when the login of v0.1 is across or was not needed, and
\* no step takes a login away or puts the old one in the place of a new one.
THEOREM LoginIsKept == ToolsSpec => LoginComesAcross
<1>1. ToolsInv => (imported /\ HasLogin => login.creds # "none")
  BY DEF ToolsInv, LoginFits
<1>2. ToolsInv /\ [ToolsNext]_toolsVars =>
        [login.creds' = login.creds \/ login.creds = "none" \/ login'.creds = "own"]_toolsVars
  BY ToolsStep DEF LoginStays
<1> QED BY <1>1, <1>2, ToolsInvariance, PTL DEF ToolsSpec, LoginComesAcross

-----------------------------------------------------------------------------
(* What comes after a start.                                               *)

\* at work on the plugins of a volume
Syncs(r) == ~r.gone /\ r.step \in {"plugins", "mark"}
On(r, s) == box[r.box].mount = s

\* what a slot holds
Started(r) ==
  /\ r.step = "idle" => r = NoStart
  /\ r.step # "idle" => r.box \in Boxes
  /\ r.removed => Syncs(r)

\* what a sync is going to list is there
Present(r) == Syncs(r) => \A s \in Sets : On(r, s) => r.present \subseteq files[s] \/ unsure[s]

\* two syncs of one volume
Pairs ==
  \A v, w \in Starters, s \in Sets :
    v # w /\ Syncs(starting[v]) /\ Syncs(starting[w]) /\ On(starting[v], s) /\ On(starting[w], s)
      => unsure[s]

Listed ==
  \A s \in Sets : \/ marker[s] \subseteq files[s] \/ unsure[s]
                  \/ \E w \in Starters : starting[w].removed /\ On(starting[w], s)

Marks == (\A w \in Starters : Started(starting[w]) /\ Present(starting[w])) /\ Pairs /\ Listed

\* how far the one start of an undisturbed container has brought it
Progress(c, r) ==
  /\ ~r.gone /\ r.profile = stored[c]
  /\ r.step = "label" => r.profile = Unset
  /\ r.step \in {"label", "apply"} => r.blob = Settings(stored[c])
  /\ r.step \in {"marker", "plugins", "mark"} => box[c].file = Settings(stored[c])
  /\ r.step \notin {"home", "dirs"} => owner[box[c].mount] = UserOf(c)

\* nobody is about to give its volume to another user
Near(c, r) ==
  r.step \in {"home", "dirs"} /\ ~r.gone /\ box[r.box].mount = box[c].mount =>
    UserOf(r.box) = UserOf(c) /\ (r.step = "dirs" => box[r.box].home = UserOf(r.box))

Done(c) ==
  /\ box[c].file = Settings(stored[c]) \/ (stored[c] = Unset /\ box[c].label = Unset)
  /\ owner[box[c].mount] = UserOf(c)

Quiet(c) ==
  calm[c] =>
    /\ \A v \in Starters : (Box(v) = c => Progress(c, starting[v])) /\ Near(c, starting[v])
    /\ \A v, u \in Starters : Box(v) = c /\ Box(u) = c => v = u
    /\ Busy(c) = {} => Done(c)

Undisturbed == \A c \in Boxes : Quiet(c) /\ (c \notin Custom => box[c].home = "dev")

AfterInv == AfterTypeOK /\ Marks /\ Undisturbed

\* A step of one slot keeps the markers right when what it leaves is: what it is
\* going to list is there, it is alone on its volume or that is known, and it takes
\* nothing from a volume but in a sync.
LEMMA SlotKeepsMarks ==
  ASSUME AfterTypeOK, AfterTypeOK', Marks, NEW w \in Starters, NEW r \in StartType,
         starting' = [starting EXCEPT ![w] = r], Started(r),
         \A c \in Boxes : box'[c].mount = box[c].mount,
         \A s \in Sets : unsure[s] => unsure'[s],
         Present(r)', Syncs(r) => r.box = Box(w),
         \A s \in Sets : \/ unsure'[s] \/ files[s] \subseteq files'[s]
                         \/ Syncs(starting[w]) /\ On(starting[w], s),
         Syncs(r) => \/ Syncs(starting[w])
                     \/ \A s \in Sets, v \in Starters \ {w} :
                          Syncs(starting[v]) /\ On(starting[v], s) /\ On(r, s) => unsure'[s],
         \A s \in Sets : \/ marker'[s] \subseteq files'[s] \/ unsure'[s]
                         \/ r.removed /\ On(r, s)
                         \/ /\ marker'[s] = marker[s] /\ files[s] \subseteq files'[s]
                            /\ ~(starting[w].removed /\ On(starting[w], s))
  PROVE  Marks'
<1>1. /\ starting \in [Starters -> StartType] /\ starting' \in [Starters -> StartType]
      /\ starting'[w] = r /\ \A v \in Starters \ {w} : starting'[v] = starting[v]
  BY DEF AfterTypeOK
<1>2. \A v \in Starters : Started(starting[v]) /\ Present(starting[v])
  BY DEF Marks
<1>3. \A q \in StartType, s \in Sets : Started(q) /\ Syncs(q) => (On(q, s)' <=> On(q, s))
  BY DEF On, Started, Syncs
<1>4. \A v \in Starters : Started(starting[v])'
  BY <1>1, <1>2 DEF Started, Syncs
<1>5. ASSUME NEW v \in Starters PROVE Present(starting[v])'
  <2>1. CASE v = w
    BY <1>1, <2>1 DEF Present, On, Syncs
  <2>2. CASE v # w
    <3> SUFFICES ASSUME Syncs(starting[v]), NEW s \in Sets, On(starting[v], s), ~unsure'[s]
                 PROVE  starting[v].present \subseteq files'[s]
      BY <1>1, <1>2, <1>3, <2>2 DEF Present, Syncs, On
    <3>1. starting[v].present \subseteq files[s]
      BY <1>2 DEF Present
    <3>2. ~(Syncs(starting[w]) /\ On(starting[w], s))
      BY <2>2 DEF Marks, Pairs
    <3> QED BY <3>1, <3>2
  <2> QED BY <2>1, <2>2
<1>6. Pairs'
  <2> SUFFICES ASSUME NEW v \in Starters, NEW u \in Starters, NEW s \in Sets, v # u,
                      Syncs(starting'[v]), Syncs(starting'[u]),
                      On(starting[v], s)', On(starting[u], s)'
               PROVE  unsure'[s]
    BY DEF Pairs, Syncs, On
  <2>1. On(starting'[v], s) /\ On(starting'[u], s)
    BY <1>1, <1>3, <1>4 DEF On, Started, Syncs
  <2>2. ASSUME NEW a \in Starters, a # w, Syncs(starting[a]), On(starting[a], s), Syncs(r), On(r, s)
        PROVE  unsure'[s]
    <3>1. CASE Syncs(starting[w])
      <4>1. On(starting[w], s)
        BY <2>2 DEF On, Box
      <4> QED BY <2>2, <3>1, <4>1 DEF Marks, Pairs
    <3>2. CASE ~Syncs(starting[w])
      BY <2>2, <3>2
    <3> QED BY <3>1, <3>2
  <2>3. CASE v = w
    BY <1>1, <2>1, <2>2, <2>3
  <2>4. CASE u = w
    BY <1>1, <2>1, <2>2, <2>4
  <2>5. CASE v # w /\ u # w
    BY <1>1, <2>1, <2>5 DEF Marks, Pairs
  <2> QED BY <2>3, <2>4, <2>5
<1>7. Listed'
  <2> SUFFICES ASSUME NEW s \in Sets, ~(marker'[s] \subseteq files'[s]), ~unsure'[s]
               PROVE  \E v \in Starters : starting'[v].removed /\ On(starting[v], s)'
    BY DEF Listed
  <2>1. CASE r.removed /\ On(r, s)
    BY <1>1, <1>3, <1>4, <2>1 DEF Started, On, Syncs
  <2>2. CASE ~(r.removed /\ On(r, s))
    <3>1. marker[s] = marker'[s] /\ files[s] \subseteq files'[s]
          /\ ~(starting[w].removed /\ On(starting[w], s)) /\ ~unsure[s]
      BY <2>2
    <3>2. PICK v \in Starters : starting[v].removed /\ On(starting[v], s)
      BY <3>1 DEF Marks, Listed
    <3>3. v # w /\ starting'[v] = starting[v]
      BY <1>1, <3>1, <3>2
    <3> QED BY <1>1, <1>2, <1>3, <3>2, <3>3 DEF Started, On, Syncs
  <2> QED BY <2>1, <2>2
<1> QED BY <1>4, <1>5, <1>6, <1>7 DEF Marks

\* A step of one slot keeps what is undisturbed when its own container has come
\* further, and it gives no volume to another user.
LEMMA SlotKeepsCalm ==
  ASSUME AfterTypeOK, AfterTypeOK', Marks, Undisturbed, UNCHANGED <<profiles, stored>>,
         NEW w \in Starters, NEW r \in StartType, starting' = [starting EXCEPT ![w] = r],
         Box(w) \in Boxes, r.box \in {Unset, Box(w)}, r.box = Unset => r.step = "idle",
         \A c \in Boxes :
           /\ box'[c].mount = box[c].mount /\ box'[c].label = box[c].label
           /\ box'[c].home = box[c].home \/ (c \in Custom /\ box'[c].home = UserOf(c))
           /\ c # Box(w) => box'[c].file = box[c].file
           /\ calm'[c] => calm[c],
         \A c \in Boxes : calm'[c] =>
           /\ owner'[box[c].mount] \in {owner[box[c].mount], UserOf(c)}
           /\ Near(c, r)'
           /\ r.box = c => Progress(c, r)'
           /\ r.box = Unset /\ c = Box(w) => Done(c)'
  PROVE  Undisturbed'
<1>1. /\ starting \in [Starters -> StartType] /\ starting' \in [Starters -> StartType]
      /\ starting'[w] = r /\ \A v \in Starters \ {w} : starting'[v] = starting[v]
  BY DEF AfterTypeOK
<1>2. \A c \in Boxes : Settings(stored[c])' = Settings(stored[c])
  BY DEF Settings
<1>3. ASSUME NEW c \in Boxes PROVE (c \notin Custom => box[c].home = "dev")'
  BY DEF Undisturbed
<1>4. ASSUME NEW c \in Boxes, calm'[c], NEW v \in Starters, v # w
      PROVE  Near(c, starting[v])' /\ (Box(v) = c => c # Box(w) /\ Progress(c, starting[v])')
  <2>1. Near(c, starting[v]) /\ (Box(v) = c => Progress(c, starting[v]) /\ Box(w) # c)
    BY <1>4 DEF Undisturbed, Quiet
  <2>2. starting'[v] = starting[v]
    BY <1>1, <1>4
  <2>3. Near(c, starting[v])'
    <3> SUFFICES ASSUME starting[v].step \in {"home", "dirs"}, ~starting[v].gone,
                        box'[starting[v].box].mount = box'[c].mount
                 PROVE  /\ UserOf(starting[v].box) = UserOf(c)
                        /\ starting[v].step = "dirs" =>
                             box'[starting[v].box].home = UserOf(starting[v].box)
      BY <2>2 DEF Near, UserOf
    <3>1. starting[v].box \in Boxes
      BY DEF Marks, Started
    <3> QED BY <2>1, <3>1 DEF Near
  <2>4. ASSUME Box(v) = c PROVE Progress(c, starting[v])'
    BY <1>2, <1>4, <2>1, <2>2, <2>4 DEF Progress, UserOf
  <2> QED BY <2>1, <2>3, <2>4
<1>5. ASSUME NEW c \in Boxes PROVE Quiet(c)'
  <2> SUFFICES ASSUME calm'[c]
               PROVE  /\ \A v \in Starters : (Box(v)' = c => Progress(c, starting[v])')
                                             /\ Near(c, starting[v])'
                      /\ \A v, u \in Starters : Box(v)' = c /\ Box(u)' = c => v = u
                      /\ Busy(c)' = {} => Done(c)'
    BY DEF Quiet
  <2>0. Quiet(c) /\ calm[c] /\ c # Unset
    BY AfterAssumption DEF Undisturbed
  <2>1. ASSUME NEW v \in Starters
        PROVE  (Box(v)' = c => Progress(c, starting[v])') /\ Near(c, starting[v])'
    <3>1. CASE v = w
      BY <1>1, <2>0, <3>1 DEF Box, Near, Progress
    <3>2. CASE v # w
      BY <1>1, <1>4, <3>2 DEF Box
    <3> QED BY <3>1, <3>2
  <2>2. ASSUME NEW v \in Starters, NEW u \in Starters, Box(v)' = c, Box(u)' = c PROVE v = u
    <3>1. \A a \in Starters : Box(a)' = c => Box(a) = c
      BY <1>1, <2>0 DEF Box
    <3> QED BY <2>0, <2>2, <3>1 DEF Quiet
  <2>3. ASSUME Busy(c)' = {} PROVE Done(c)'
    <3>1. CASE c = Box(w)
      <4>1. r.box # c
        BY <1>1, <2>3 DEF Busy, Box
      <4> QED BY <3>1, <4>1
    <3>2. CASE c # Box(w)
      <4>1. Busy(c) = {}
        BY <1>1, <2>3, <3>2 DEF Busy, Box
      <4> QED BY <1>2, <2>0, <3>2, <4>1 DEF Quiet, Done, UserOf
    <3> QED BY <3>1, <3>2
  <2> QED BY <2>1, <2>2, <2>3
<1> QED BY <1>3, <1>5 DEF Undisturbed

\* A slot that is free.
LEMMA NoStartIs ==
  /\ NoFile \in FileType /\ NoStart \in StartType
  /\ NoStart.step = "idle" /\ NoStart.box = Unset /\ ~NoStart.gone /\ ~NoStart.removed
  /\ Started(NoStart) /\ ~Syncs(NoStart)
<1>1. NoFile \in FileType
  BY DEF NoFile, FileType
<1> QED BY <1>1 DEF NoStart, StartType, Started, Syncs

\* A slot that is not.
LEMMA SlotIs ==
  ASSUME AfterInv, NEW w \in Starters, starting[w].step # "idle"
  PROVE  /\ starting[w] \in StartType /\ Started(starting[w])
         /\ Box(w) \in Boxes /\ Box(w) # Unset /\ box[Box(w)] \in BoxType /\ Volume(w) \in Sets
<1>1. starting[w] \in StartType /\ Started(starting[w])
  BY DEF AfterInv, AfterTypeOK, Marks
<1>2. Box(w) \in Boxes
  BY <1>1 DEF Started, Box
<1>3. box[Box(w)] \in BoxType
  BY <1>2 DEF AfterInv, AfterTypeOK
<1>4. Volume(w) \in Sets
  BY <1>3 DEF BoxType, Volume
<1> QED BY <1>1, <1>2, <1>3, <1>4, AfterAssumption

\* What an exec leaves of the bound.
LEMMA ExecCounts ==
  ASSUME AfterTypeOK, NEW w \in Starters, Well \/ Troubled \/ Works(w) \/ Breaks(w)
  PROVE  troubles' \in 0 .. MaxTroubles
BY AfterAssumption DEF AfterTypeOK, Well, Troubled, Works, Breaks

\* The settings of a profile, and the volume it resolves to.
LEMMA SettingsAre ==
  ASSUME AfterTypeOK, NEW id \in Profiles \cup {Unset}
  PROVE  Settings(id) \in FileType /\ SetOf(id) \in Sets
<1>1. CASE id = Unset
  BY <1>1, NoStartIs DEF Settings, SetOf, Sets
<1>2. CASE id \in Profiles /\ id # Unset
  <2>1. profiles[id] \in ProfileType
    BY <1>2 DEF AfterTypeOK
  <2> QED BY <1>2, <2>1, NoStartIs DEF Settings, SetOf, Sets, ProfileType, FileType
<1> QED BY <1>1, <1>2

\* Whoever is disturbed, nobody is calmed.
LEMMA Disturbs ==
  ASSUME AfterTypeOK, NEW B, Disturb(B)
  PROVE  /\ calm' \in [Boxes -> BOOLEAN]
         /\ \A c \in Boxes : calm'[c] => calm[c] /\ c \notin B
<1>1. \A c \in Boxes : calm[c] \in BOOLEAN
  BY DEF AfterTypeOK
<1>2. calm' = [c \in Boxes |-> calm[c] /\ c \notin B]
  BY DEF Disturb
<1> QED BY <1>1, <1>2

\* A step of a slot that has nothing to do with plugins.
LEMMA EarlyKeeps ==
  ASSUME AfterInv, AfterTypeOK', NEW w \in Starters, NEW r \in StartType,
         starting' = [starting EXCEPT ![w] = r],
         ~Syncs(starting[w]), ~Syncs(r), Started(r),
         UNCHANGED <<files, marker, unsure>>,
         \A c \in Boxes : box'[c].mount = box[c].mount
  PROVE  Marks'
<1>1. ~starting[w].removed /\ Present(r)'
  BY DEF AfterInv, Marks, Started, Present, Syncs
<1>2. \A s \in Sets : marker'[s] = marker[s] /\ files[s] \subseteq files'[s]
  OBVIOUS
<1> QED BY <1>1, <1>2, SlotKeepsMarks DEF AfterInv

\* The home and the volume of a custom image get an owner.
LEMMA HomeKeeps ==
  ASSUME AfterInv, NEW w \in Starters, HomeWritable(w)
  PROVE  AfterInv'
<1>1. PICK c : c = Box(w)
  OBVIOUS
<1>2. PICK s : s = Volume(w)
  OBVIOUS
<1>3. AfterTypeOK /\ starting[w].step = "home"
  BY DEF AfterInv, HomeWritable, At
<1>4. /\ starting[w] \in StartType /\ Started(starting[w])
      /\ c \in Boxes /\ c # Unset /\ box[c] \in BoxType /\ s \in Sets /\ box[c].mount = s
  BY <1>1, <1>2, <1>3, SlotIs DEF Volume
<1>5. UNCHANGED <<profiles, stored, files, marker, filled, unsure, edits, runs>>
      /\ (Well \/ Works(w) \/ Breaks(w))
  BY DEF HomeWritable, profileVars
<1>6. PICK r : r = [starting[w] EXCEPT !.step = "dirs"]
  OBVIOUS
<1>7. /\ r \in StartType /\ r.step = "dirs" /\ r.box = c /\ r.gone = starting[w].gone
      /\ r.profile = starting[w].profile /\ r.removed = starting[w].removed
  BY <1>1, <1>4, <1>6 DEF StartType, Box
<1>8. starting' = [starting EXCEPT ![w] = r]
  BY <1>3, <1>6 DEF HomeWritable, GoOn, AfterTypeOK
<1>9. Started(r) /\ ~Syncs(r) /\ ~Syncs(starting[w])
  BY <1>3, <1>4, <1>7 DEF Started, Syncs
<1>10. starting' \in [Starters -> StartType] /\ troubles' \in 0 .. MaxTroubles
  BY <1>3, <1>5, <1>7, <1>8, ExecCounts DEF AfterTypeOK
<1>11. UserOf(c) \in Owners /\ (c \notin Custom => box[c].home = UserOf(c))
  BY <1>4 DEF UserOf, Owners, AfterInv, Undisturbed
<1>12. /\ box' \in [Boxes -> BoxType]
       /\ \A d \in Boxes : /\ box'[d].mount = box[d].mount /\ box'[d].label = box[d].label
                           /\ box'[d].file = box[d].file
                           /\ box'[d].home = box[d].home \/ (d \in Custom /\ box'[d].home = UserOf(d))
  <2>1. CASE box' = box
    BY <1>3, <2>1 DEF AfterTypeOK
  <2>2. CASE c \in Custom /\ box' = [box EXCEPT ![c].home = UserOf(c)]
    <3>1. PICK b : b = [box[c] EXCEPT !.home = UserOf(c)]
      OBVIOUS
    <3>2. /\ b \in BoxType /\ b.mount = box[c].mount /\ b.label = box[c].label
          /\ b.file = box[c].file /\ b.home = UserOf(c)
      BY <1>4, <1>11, <3>1 DEF BoxType
    <3>3. box' = [box EXCEPT ![c] = b]
      BY <1>3, <1>4, <2>2, <3>1 DEF AfterTypeOK
    <3> QED BY <1>3, <1>4, <2>2, <3>2, <3>3 DEF AfterTypeOK
  <2> QED BY <1>1, <2>1, <2>2 DEF HomeWritable
<1>13. /\ owner' \in [Sets -> Owners]
       /\ \A t \in Sets : owner'[t] = owner[t] \/ (t = s /\ owner'[t] = UserOf(c) /\ ~starting[w].gone)
  <2>1. owner \in [Sets -> Owners]
    BY <1>3 DEF AfterTypeOK
  <2>2. CASE owner' = owner
    BY <2>1, <2>2
  <2>3. CASE /\ ~starting[w].gone
             /\ owner' = [owner EXCEPT ![s] = IF @ = "root" \/ ~filled[s] THEN UserOf(c) ELSE @]
    BY <1>4, <1>11, <2>1, <2>3
  <2> QED BY <1>1, <1>2, <2>2, <2>3 DEF HomeWritable, Works
<1>14. /\ calm' \in [Boxes -> BOOLEAN]
       /\ \A d \in Boxes : calm'[d] =>
            calm[d] /\ (\/ starting[w].gone \/ box[d].mount # s \/ box'[c].home = UserOf(c))
  <2>1. CASE UNCHANGED <<calm, box>> /\ c \notin Custom
    BY <1>3, <1>11, <2>1 DEF AfterTypeOK
  <2>2. CASE calm' = calm /\ box' = [box EXCEPT ![c].home = UserOf(c)]
    BY <1>3, <1>4, <2>2 DEF AfterTypeOK, BoxType
  <2>3. CASE Disturb({d \in Boxes : ~starting[w].gone /\ box[d].mount = s})
    BY <1>3, <2>3, Disturbs
  <2> QED BY <1>1, <1>2, <2>1, <2>2, <2>3 DEF HomeWritable
<1>15. AfterTypeOK'
  BY <1>3, <1>5, <1>10, <1>12, <1>13, <1>14 DEF AfterTypeOK
<1>16. Marks'
  BY <1>5, <1>7, <1>8, <1>9, <1>12, <1>15, EarlyKeeps
<1>17. ASSUME NEW d \in Boxes, calm'[d]
       PROVE  /\ owner'[box[d].mount] \in {owner[box[d].mount], UserOf(d)}
              /\ Near(d, r)' /\ (r.box = d => Progress(d, r)')
  <2>1. Quiet(d) /\ calm[d] /\ Near(d, starting[w]) /\ (d = c => Progress(d, starting[w]))
    BY <1>1, <1>14, <1>17 DEF AfterInv, Undisturbed, Quiet
  <2>2. ~starting[w].gone /\ box[d].mount = s => UserOf(c) = UserOf(d) /\ box'[c].home = UserOf(c)
    BY <1>1, <1>3, <1>4, <1>14, <1>17, <2>1 DEF Near, Box
  <2>3. box[d].mount \in Sets
    BY <1>3 DEF AfterTypeOK, BoxType
  <2>4. Near(d, r)'
    BY <1>4, <1>7, <1>12, <2>2 DEF Near, UserOf
  <2>5. r.box = d => Progress(d, r)'
    BY <1>5, <1>7, <2>1 DEF Progress
  <2> QED BY <1>13, <2>2, <2>3, <2>4, <2>5
<1>18. Undisturbed'
  BY <1>1, <1>3, <1>4, <1>5, <1>7, <1>8, <1>12, <1>14, <1>15, <1>17, SlotKeepsCalm DEF AfterInv
<1> QED BY <1>15, <1>16, <1>18 DEF AfterInv

\* The directories of the agents get an owner, and the settings are composed.
LEMMA DirsKeep ==
  ASSUME AfterInv, NEW w \in Starters, AgentDirs(w)
  PROVE  AfterInv'
<1>1. PICK c : c = Box(w)
  OBVIOUS
<1>2. PICK s : s = Volume(w)
  OBVIOUS
<1>3. AfterTypeOK /\ starting[w].step = "dirs"
  BY DEF AfterInv, AgentDirs, At
<1>4. /\ starting[w] \in StartType /\ Started(starting[w])
      /\ c \in Boxes /\ c # Unset /\ box[c] \in BoxType /\ s \in Sets /\ box[c].mount = s
  BY <1>1, <1>2, <1>3, SlotIs DEF Volume
<1>5. UNCHANGED <<profiles, stored, box, files, marker, filled, unsure, edits, runs>>
      /\ (Works(w) \/ Breaks(w))
  BY DEF AgentDirs, profileVars
<1>6. PICK id : id = starting[w].profile
  OBVIOUS
<1>7. id \in Profiles \cup {Unset} /\ Settings(id) \in FileType
  BY <1>3, <1>4, <1>6, SettingsAre DEF StartType
<1>8. PICK st \in {"label", "apply"} : st = IF id = Unset THEN "label" ELSE "apply"
  OBVIOUS
<1>9. PICK r : r = [starting[w] EXCEPT !.step = st, !.blob = Settings(id)]
  OBVIOUS
<1>10. /\ r \in StartType /\ r.step = st /\ r.box = c /\ r.gone = starting[w].gone
       /\ r.profile = id /\ r.removed = starting[w].removed /\ r.blob = Settings(id)
  BY <1>1, <1>4, <1>6, <1>7, <1>9 DEF StartType, Box
<1>11. starting' = [starting EXCEPT ![w] = r]
  BY <1>3, <1>6, <1>8, <1>9 DEF AgentDirs, ToSettings, AfterTypeOK
<1>12. Started(r) /\ ~Syncs(r) /\ ~Syncs(starting[w])
  BY <1>3, <1>4, <1>10 DEF Started, Syncs
<1>13. starting' \in [Starters -> StartType] /\ troubles' \in 0 .. MaxTroubles
  BY <1>3, <1>5, <1>10, <1>11, ExecCounts DEF AfterTypeOK
<1>14. PICK u : u = IF box[c].home = "root" THEN "dev" ELSE box[c].home
  OBVIOUS
<1>15. u \in Owners
  BY <1>4, <1>14 DEF BoxType, Owners
<1>16. /\ owner' \in [Sets -> Owners] /\ calm' \in [Boxes -> BOOLEAN]
       /\ \A t \in Sets : owner'[t] = owner[t] \/ (t = s /\ owner'[t] = u /\ ~starting[w].gone)
       /\ \A d \in Boxes : calm'[d] =>
            calm[d] /\ (d = c => starting[w].gone \/ owner'[s] = u)
  <2>1. owner \in [Sets -> Owners]
    BY <1>3 DEF AfterTypeOK
  <2>2. CASE owner' = owner /\ Spoil(w)
    <3>1. Disturb(IF starting[w].gone THEN {} ELSE {c})
      BY <1>1, <2>2 DEF Spoil
    <3> QED BY <1>3, <2>1, <2>2, <3>1, Disturbs
  <2>3. CASE ~starting[w].gone /\ owner' = [owner EXCEPT ![s] = u] /\ calm' = calm
    BY <1>3, <1>4, <1>15, <2>1, <2>3 DEF AfterTypeOK
  <2> QED BY <1>1, <1>2, <1>14, <2>2, <2>3 DEF AgentDirs, Works
<1>17. AfterTypeOK'
  BY <1>3, <1>5, <1>13, <1>16 DEF AfterTypeOK
<1>18. Marks'
  BY <1>5, <1>10, <1>11, <1>12, <1>17, EarlyKeeps
<1>19. ASSUME NEW d \in Boxes, calm'[d]
       PROVE  /\ owner'[box[d].mount] \in {owner[box[d].mount], UserOf(d)}
              /\ Near(d, r)' /\ (r.box = d => Progress(d, r)')
  <2>1. Quiet(d) /\ calm[d] /\ Near(d, starting[w]) /\ (d = c => Progress(d, starting[w]))
    BY <1>1, <1>16, <1>19 DEF AfterInv, Undisturbed, Quiet
  <2>2. ~starting[w].gone /\ box[d].mount = s => u = UserOf(d)
    BY <1>1, <1>3, <1>4, <1>14, <2>1 DEF Near, Box, UserOf
  <2>3. box[d].mount \in Sets
    BY <1>3 DEF AfterTypeOK, BoxType
  <2>4. Near(d, r)'
    BY <1>10, <1>8 DEF Near
  <2>5. ASSUME d = c PROVE Progress(d, r)'
    <3>1. Settings(stored[d])' = Settings(stored[d]) /\ ~starting[w].gone /\ id = stored[d]
      BY <1>5, <1>6, <2>1, <2>5 DEF Settings, Progress
    <3>2. owner'[s] = UserOf(d)
      BY <1>4, <1>16, <1>19, <2>2, <2>5, <3>1
    <3> QED BY <1>4, <1>5, <1>8, <1>10, <2>5, <3>1, <3>2 DEF Progress, UserOf
  <2> QED BY <1>10, <1>16, <2>2, <2>3, <2>4, <2>5
<1>20. Undisturbed'
  BY <1>1, <1>3, <1>4, <1>5, <1>10, <1>11, <1>16, <1>17, <1>19, SlotKeepsCalm DEF AfterInv
<1> QED BY <1>17, <1>18, <1>20 DEF AfterInv

\* The label of a container without a profile is read.
LEMMA LabelKeeps ==
  ASSUME AfterInv, NEW w \in Starters, ReadLabel(w)
  PROVE  AfterInv'
<1>1. PICK c : c = Box(w)
  OBVIOUS
<1>3. AfterTypeOK /\ starting[w].step = "label"
  BY DEF AfterInv, ReadLabel, At
<1>4. /\ starting[w] \in StartType /\ Started(starting[w])
      /\ c \in Boxes /\ c # Unset /\ box[c] \in BoxType
  BY <1>1, <1>3, SlotIs
<1>5. UNCHANGED <<profiles, stored, box, files, marker, owner, filled, unsure, edits, runs>>
      /\ (Works(w) \/ Breaks(w))
  BY DEF ReadLabel, profileVars, volumeVars
<1>6. PICK r \in {NoStart, [starting[w] EXCEPT !.step = "apply"]} :
         /\ starting' = [starting EXCEPT ![w] = r]
         /\ r = NoStart => box[c].label = Unset \/ Spoil(w)
  <2>1. GoOn(w, "apply") => starting' = [starting EXCEPT ![w] = [starting[w] EXCEPT !.step = "apply"]]
    BY <1>3 DEF GoOn, AfterTypeOK
  <2>2. [starting[w] EXCEPT !.step = "apply"] # NoStart
    BY <1>4 DEF StartType, NoStart
  <2>3. CASE GoOn(w, "apply")
    BY <2>1, <2>2, <2>3
  <2>4. CASE Finish(w) /\ (box[c].label = Unset \/ Spoil(w))
    BY <2>4 DEF Finish
  <2> QED BY <1>1, <2>3, <2>4 DEF ReadLabel
<1>7. /\ r \in StartType
      /\ r # NoStart => /\ r.step = "apply" /\ r.box = c /\ r.gone = starting[w].gone
                        /\ r.profile = starting[w].profile /\ r.removed = starting[w].removed
                        /\ r.blob = starting[w].blob
  BY <1>1, <1>4, <1>6, NoStartIs DEF StartType, Box
<1>8. Started(r) /\ ~Syncs(r) /\ ~Syncs(starting[w])
  BY <1>3, <1>4, <1>7, NoStartIs DEF Started, Syncs
<1>9. starting' \in [Starters -> StartType] /\ troubles' \in 0 .. MaxTroubles
  BY <1>3, <1>5, <1>6, <1>7, ExecCounts DEF AfterTypeOK
<1>10. /\ calm' \in [Boxes -> BOOLEAN]
       /\ \A d \in Boxes : calm'[d] =>
            calm[d] /\ (Spoil(w) /\ d = c => starting[w].gone)
  <2>1. CASE Spoil(w)
    <3>1. Disturb(IF starting[w].gone THEN {} ELSE {c})
      BY <1>1, <2>1 DEF Spoil
    <3> QED BY <1>3, <3>1, Disturbs
  <2>2. CASE calm' = calm /\ ~Spoil(w)
    BY <1>3, <2>2 DEF AfterTypeOK
  <2> QED BY <2>1, <2>2 DEF ReadLabel
<1>11. AfterTypeOK'
  BY <1>3, <1>5, <1>9, <1>10 DEF AfterTypeOK
<1>12. Marks'
  BY <1>5, <1>6, <1>7, <1>8, <1>11, EarlyKeeps
<1>13. ASSUME NEW d \in Boxes, calm'[d]
       PROVE  Near(d, r)' /\ (r.box = d => Progress(d, r)') /\ (r.box = Unset /\ d = c => Done(d)')
  <2>1. Quiet(d) /\ calm[d] /\ (d = c => Progress(d, starting[w]))
    BY <1>1, <1>10, <1>13 DEF AfterInv, Undisturbed, Quiet
  <2>2. Near(d, r)'
    BY <1>7, NoStartIs DEF Near
  <2>3. ASSUME r.box = d PROVE Progress(d, r)'
    <3>1. r # NoStart /\ d = c
      BY <1>7, <2>3, NoStartIs, AfterAssumption
    <3>2. Settings(stored[d])' = Settings(stored[d])
      BY <1>5 DEF Settings
    <3> QED BY <1>3, <1>5, <1>7, <2>1, <3>1, <3>2 DEF Progress, UserOf
  <2>4. ASSUME r.box = Unset, d = c PROVE Done(d)'
    <3>1. r = NoStart
      BY <1>4, <1>7, <2>4
    <3> QED BY <1>3, <1>5, <1>6, <1>10, <1>13, <2>1, <2>4, <3>1 DEF Progress, Done, UserOf
  <2> QED BY <2>2, <2>3, <2>4
<1>14. r.box \in {Unset, c} /\ (r.box = Unset => r.step = "idle")
  BY <1>4, <1>7, NoStartIs
<1>15. Undisturbed'
  BY <1>1, <1>3, <1>4, <1>5, <1>6, <1>7, <1>10, <1>11, <1>13, <1>14, SlotKeepsCalm DEF AfterInv
<1> QED BY <1>11, <1>12, <1>15 DEF AfterInv

\* What a worker does after its settings: nothing, or it begins a sync.
LEMMA ToPluginsIs ==
  ASSUME AfterTypeOK, NEW w \in Starters, ToPlugins(w)
  PROVE  \E r \in StartType :
           /\ starting' = [starting EXCEPT ![w] = r]
           /\ \/ r = NoStart
              \/ /\ r.step = "marker" /\ r.box = Box(w) /\ r.gone = starting[w].gone
                 /\ r.profile = starting[w].profile /\ r.removed = starting[w].removed
<1>1. starting[w] \in StartType
  BY DEF AfterTypeOK
<1>2. CASE Finish(w)
  BY <1>2, NoStartIs DEF Finish
<1>3. CASE ~Finish(w)
  <2>1. PICK id : id = starting[w].profile
    OBVIOUS
  <2>2. id \in Profiles \cup {Unset} /\ id # Unset
    BY <1>1, <1>3, <2>1 DEF StartType, ToPlugins
  <2>3. profiles[id] \in ProfileType
    BY <2>2 DEF AfterTypeOK
  <2>4. PICK q : q = profiles[id].plugins
    OBVIOUS
  <2>5. PICK own : own = IsPrivate(id)
    OBVIOUS
  <2>6. q \in SUBSET Refs /\ own \in BOOLEAN
    BY <2>3, <2>4, <2>5 DEF ProfileType, IsPrivate
  <2>7. PICK r : r = [starting[w] EXCEPT !.step = "marker", !.wanted = q, !.private = own]
    OBVIOUS
  <2>8. /\ r \in StartType /\ r.step = "marker" /\ r.box = Box(w) /\ r.gone = starting[w].gone
        /\ r.profile = starting[w].profile /\ r.removed = starting[w].removed
    BY <1>1, <2>6, <2>7 DEF StartType, Box
  <2>9. starting' = [starting EXCEPT ![w].step = "marker", ![w].wanted = q, ![w].private = own]
    BY <1>3, <2>1, <2>4, <2>5 DEF ToPlugins
  <2>10. starting' = [starting EXCEPT ![w] = r]
    BY <2>7, <2>9 DEF AfterTypeOK
  <2> QED BY <2>8, <2>10
<1> QED BY <1>2, <1>3

\* The settings are written.
LEMMA ApplyKeeps ==
  ASSUME AfterInv, NEW w \in Starters, ApplySettings(w)
  PROVE  AfterInv'
<1>1. PICK c : c = Box(w)
  OBVIOUS
<1>2. AfterTypeOK /\ starting[w].step = "apply"
  BY DEF AfterInv, ApplySettings, At
<1>3. /\ starting[w] \in StartType /\ Started(starting[w])
      /\ c \in Boxes /\ c # Unset /\ box[c] \in BoxType
  BY <1>1, <1>2, SlotIs
<1>4. UNCHANGED <<profiles, stored, files, marker, owner, filled, unsure, edits, runs>>
      /\ (Works(w) \/ Breaks(w)) /\ ToPlugins(w)
  BY DEF ApplySettings, profileVars, volumeVars
<1>5. PICK r \in StartType :
        /\ starting' = [starting EXCEPT ![w] = r]
        /\ \/ r = NoStart
           \/ /\ r.step = "marker" /\ r.box = Box(w) /\ r.gone = starting[w].gone
              /\ r.profile = starting[w].profile /\ r.removed = starting[w].removed
  BY <1>2, <1>4, ToPluginsIs
<1>6. Started(r) /\ ~Syncs(r) /\ ~Syncs(starting[w])
  BY <1>1, <1>2, <1>3, <1>5, NoStartIs DEF Started, Syncs
<1>7. starting' \in [Starters -> StartType] /\ troubles' \in 0 .. MaxTroubles
  BY <1>2, <1>4, <1>5, ExecCounts DEF AfterTypeOK
<1>8. PICK b \in FileType : b = starting[w].blob
  BY <1>3 DEF StartType
<1>9. /\ box' \in [Boxes -> BoxType] /\ calm' \in [Boxes -> BOOLEAN]
      /\ \A d \in Boxes : /\ box'[d].mount = box[d].mount /\ box'[d].label = box[d].label
                          /\ box'[d].home = box[d].home
                          /\ d # c => box'[d].file = box[d].file
                          /\ calm'[d] => calm[d]
      /\ calm'[c] => starting[w].gone \/ box'[c].file = b
  <2>1. CASE box' = box /\ Spoil(w)
    <3>1. Disturb(IF starting[w].gone THEN {} ELSE {c})
      BY <1>1, <2>1 DEF Spoil
    <3> QED BY <1>2, <1>3, <2>1, <3>1, Disturbs DEF AfterTypeOK
  <2>2. CASE box' = [box EXCEPT ![c].file = b] /\ calm' = calm
    <3>1. PICK bx : bx = [box[c] EXCEPT !.file = b]
      OBVIOUS
    <3>2. /\ bx \in BoxType /\ bx.mount = box[c].mount /\ bx.label = box[c].label
          /\ bx.file = b /\ bx.home = box[c].home
      BY <1>3, <3>1 DEF BoxType
    <3>3. box' = [box EXCEPT ![c] = bx]
      BY <1>2, <1>3, <2>2, <3>1 DEF AfterTypeOK
    <3> QED BY <1>2, <1>3, <2>2, <3>2, <3>3 DEF AfterTypeOK
  <2> QED BY <1>1, <1>8, <2>1, <2>2 DEF ApplySettings
<1>10. AfterTypeOK'
  BY <1>2, <1>4, <1>7, <1>9 DEF AfterTypeOK
<1>11. Marks'
  BY <1>4, <1>5, <1>6, <1>9, <1>10, EarlyKeeps
<1>12. ASSUME NEW d \in Boxes, calm'[d]
       PROVE  Near(d, r)' /\ (r.box = d => Progress(d, r)') /\ (r.box = Unset /\ d = c => Done(d)')
  <2>1. Quiet(d) /\ (d = c => Progress(d, starting[w]))
    BY <1>1, <1>9, <1>12 DEF AfterInv, Undisturbed, Quiet
  <2>2. Near(d, r)'
    BY <1>5, NoStartIs DEF Near
  <2>3. d = c => /\ box'[d].file = Settings(stored[d])' /\ owner'[box'[d].mount] = UserOf(d)
                 /\ ~starting[w].gone /\ starting[w].profile = stored[d]
    <3>1. Settings(stored[d])' = Settings(stored[d])
      BY <1>4 DEF Settings
    <3> QED BY <1>2, <1>4, <1>8, <1>9, <1>12, <2>1, <3>1 DEF Progress
  <2>4. ASSUME r.box = d PROVE Progress(d, r)'
    <3>1. r # NoStart /\ d = c
      BY <1>1, <1>5, <2>4, NoStartIs, AfterAssumption
    <3> QED BY <1>4, <1>5, <2>3, <3>1 DEF Progress, UserOf
  <2>5. ASSUME r.box = Unset, d = c PROVE Done(d)'
    BY <2>3, <2>5 DEF Done, UserOf
  <2> QED BY <2>2, <2>4, <2>5
<1>13. r.box \in {Unset, c} /\ (r.box = Unset => r.step = "idle")
  BY <1>1, <1>3, <1>5, NoStartIs
<1>14. Undisturbed'
  BY <1>1, <1>2, <1>3, <1>4, <1>5, <1>9, <1>10, <1>12, <1>13, SlotKeepsCalm DEF AfterInv
<1> QED BY <1>10, <1>11, <1>14 DEF AfterInv

\* A sync disturbs nobody's settings and owner.
LEMMA SyncKeepsCalm ==
  ASSUME AfterInv, AfterTypeOK', UNCHANGED <<profiles, stored, box, owner, calm>>,
         NEW w \in Starters, NEW r \in StartType, starting' = [starting EXCEPT ![w] = r],
         starting[w].step \in {"marker", "plugins", "mark"},
         \/ r = NoStart
         \/ /\ r.step \in {"marker", "plugins", "mark"} /\ r.box = Box(w)
            /\ r.gone = starting[w].gone /\ r.profile = starting[w].profile
  PROVE  Undisturbed'
<1>1. PICK c : c = Box(w)
  OBVIOUS
<1>2. c \in Boxes /\ c # Unset
  BY <1>1, SlotIs
<1>3. ASSUME NEW d \in Boxes, calm'[d]
      PROVE  Near(d, r)' /\ (r.box = d => Progress(d, r)') /\ (r.box = Unset /\ d = c => Done(d)')
  <2>1. Quiet(d) /\ (d = c => Progress(d, starting[w]))
    BY <1>1, <1>3 DEF AfterInv, Undisturbed, Quiet
  <2>2. Near(d, r)'
    BY NoStartIs DEF Near
  <2>3. Settings(stored[d])' = Settings(stored[d])
    BY DEF Settings
  <2>4. r.box = d => Progress(d, r)'
    BY <1>1, <2>1, <2>3, NoStartIs, AfterAssumption DEF Progress, UserOf
  <2>5. d = c => Done(d)'
    BY <2>1, <2>3 DEF Progress, Done, UserOf
  <2> QED BY <2>2, <2>4, <2>5
<1>4. r.box \in {Unset, c} /\ (r.box = Unset => r.step = "idle")
  BY <1>1, <1>2, NoStartIs
<1>5. \A d \in Boxes : /\ box'[d].mount = box[d].mount /\ box'[d].label = box[d].label
                       /\ box'[d].home = box[d].home /\ box'[d].file = box[d].file
                       /\ calm'[d] => calm[d]
                       /\ owner'[box[d].mount] = owner[box[d].mount]
  OBVIOUS
<1> QED BY <1>1, <1>2, <1>3, <1>4, <1>5, SlotKeepsCalm DEF AfterInv

\* No listing has more than the marker.
LEMMA CompareIs ==
  ASSUME AfterTypeOK, NEW w \in Starters, NEW listed \in SUBSET Refs, Compare(w, listed)
  PROVE  \E r \in StartType :
           /\ starting' = [starting EXCEPT ![w] = r]
           /\ \/ r = NoStart
              \/ /\ r.step = "plugins" /\ r.box = Box(w) /\ r.gone = starting[w].gone
                 /\ r.profile = starting[w].profile /\ r.removed = starting[w].removed
                 /\ r.present \subseteq listed
<1>1. starting[w] \in StartType
  BY DEF AfterTypeOK
<1>2. CASE Finish(w)
  BY <1>2, NoStartIs DEF Finish
<1>3. CASE ~Finish(w)
  <2>1. PICK p : p = IF starting[w].private THEN listed ELSE listed \cap starting[w].wanted
    OBVIOUS
  <2>2. PICK t : t = starting[w].wanted \ listed
    OBVIOUS
  <2>3. p \in SUBSET Refs /\ t \in SUBSET Refs /\ p \subseteq listed
    BY <1>1, <2>1, <2>2 DEF StartType
  <2>4. PICK r : r = [starting[w] EXCEPT !.step = "plugins", !.listed = listed,
                                         !.present = p, !.todo = t]
    OBVIOUS
  <2>5. /\ r \in StartType /\ r.step = "plugins" /\ r.box = Box(w) /\ r.gone = starting[w].gone
        /\ r.profile = starting[w].profile /\ r.removed = starting[w].removed /\ r.present = p
    BY <1>1, <2>3, <2>4 DEF StartType, Box
  <2>6. starting' = [starting EXCEPT ![w].step = "plugins", ![w].listed = listed,
                                     ![w].present = p, ![w].todo = t]
    BY <1>3, <2>1, <2>2 DEF Compare
  <2>7. starting' = [starting EXCEPT ![w] = r]
    BY <2>4, <2>6 DEF AfterTypeOK
  <2> QED BY <2>3, <2>5, <2>7
<1> QED BY <1>2, <1>3

\* The marker is read and compared.
LEMMA ReadKeeps ==
  ASSUME AfterInv, NEW w \in Starters, ReadMarker(w)
  PROVE  AfterInv'
<1>1. PICK s : s = Volume(w)
  OBVIOUS
<1>2. AfterTypeOK /\ starting[w].step = "marker"
  BY DEF AfterInv, ReadMarker, At
<1>3. /\ starting[w] \in StartType /\ Started(starting[w]) /\ Box(w) \in Boxes /\ Box(w) # Unset
      /\ s \in Sets /\ box[Box(w)].mount = s
  BY <1>1, <1>2, SlotIs DEF Volume
<1>4. UNCHANGED <<profiles, stored, box, files, marker, owner, filled, calm, edits, runs>>
      /\ (Works(w) \/ Breaks(w))
      /\ unsure' = [unsure EXCEPT ![s] = @ \/ (AtVolume(w) # {} /\ ~starting[w].gone)]
  BY <1>1 DEF ReadMarker, profileVars, volumeVars
<1>5. PICK listed \in SUBSET Refs : Compare(w, listed) /\ listed \subseteq marker[s]
  <2>1. CASE Compare(w, {})
    BY <2>1
  <2>2. CASE \E listed \in Listings(w) : Compare(w, listed)
    <3>1. PICK listed \in Listings(w) : Compare(w, listed)
      BY <2>2
    <3>2. listed = marker[s] \/ listed = {}
      BY <1>1, <3>1 DEF Listings
    <3>3. marker[s] \in SUBSET Refs
      BY <1>2, <1>3 DEF AfterTypeOK
    <3> QED BY <3>1, <3>2, <3>3
  <2> QED BY <2>1, <2>2 DEF ReadMarker
<1>6. PICK r \in StartType :
        /\ starting' = [starting EXCEPT ![w] = r]
        /\ \/ r = NoStart
           \/ /\ r.step = "plugins" /\ r.box = Box(w) /\ r.gone = starting[w].gone
              /\ r.profile = starting[w].profile /\ r.removed = starting[w].removed
              /\ r.present \subseteq listed
  BY <1>2, <1>5, CompareIs
<1>7. /\ ~starting[w].removed /\ ~Syncs(starting[w])
      /\ Started(r)
      /\ Syncs(r) => r.box = Box(w) /\ ~starting[w].gone /\ r.present \subseteq marker[s]
  BY <1>2, <1>3, <1>5, <1>6, NoStartIs DEF Started, Syncs
<1>8. starting' \in [Starters -> StartType] /\ troubles' \in 0 .. MaxTroubles
  BY <1>2, <1>4, <1>6, ExecCounts DEF AfterTypeOK
<1>9. PICK crowd : crowd = (AtVolume(w) # {} /\ ~starting[w].gone)
  OBVIOUS
<1>10. /\ unsure' \in [Sets -> BOOLEAN]
       /\ \A t \in Sets : unsure[t] => unsure'[t]
       /\ crowd => unsure'[s]
  <2>1. crowd \in BOOLEAN /\ unsure \in [Sets -> BOOLEAN]
    BY <1>2, <1>9 DEF AfterTypeOK
  <2>2. unsure' = [unsure EXCEPT ![s] = unsure[s] \/ crowd]
    BY <1>4, <1>9
  <2> QED BY <1>3, <2>1, <2>2
<1>11. AfterTypeOK'
  BY <1>2, <1>4, <1>8, <1>10 DEF AfterTypeOK
<1>12. ASSUME Syncs(r), NEW v \in Starters \ {w}, Syncs(starting[v]), On(starting[v], s)
       PROVE  unsure'[s]
  <2>1. v \in AtVolume(w)
    BY <1>1, <1>12 DEF AtVolume, Syncing, At, Syncs, On, Volume, Box
  <2> QED BY <1>7, <1>9, <1>10, <1>12, <2>1
<1>13. Present(r)'
  <2> SUFFICES ASSUME Syncs(r), ~unsure'[s] PROVE r.present \subseteq files[s]
    BY <1>3, <1>4, <1>7 DEF Present, On, Syncs
  <2>1. \A v \in Starters : ~(starting[v].removed /\ On(starting[v], s))
    BY <1>7, <1>12 DEF AfterInv, Marks, Started
  <2>2. marker[s] \subseteq files[s]
    BY <1>3, <1>10, <2>1 DEF AfterInv, Marks, Listed
  <2> QED BY <1>7, <2>2
<1>14. \A t \in Sets : marker'[t] = marker[t] /\ files[t] \subseteq files'[t]
  BY <1>4
<1>15. Syncs(r) => \A t \in Sets, v \in Starters \ {w} :
                     Syncs(starting[v]) /\ On(starting[v], t) /\ On(r, t) => unsure'[t]
  BY <1>3, <1>7, <1>12 DEF On
<1>16. Marks'
  BY <1>2, <1>4, <1>6, <1>7, <1>10, <1>11, <1>13, <1>14, <1>15, SlotKeepsMarks DEF AfterInv
<1>17. Undisturbed'
  BY <1>2, <1>4, <1>6, <1>11, SyncKeepsCalm
<1> QED BY <1>11, <1>16, <1>17 DEF AfterInv

\* Nothing more is to be installed or removed.
LEMMA ToMarkKeeps ==
  ASSUME AfterInv, NEW w \in Starters, ToMark(w)
  PROVE  AfterInv'
<1>2. AfterTypeOK /\ starting[w].step = "plugins"
  BY DEF AfterInv, ToMark, At
<1>3. starting[w] \in StartType /\ Started(starting[w]) /\ Present(starting[w])
  BY <1>2, SlotIs DEF AfterInv, Marks
<1>4. UNCHANGED <<profiles, stored, box, files, marker, owner, filled, calm, unsure,
                  edits, runs, troubles>>
  BY DEF ToMark, profileVars, volumeVars, afterHistory, afterBounds
<1>5. PICK r : r = [starting[w] EXCEPT !.step = "mark"]
  OBVIOUS
<1>6. /\ r \in StartType /\ r.step = "mark" /\ r.box = Box(w) /\ r.gone = starting[w].gone
      /\ r.profile = starting[w].profile /\ r.removed = starting[w].removed
      /\ r.present = starting[w].present
  BY <1>3, <1>5 DEF StartType, Box
<1>7. starting' = [starting EXCEPT ![w] = r]
  BY <1>2, <1>5 DEF ToMark, GoOn, AfterTypeOK
<1>8. Started(r) /\ (Syncs(r) <=> Syncs(starting[w])) /\ \A s \in Sets : On(r, s) <=> On(starting[w], s)
  BY <1>2, <1>3, <1>6 DEF Started, Syncs, On, Box
<1>9. AfterTypeOK'
  BY <1>2, <1>4, <1>6, <1>7 DEF AfterTypeOK
<1>10. Present(r)'
  BY <1>3, <1>4, <1>6, <1>8 DEF Present, On, Syncs
<1>11. \A t \in Sets : marker'[t] = marker[t] /\ files[t] \subseteq files'[t]
  BY <1>4
<1>12. Marks'
  BY <1>4, <1>6, <1>7, <1>8, <1>9, <1>10, <1>11, SlotKeepsMarks DEF AfterInv
<1>13. Undisturbed'
  BY <1>2, <1>4, <1>6, <1>7, <1>9, SyncKeepsCalm
<1> QED BY <1>9, <1>12, <1>13 DEF AfterInv

\* The marker is written, or half of it.
LEMMA WriteKeeps ==
  ASSUME AfterInv, NEW w \in Starters, WriteMarker(w)
  PROVE  AfterInv'
<1>1. PICK s : s = Volume(w)
  OBVIOUS
<1>2. AfterTypeOK /\ starting[w].step = "mark"
  BY DEF AfterInv, WriteMarker, At
<1>3. /\ starting[w] \in StartType /\ Started(starting[w]) /\ Present(starting[w])
      /\ Box(w) \in Boxes /\ s \in Sets /\ box[Box(w)].mount = s
  BY <1>1, <1>2, SlotIs DEF Volume, AfterInv, Marks
<1>4. UNCHANGED <<profiles, stored, box, files, owner, filled, calm, edits, runs>>
      /\ (Works(w) \/ Breaks(w)) /\ starting' = [starting EXCEPT ![w] = NoStart]
  BY DEF WriteMarker, profileVars, Finish
<1>5. \A t \in Sets : On(starting[w], t) <=> t = s
  BY <1>1, <1>3 DEF On, Volume, Box
<1>6. starting' \in [Starters -> StartType] /\ troubles' \in 0 .. MaxTroubles
  BY <1>2, <1>4, NoStartIs, ExecCounts DEF AfterTypeOK
<1>7. marker \in [Sets -> SUBSET Refs] /\ unsure \in [Sets -> BOOLEAN]
      /\ starting[w].present \in SUBSET Refs /\ starting[w].removed \in BOOLEAN
  BY <1>2, <1>3 DEF AfterTypeOK, StartType
<1>8. /\ marker' \in [Sets -> SUBSET Refs] /\ unsure' \in [Sets -> BOOLEAN]
      /\ \A t \in Sets : unsure[t] => unsure'[t]
      /\ \A t \in Sets : \/ marker'[t] \subseteq files[t] \/ unsure'[t]
                         \/ marker'[t] = marker[t] /\ ~(starting[w].removed /\ On(starting[w], t))
  <2>1. CASE /\ ~starting[w].gone /\ marker' = [marker EXCEPT ![s] = starting[w].present]
             /\ unsure' = unsure
    <3>1. starting[w].present \subseteq files[s] \/ unsure[s]
      BY <1>2, <1>3, <1>5, <2>1 DEF Present, Syncs
    <3> QED BY <1>3, <1>5, <1>7, <2>1, <3>1
  <2>2. CASE /\ marker' \in {marker, [marker EXCEPT ![s] = IF starting[w].gone THEN @ ELSE {}]}
             /\ unsure' = [unsure EXCEPT ![s] = @ \/ starting[w].removed]
    <3>1. unsure' \in [Sets -> BOOLEAN] /\ (starting[w].removed => unsure'[s])
          /\ \A t \in Sets : unsure[t] => unsure'[t]
      BY <1>3, <1>7, <2>2
    <3>2. marker' \in [Sets -> SUBSET Refs] /\ \A t \in Sets : marker'[t] = marker[t] \/ marker'[t] = {}
      BY <1>3, <1>7, <2>2
    <3> QED BY <1>5, <3>1, <3>2
  <2> QED BY <1>1, <2>1, <2>2 DEF WriteMarker, Works
<1>9. AfterTypeOK'
  BY <1>2, <1>4, <1>6, <1>8 DEF AfterTypeOK
<1>10. Present(NoStart)'
  BY NoStartIs DEF Present, Syncs
<1>11. \A t \in Sets : \/ marker'[t] \subseteq files'[t] \/ unsure'[t]
                       \/ /\ marker'[t] = marker[t] /\ files[t] \subseteq files'[t]
                          /\ ~(starting[w].removed /\ On(starting[w], t))
  BY <1>4, <1>8
<1>12. Marks'
  BY <1>4, <1>8, <1>9, <1>10, <1>11, NoStartIs, SlotKeepsMarks DEF AfterInv
<1>13. Undisturbed'
  BY <1>2, <1>4, <1>9, NoStartIs, SyncKeepsCalm
<1> QED BY <1>9, <1>12, <1>13 DEF AfterInv

\* A plugin is installed, or not, or nobody knows.
LEMMA InstallKeeps ==
  ASSUME AfterInv, NEW w \in Starters, NEW x \in Refs, InstallPlugin(w, x)
  PROVE  AfterInv'
<1>1. PICK s : s = Volume(w)
  OBVIOUS
<1>2. AfterTypeOK /\ starting[w].step = "plugins"
  BY DEF AfterInv, InstallPlugin, At
<1>3. /\ starting[w] \in StartType /\ Started(starting[w]) /\ Present(starting[w])
      /\ Box(w) \in Boxes /\ s \in Sets /\ box[Box(w)].mount = s
  BY <1>1, <1>2, SlotIs DEF Volume, AfterInv, Marks
<1>4. UNCHANGED <<profiles, stored, box, marker, owner, calm, edits, runs>>
      /\ (Works(w) \/ Breaks(w) \/ Troubled)
      /\ filled' = [filled EXCEPT ![s] = @ \/ x \in files'[s]]
  BY <1>1 DEF InstallPlugin, profileVars
<1>5. \A t \in Sets : On(starting[w], t) <=> t = s
  BY <1>1, <1>3 DEF On, Volume, Box
<1>6. /\ files \in [Sets -> SUBSET Refs] /\ unsure \in [Sets -> BOOLEAN]
      /\ filled \in [Sets -> BOOLEAN] /\ starting[w].present \in SUBSET Refs
      /\ starting[w].todo \in SUBSET Refs
      /\ (Syncs(starting[w]) => starting[w].present \subseteq files[s] \/ unsure[s])
  BY <1>2, <1>3, <1>5 DEF AfterTypeOK, StartType, Present
<1>7. PICK more : more = [files EXCEPT ![s] = @ \cup {x}]
  OBVIOUS
<1>8. /\ more \in [Sets -> SUBSET Refs] /\ more[s] = files[s] \cup {x}
      /\ \A t \in Sets : files[t] \subseteq more[t]
  BY <1>3, <1>6, <1>7
<1>9. PICK p \in {starting[w].present, starting[w].present \cup {x}} :
        /\ starting' = [starting EXCEPT ![w] =
                          [starting[w] EXCEPT !.todo = starting[w].todo \ {x}, !.present = p]]
        /\ files' \in {files, more}
        /\ \/ unsure' = unsure /\ (p = starting[w].present \/ files' = more)
           \/ unsure' = [unsure EXCEPT ![s] = TRUE]
  <2>1. CASE /\ files' = more
             /\ starting' = [starting EXCEPT ![w].todo = @ \ {x}, ![w].present = @ \cup {x}]
             /\ UNCHANGED unsure
    BY <1>2, <2>1 DEF AfterTypeOK
  <2>2. CASE /\ files' \in {files, [files EXCEPT ![s] = IF starting[w].gone THEN @ ELSE @ \cup {x}]}
             /\ starting' = [starting EXCEPT ![w].todo = @ \ {x}]
             /\ UNCHANGED unsure
    <3>1. files' \in {files, more}
      BY <1>6, <1>7, <2>2
    <3>2. [starting[w] EXCEPT !.todo = starting[w].todo \ {x}]
            = [starting[w] EXCEPT !.todo = starting[w].todo \ {x}, !.present = starting[w].present]
      BY <1>3 DEF StartType
    <3>3. starting' = [starting EXCEPT ![w] = [starting[w] EXCEPT !.todo = starting[w].todo \ {x}]]
      BY <1>2, <2>2 DEF AfterTypeOK
    <3> QED BY <2>2, <3>1, <3>2, <3>3
  <2>3. CASE /\ files' \in {files, more}
             /\ starting' = [starting EXCEPT ![w].todo = @ \ {x}, ![w].present = @ \cup {x}]
             /\ unsure' = [unsure EXCEPT ![s] = TRUE]
    BY <1>2, <2>3 DEF AfterTypeOK
  <2> QED BY <1>1, <1>7, <2>1, <2>2, <2>3 DEF InstallPlugin
<1>10. PICK r : r = [starting[w] EXCEPT !.todo = starting[w].todo \ {x}, !.present = p]
  OBVIOUS
<1>11. /\ r \in StartType /\ r.step = "plugins" /\ r.box = Box(w) /\ r.gone = starting[w].gone
       /\ r.profile = starting[w].profile /\ r.removed = starting[w].removed /\ r.present = p
  BY <1>2, <1>3, <1>6, <1>9, <1>10 DEF StartType, Box
<1>12. /\ files' \in [Sets -> SUBSET Refs] /\ \A t \in Sets : files[t] \subseteq files'[t]
  BY <1>6, <1>8, <1>9
<1>13. /\ unsure' \in [Sets -> BOOLEAN] /\ \A t \in Sets : unsure[t] => unsure'[t]
       /\ \/ unsure'[s] \/ p = starting[w].present \/ files' = more
  BY <1>3, <1>6, <1>9
<1>14. filled' \in [Sets -> BOOLEAN]
  BY <1>3, <1>4, <1>6
<1>15. starting' \in [Starters -> StartType] /\ troubles' \in 0 .. MaxTroubles
  BY <1>2, <1>4, <1>9, <1>10, <1>11, ExecCounts DEF AfterTypeOK
<1>16. AfterTypeOK'
  BY <1>2, <1>4, <1>12, <1>13, <1>14, <1>15 DEF AfterTypeOK
<1>17. Started(r) /\ (Syncs(r) <=> Syncs(starting[w]))
  BY <1>2, <1>3, <1>11 DEF Started, Syncs
<1>18. Present(r)'
  <2> SUFFICES ASSUME Syncs(r), ~unsure'[s] PROVE p \subseteq files'[s]
    BY <1>3, <1>4, <1>11 DEF Present, On, Syncs
  <2>1. starting[w].present \subseteq files[s]
    BY <1>3, <1>6, <1>13, <1>17
  <2> QED BY <1>3, <1>8, <1>9, <1>12, <1>13, <2>1
<1>19. \A t \in Sets : \/ marker'[t] \subseteq files'[t] \/ unsure'[t]
                       \/ r.removed /\ On(r, t)
                       \/ /\ marker'[t] = marker[t] /\ files[t] \subseteq files'[t]
                          /\ ~(starting[w].removed /\ On(starting[w], t))
  BY <1>4, <1>11, <1>12 DEF On, Box
<1>20. Marks'
  BY <1>4, <1>9, <1>10, <1>11, <1>12, <1>13, <1>16, <1>17, <1>18, <1>19, SlotKeepsMarks DEF AfterInv
<1>21. Undisturbed'
  BY <1>2, <1>4, <1>9, <1>10, <1>11, <1>16, SyncKeepsCalm
<1> QED BY <1>16, <1>20, <1>21 DEF AfterInv

\* A plugin is uninstalled, or not, or nobody knows.
LEMMA UninstallKeeps ==
  ASSUME AfterInv, NEW w \in Starters, NEW x \in Refs, UninstallPlugin(w, x)
  PROVE  AfterInv'
<1>1. PICK s : s = Volume(w)
  OBVIOUS
<1>2. AfterTypeOK /\ starting[w].step = "plugins"
  BY DEF AfterInv, UninstallPlugin, At
<1>3. /\ starting[w] \in StartType /\ Started(starting[w]) /\ Present(starting[w])
      /\ Box(w) \in Boxes /\ s \in Sets /\ box[Box(w)].mount = s
  BY <1>1, <1>2, SlotIs DEF Volume, AfterInv, Marks
<1>4. UNCHANGED <<profiles, stored, box, marker, owner, filled, calm, edits, runs>>
      /\ (Works(w) \/ Breaks(w))
  BY DEF UninstallPlugin, profileVars
<1>5. \A t \in Sets : On(starting[w], t) <=> t = s
  BY <1>1, <1>3 DEF On, Volume, Box
<1>6. /\ files \in [Sets -> SUBSET Refs] /\ unsure \in [Sets -> BOOLEAN]
      /\ starting[w].present \in SUBSET Refs /\ starting[w].listed \in SUBSET Refs
      /\ (Syncs(starting[w]) => starting[w].present \subseteq files[s] \/ unsure[s])
  BY <1>2, <1>3, <1>5 DEF AfterTypeOK, StartType, Present
<1>7. PICK fewer : fewer = [files EXCEPT ![s] = @ \ {x}]
  OBVIOUS
<1>8. /\ fewer \in [Sets -> SUBSET Refs] /\ fewer[s] = files[s] \ {x}
      /\ \A t \in Sets : t # s => fewer[t] = files[t]
  BY <1>3, <1>6, <1>7
<1>9. PICK p \in {starting[w].present, starting[w].present \ {x}}, done \in BOOLEAN :
        /\ starting' = [starting EXCEPT ![w] =
             [starting[w] EXCEPT !.listed = starting[w].listed \ {x}, !.present = p, !.removed = done]]
        /\ \/ /\ files' = fewer /\ unsure' = unsure /\ ~starting[w].gone /\ done
              /\ p = starting[w].present \ {x}
           \/ files' = files /\ unsure' = [unsure EXCEPT ![s] = unsure[s] \/ files' # files]
                             /\ done = starting[w].removed
           \/ files' = fewer /\ unsure' = [unsure EXCEPT ![s] = unsure[s] \/ files' # files]
                             /\ ~starting[w].gone /\ done = starting[w].removed
  <2>1. CASE /\ ~starting[w].gone /\ files' = fewer /\ UNCHANGED unsure
             /\ starting' = [starting EXCEPT ![w].listed = @ \ {x}, ![w].present = @ \ {x},
                                             ![w].removed = TRUE]
    BY <1>2, <2>1 DEF AfterTypeOK
  <2>2. CASE /\ files' \in {files, [files EXCEPT ![s] = IF starting[w].gone THEN @ ELSE @ \ {x}]}
             /\ starting' \in {[starting EXCEPT ![w].listed = @ \ {x}],
                               [starting EXCEPT ![w].listed = @ \ {x}, ![w].present = @ \ {x}]}
             /\ unsure' = [unsure EXCEPT ![s] = @ \/ files' # files]
    <3>1. files' = files \/ (files' = fewer /\ ~starting[w].gone)
      BY <1>6, <1>7, <2>2
    <3>2. starting[w].removed \in BOOLEAN
      BY <1>3 DEF StartType
    <3>3. PICK p \in {starting[w].present, starting[w].present \ {x}} :
            starting' = [starting EXCEPT ![w] =
             [starting[w] EXCEPT !.listed = starting[w].listed \ {x}, !.present = p]]
      <4>1. [starting[w] EXCEPT !.listed = starting[w].listed \ {x}]
             = [starting[w] EXCEPT !.listed = starting[w].listed \ {x}, !.present = starting[w].present]
        BY <1>3 DEF StartType
      <4>2. CASE starting' = [starting EXCEPT ![w].listed = @ \ {x}]
        <5>1. starting' = [starting EXCEPT ![w] = [starting[w] EXCEPT !.listed = starting[w].listed \ {x}]]
          BY <1>2, <4>2 DEF AfterTypeOK
        <5> QED BY <4>1, <5>1
      <4>3. CASE starting' = [starting EXCEPT ![w].listed = @ \ {x}, ![w].present = @ \ {x}]
        BY <1>2, <4>3 DEF AfterTypeOK
      <4> QED BY <2>2, <4>2, <4>3
    <3>4. [starting[w] EXCEPT !.listed = starting[w].listed \ {x}, !.present = p]
           = [starting[w] EXCEPT !.listed = starting[w].listed \ {x}, !.present = p,
                                 !.removed = starting[w].removed]
      BY <1>3 DEF StartType
    <3> QED BY <2>2, <3>1, <3>2, <3>3, <3>4
  <2> QED BY <1>1, <1>7, <2>1, <2>2 DEF UninstallPlugin, Works
<1>10. PICK r : r = [starting[w] EXCEPT !.listed = starting[w].listed \ {x}, !.present = p,
                                        !.removed = done]
  OBVIOUS
<1>11. /\ r \in StartType /\ r.step = "plugins" /\ r.box = Box(w) /\ r.gone = starting[w].gone
       /\ r.profile = starting[w].profile /\ r.removed = done /\ r.present = p
  BY <1>2, <1>3, <1>6, <1>9, <1>10 DEF StartType, Box
<1>12. files' \in [Sets -> SUBSET Refs] /\ \A t \in Sets : t # s => files'[t] = files[t]
  BY <1>6, <1>8, <1>9
<1>13. /\ unsure' \in [Sets -> BOOLEAN] /\ \A t \in Sets : unsure[t] => unsure'[t]
       /\ \/ files' = fewer /\ done /\ p = starting[w].present \ {x}
          \/ files' = files /\ done = starting[w].removed
          \/ unsure'[s] /\ done = starting[w].removed
       /\ files' = files \/ ~starting[w].gone
  <2>1. CASE files' = files
    BY <1>3, <1>6, <1>9, <2>1
  <2>2. CASE files' # files
    BY <1>3, <1>6, <1>9, <2>2
  <2> QED BY <2>1, <2>2
<1>15. starting' \in [Starters -> StartType] /\ troubles' \in 0 .. MaxTroubles
  BY <1>2, <1>4, <1>9, <1>10, <1>11, ExecCounts DEF AfterTypeOK
<1>16. AfterTypeOK'
  BY <1>2, <1>4, <1>12, <1>13, <1>15 DEF AfterTypeOK
<1>17. Started(r) /\ (Syncs(r) <=> Syncs(starting[w]))
  BY <1>2, <1>3, <1>9, <1>11 DEF Started, Syncs
<1>18. Present(r)'
  <2> SUFFICES ASSUME Syncs(r), ~unsure'[s] PROVE p \subseteq files'[s]
    BY <1>3, <1>4, <1>11 DEF Present, On, Syncs
  <2>1. starting[w].present \subseteq files[s]
    BY <1>3, <1>6, <1>13, <1>17
  <2> QED BY <1>3, <1>8, <1>9, <1>13, <2>1
<1>19. \A t \in Sets : \/ unsure'[t] \/ files[t] \subseteq files'[t]
                       \/ Syncs(starting[w]) /\ On(starting[w], t)
  BY <1>2, <1>5, <1>12, <1>13 DEF Syncs
<1>20. \A t \in Sets : \/ marker'[t] \subseteq files'[t] \/ unsure'[t]
                       \/ r.removed /\ On(r, t)
                       \/ /\ marker'[t] = marker[t] /\ files[t] \subseteq files'[t]
                          /\ ~(starting[w].removed /\ On(starting[w], t))
  <2> SUFFICES ASSUME NEW t \in Sets, ~unsure'[t], ~(r.removed /\ On(r, t))
               PROVE  files[t] \subseteq files'[t] /\ ~(starting[w].removed /\ On(starting[w], t))
    BY <1>4
  <2>1. On(r, t) <=> t = s
    BY <1>5, <1>11 DEF On, Box
  <2> QED BY <1>5, <1>11, <1>12, <1>13, <2>1
<1>21. Marks'
  <2>1. starting' = [starting EXCEPT ![w] = r] /\ \A t \in Sets : unsure[t] => unsure'[t]
    BY <1>9, <1>10, <1>13
  <2>2. (\A c \in Boxes : box'[c].mount = box[c].mount) /\ r \in StartType /\ r.box = Box(w)
    BY <1>4, <1>11
  <2> QED BY <1>2, <1>16, <1>17, <1>18, <1>19, <1>20, <2>1, <2>2, SlotKeepsMarks DEF AfterInv
<1>22. Undisturbed'
  BY <1>2, <1>4, <1>9, <1>10, <1>11, <1>16, SyncKeepsCalm
<1> QED BY <1>16, <1>21, <1>22 DEF AfterInv

\* Slots, containers and volumes are as before.
LEMMA SameMarks ==
  ASSUME Marks, UNCHANGED <<starting, box, files, marker, unsure>>
  PROVE  Marks'
BY DEF Marks, Started, Present, Pairs, Listed, On, Syncs

\* Something else has changed, and disturbs those that it is about.
LEMMA WorldKeepsCalm ==
  ASSUME AfterTypeOK, Undisturbed, UNCHANGED <<starting, box, owner>>,
         \A c \in Boxes : calm'[c] =>
           calm[c] /\ stored'[c] = stored[c] /\ Settings(stored[c])' = Settings(stored[c])
  PROVE  Undisturbed'
<1>1. ASSUME NEW c \in Boxes, calm'[c] PROVE Quiet(c)'
  <2>1. Quiet(c) /\ calm[c] /\ stored'[c] = stored[c] /\ Settings(stored[c])' = Settings(stored[c])
    BY <1>1 DEF Undisturbed
  <2>2. \A v \in Starters : (Progress(c, starting[v]) => Progress(c, starting[v])')
                            /\ (Near(c, starting[v]) => Near(c, starting[v])')
    BY <2>1 DEF Progress, Near, UserOf
  <2>3. Done(c) => Done(c)'
    BY <2>1 DEF Done, UserOf
  <2> QED BY <2>1, <2>2, <2>3 DEF Quiet, Busy, Box
<1>2. \A c \in Boxes : Quiet(c)'
  BY <1>1 DEF Quiet
<1> QED BY <1>2 DEF Undisturbed

\* Profiles and definitions are edited, and agents write.
LEMMA EditKeeps ==
  ASSUME AfterInv,
         \/ \E p \in Profiles : EditProfile(p) \/ ForgetProfile(p)
         \/ \E c \in Boxes, id \in Profiles \cup {Unset} : StoreEdit(c, id)
         \/ \E c \in Boxes : AgentWrites(c)
  PROVE  AfterInv'
<1>1. AfterTypeOK /\ UNCHANGED <<starting, box, files, marker, owner, unsure, runs, troubles>>
  BY DEF AfterInv, EditProfile, ForgetProfile, StoreEdit, AgentWrites, volumeVars, afterHistory,
         afterBounds
<1>2. Marks'
  BY <1>1, SameMarks DEF AfterInv
<1>3. Edited => edits' \in 0 .. MaxEdits
  BY <1>1, AfterAssumption DEF Edited, AfterTypeOK
<1>4. ASSUME NEW p \in Profiles, EditProfile(p) PROVE AfterInv'
  <2>1. PICK d \in Drafts : profiles' = [profiles EXCEPT ![p] = d]
    BY <1>4 DEF EditProfile
  <2>2. d \in ProfileType
    BY AfterAssumption
  <2>3. Edited /\ Disturb(UsersOf(p)) /\ UNCHANGED <<stored, filled>>
    BY <1>4 DEF EditProfile, volumeVars
  <2>4. /\ calm' \in [Boxes -> BOOLEAN]
        /\ \A c \in Boxes : calm'[c] => calm[c] /\ c \notin UsersOf(p)
    BY <1>1, <2>3, Disturbs
  <2>5. profiles' \in [Profiles -> ProfileType]
    BY <1>1, <2>1, <2>2 DEF AfterTypeOK
  <2>6. AfterTypeOK'
    BY <1>1, <1>3, <2>3, <2>4, <2>5 DEF AfterTypeOK
  <2>7. ASSUME NEW c \in Boxes, calm'[c] PROVE Settings(stored[c])' = Settings(stored[c])
    <3>1. stored[c] # p /\ stored[c] \in Profiles \cup {Unset} /\ stored'[c] = stored[c]
      BY <1>1, <2>3, <2>4, <2>7 DEF UsersOf, AfterTypeOK
    <3>2. stored[c] # Unset => profiles'[stored[c]] = profiles[stored[c]]
      BY <1>1, <2>1, <3>1 DEF AfterTypeOK
    <3> QED BY <3>1, <3>2 DEF Settings
  <2>8. Undisturbed'
    BY <1>1, <2>3, <2>4, <2>7, WorldKeepsCalm DEF AfterInv
  <2> QED BY <1>2, <2>6, <2>8 DEF AfterInv
<1>5. ASSUME NEW p \in Profiles, ForgetProfile(p) PROVE AfterInv'
  <2>1. /\ profiles' = [profiles EXCEPT ![p] = NoProfile]
        /\ stored' = [c \in Boxes |-> IF stored[c] = p THEN Unset ELSE stored[c]]
        /\ Edited /\ Disturb(UsersOf(p)) /\ UNCHANGED filled
    BY <1>5 DEF ForgetProfile, volumeVars
  <2>2. NoProfile \in ProfileType
    BY DEF NoProfile, ProfileType
  <2>4. /\ calm' \in [Boxes -> BOOLEAN]
        /\ \A c \in Boxes : calm'[c] => calm[c] /\ c \notin UsersOf(p)
    BY <1>1, <2>1, Disturbs
  <2>5. profiles' \in [Profiles -> ProfileType] /\ stored' \in [Boxes -> Profiles \cup {Unset}]
    BY <1>1, <2>1, <2>2 DEF AfterTypeOK
  <2>6. AfterTypeOK'
    BY <1>1, <1>3, <2>1, <2>4, <2>5 DEF AfterTypeOK
  <2>7. ASSUME NEW c \in Boxes, calm'[c]
        PROVE  stored'[c] = stored[c] /\ Settings(stored[c])' = Settings(stored[c])
    <3>1. stored[c] # p /\ stored[c] \in Profiles \cup {Unset} /\ stored'[c] = stored[c]
      BY <1>1, <2>1, <2>4, <2>7 DEF UsersOf, AfterTypeOK
    <3>2. stored[c] # Unset => profiles'[stored[c]] = profiles[stored[c]]
      BY <1>1, <2>1, <3>1 DEF AfterTypeOK
    <3> QED BY <3>1, <3>2 DEF Settings
  <2>8. Undisturbed'
    BY <1>1, <2>4, <2>7, WorldKeepsCalm DEF AfterInv
  <2> QED BY <1>2, <2>6, <2>8 DEF AfterInv
<1>6. ASSUME NEW c \in Boxes, NEW id \in Profiles \cup {Unset}, StoreEdit(c, id) PROVE AfterInv'
  <2>1. stored' = [stored EXCEPT ![c] = id] /\ Edited /\ Disturb({c}) /\ UNCHANGED <<profiles, filled>>
    BY <1>6 DEF StoreEdit, volumeVars
  <2>2. /\ calm' \in [Boxes -> BOOLEAN]
        /\ \A d \in Boxes : calm'[d] => calm[d] /\ d \notin {c}
    BY <1>1, <2>1, Disturbs
  <2>3. AfterTypeOK'
    BY <1>1, <1>3, <2>1, <2>2 DEF AfterTypeOK
  <2>4. ASSUME NEW d \in Boxes, calm'[d]
        PROVE  stored'[d] = stored[d] /\ Settings(stored[d])' = Settings(stored[d])
    BY <1>1, <2>1, <2>2, <2>4 DEF Settings, AfterTypeOK
  <2>5. Undisturbed'
    BY <1>1, <2>2, <2>4, WorldKeepsCalm DEF AfterInv
  <2> QED BY <1>2, <2>3, <2>5 DEF AfterInv
<1>7. ASSUME NEW c \in Boxes, AgentWrites(c) PROVE AfterInv'
  <2>1. UNCHANGED <<profiles, stored, calm, edits>> /\ filled' = [filled EXCEPT ![box[c].mount] = TRUE]
    BY <1>7 DEF AgentWrites, profileVars, afterHistory, afterBounds
  <2>2. AfterTypeOK'
    BY <1>1, <2>1 DEF AfterTypeOK
  <2>3. \A d \in Boxes : Settings(stored[d])' = Settings(stored[d])
    BY <2>1 DEF Settings
  <2>4. Undisturbed'
    BY <1>1, <2>1, <2>3, WorldKeepsCalm DEF AfterInv
  <2> QED BY <1>2, <2>2, <2>4 DEF AfterInv
<1> QED BY <1>4, <1>5, <1>6, <1>7

\* A start disturbs those it shares a volume with, or it fits.
LEMMA BeginKeepsCalm ==
  ASSUME AfterInv, AfterTypeOK', NEW w \in Starters, NEW c \in Boxes, NEW mount \in Sets,
         BeginStart(w, c, mount), UNCHANGED <<profiles, owner>>,
         \A d \in Boxes \ {c} : box'[d] = box[d] /\ stored'[d] = stored[d],
         box'[c].mount = mount, c \notin Custom => box'[c].home = "dev",
         starting'[w].box = c, starting'[w].step = "home", ~starting'[w].gone,
         starting'[w].profile = stored'[c],
         \A v \in Starters \ {w} :
           /\ Box(v) # c => starting'[v] = starting[v]
           /\ Box(v) = c => /\ starting'[v].box = c
                            /\ starting'[v].gone \/ (starting'[v] = starting[v] /\ box' = box)
  PROVE  Undisturbed'
<1>1. AfterTypeOK /\ At(w, "idle") /\ Box(w) = Unset /\ c # Unset
  BY AfterAssumption, NoStartIs DEF AfterInv, Marks, Started, BeginStart, At, Box
<1>2. PICK rivals : rivals = {d \in Boxes \ {c} : box[d].mount = mount /\ UserOf(d) # UserOf(c)}
  OBVIOUS
<1>3. PICK botched : botched = {Box(v) : v \in {u \in Starters : At(u, "dirs") /\ Volume(u) = mount
                                                 /\ box[Box(u)].home # UserOf(Box(u))}}
  OBVIOUS
<1>4. calm' = [d \in Boxes |->
         IF d = c THEN \A v \in Starters : Box(v) \notin {c} \cup rivals \cup botched
         ELSE calm[d] /\ d \notin rivals]
  BY <1>2, <1>3 DEF BeginStart
<1>5. \A d \in Boxes : (c # d => Settings(stored[d])' = Settings(stored[d]))
  BY DEF Settings
<1>6. \A v \in Starters : starting[v].step \in {"home", "dirs"} => starting[v].box \in Boxes
  BY DEF AfterInv, Marks, Started
<1>7. ASSUME calm'[c] PROVE Quiet(c)'
  <2>1. \A v \in Starters : Box(v) # c /\ Box(v) \notin rivals /\ Box(v) \notin botched
    BY <1>4, <1>7
  <2>2. \A v \in Starters \ {w} : starting'[v] = starting[v] /\ starting'[v].box # c
    BY <2>1 DEF Box
  <2>3. Progress(c, starting[w])' /\ Near(c, starting[w])'
    BY DEF Progress, Near, UserOf
  <2>4. ASSUME NEW v \in Starters \ {w} PROVE Near(c, starting[v])'
    <3> SUFFICES ASSUME starting[v].step \in {"home", "dirs"}, ~starting[v].gone,
                        box'[starting[v].box].mount = box'[c].mount
                 PROVE  /\ UserOf(starting[v].box) = UserOf(c)
                        /\ starting[v].step = "dirs" =>
                             box'[starting[v].box].home = UserOf(starting[v].box)
      BY <2>2 DEF Near, UserOf
    <3>1. PICK d \in Boxes \ {c} : d = starting[v].box
      BY <1>6, <2>1 DEF Box
    <3>2. box'[d] = box[d] /\ box[d].mount = mount /\ d \notin rivals /\ d \notin botched
      BY <2>1, <3>1 DEF Box
    <3>3. UserOf(d) = UserOf(c)
      BY <1>2, <3>2
    <3>4. starting[v].step = "dirs" => box[d].home = UserOf(d)
      BY <1>3, <3>1, <3>2 DEF At, Volume, Box
    <3> QED BY <3>1, <3>2, <3>3, <3>4
  <2>5. \A v \in Starters : Box(v)' = c => v = w
    BY <2>2 DEF Box
  <2>6. Busy(c)' # {}
    BY DEF Busy, Box
  <2> QED BY <2>3, <2>4, <2>5, <2>6 DEF Quiet
<1>8. ASSUME NEW d \in Boxes \ {c}, calm'[d] PROVE Quiet(d)'
  <2>1. Quiet(d) /\ calm[d] /\ d \notin rivals /\ d # Unset
    BY <1>4, <1>8, AfterAssumption DEF AfterInv, Undisturbed
  <2>2. \A v \in Starters : Box(v)' = d => v # w /\ Box(v) = d /\ starting'[v] = starting[v]
    BY DEF Box
  <2>3. ASSUME NEW v \in Starters, Box(v)' = d PROVE Progress(d, starting[v])'
    <3>1. Progress(d, starting[v]) /\ starting'[v] = starting[v]
      BY <2>1, <2>2, <2>3 DEF Quiet
    <3> QED BY <1>5, <3>1 DEF Progress, UserOf
  <2>4. ASSUME NEW v \in Starters PROVE Near(d, starting[v])'
    <3>1. CASE v = w
      <4>1. box[d].mount = mount => UserOf(d) = UserOf(c)
        BY <1>2, <2>1
      <4> QED BY <3>1, <4>1 DEF Near, UserOf
    <3>2. CASE v # w /\ starting'[v].gone
      BY <3>2 DEF Near
    <3>3. CASE v # w /\ ~starting'[v].gone
      <4>1. starting'[v] = starting[v] /\ (starting[v].box = c => box' = box)
        BY <3>3 DEF Box
      <4>2. Near(d, starting[v])
        BY <2>1 DEF Quiet
      <4>3. starting[v].step \in {"home", "dirs"} => box'[starting[v].box] = box[starting[v].box]
        BY <1>6, <4>1
      <4> QED BY <4>1, <4>2, <4>3 DEF Near, UserOf
    <3> QED BY <3>1, <3>2, <3>3
  <2>5. ASSUME Busy(d)' = {} PROVE Done(d)'
    <3>1. Busy(d) = {}
      <4> SUFFICES ASSUME NEW v \in Starters, Box(v) = d PROVE FALSE
        BY DEF Busy
      <4>1. v # w
        BY <1>1, <2>1
      <4>2. Box(v)' = d
        BY <4>1 DEF Box
      <4> QED BY <2>5, <4>2 DEF Busy
    <3> QED BY <1>5, <2>1, <3>1 DEF Quiet, Done, UserOf
  <2>6. \A v, u \in Starters : Box(v)' = d /\ Box(u)' = d => v = u
    BY <2>1, <2>2 DEF Quiet
  <2> QED BY <2>3, <2>4, <2>5, <2>6 DEF Quiet
<1>9. \A d \in Boxes : Quiet(d)'
  BY <1>7, <1>8 DEF Quiet
<1>10. \A d \in Boxes : (d \notin Custom => box[d].home = "dev")'
  BY DEF AfterInv, Undisturbed
<1> QED BY <1>9, <1>10 DEF Undisturbed

\* A container is started as it is.
LEMMA BoxKeeps ==
  ASSUME AfterInv, NEW w \in Starters, NEW c \in Boxes, StartBox(w, c)
  PROVE  AfterInv'
<1>1. AfterTypeOK /\ BeginStart(w, c, box[c].mount)
  BY DEF AfterInv, StartBox
<1>2. UNCHANGED <<profiles, stored, box, files, marker, owner, filled, unsure, edits, troubles>>
  BY DEF StartBox, profileVars, volumeVars
<1>3. PICK r : r = [NoStart EXCEPT !.box = c, !.step = "home", !.profile = stored[c]]
  OBVIOUS
<1>4. /\ r \in StartType /\ r.box = c /\ r.step = "home" /\ r.profile = stored[c]
      /\ ~r.gone /\ ~r.removed /\ ~Syncs(r) /\ Started(r)
  BY <1>1, <1>3 DEF NoStart, NoFile, StartType, FileType, AfterTypeOK, Syncs, Started
<1>5. starting' = [starting EXCEPT ![w] = r]
  BY <1>3 DEF StartBox
<1>6. starting' \in [Starters -> StartType] /\ starting'[w] = r
      /\ \A v \in Starters \ {w} : starting'[v] = starting[v]
  BY <1>1, <1>4, <1>5 DEF AfterTypeOK
<1>7. runs' \in 0 .. MaxRuns /\ calm' \in [Boxes -> BOOLEAN] /\ starting[w] = NoStart
  <2>1. runs' \in 0 .. MaxRuns
    BY <1>1, AfterAssumption DEF BeginStart, AfterTypeOK
  <2>2. calm' \in [Boxes -> BOOLEAN]
    <3> QED BY <1>1 DEF BeginStart, AfterTypeOK
  <2>3. starting[w] = NoStart
    BY <1>1 DEF AfterInv, Marks, Started, BeginStart, At
  <2> QED BY <2>1, <2>2, <2>3
<1>8. AfterTypeOK'
  BY <1>1, <1>2, <1>6, <1>7 DEF AfterTypeOK
<1>9. Marks'
  <2>1. ~Syncs(starting[w]) /\ ~starting[w].removed
    BY <1>7 DEF Syncs, NoStart
  <2> QED BY <1>1, <1>2, <1>4, <1>5, <1>8, <2>1, EarlyKeeps DEF AfterInv
<1>10. Undisturbed'
  <2>1. box[c].mount \in Sets /\ (c \notin Custom => box[c].home = "dev")
    BY <1>1 DEF AfterTypeOK, BoxType, AfterInv, Undisturbed
  <2>2. \A v \in Starters \ {w} : Box(v) = c => starting'[v].box = c
    BY <1>6 DEF Box
  <2> QED BY <1>1, <1>2, <1>4, <1>6, <1>8, <2>1, <2>2, BeginKeepsCalm
<1> QED BY <1>8, <1>9, <1>10 DEF AfterInv

\* A container is replaced; what is at work in the old one is out of it.
LEMMA ReplaceKeeps ==
  ASSUME AfterInv, NEW w \in Starters, NEW c \in Boxes, NEW id \in Profiles \cup {Unset},
         Replace(w, c, id)
  PROVE  AfterInv'
<1>1. AfterTypeOK /\ BeginStart(w, c, SetOf(id))
  BY DEF AfterInv, Replace
<1>2. UNCHANGED <<profiles, files, marker, owner, filled, edits, troubles>>
  BY DEF Replace, volumeVars
<1>3. PICK r : r = [NoStart EXCEPT !.box = c, !.step = "home", !.profile = id]
  OBVIOUS
<1>4. /\ r \in StartType /\ r.box = c /\ r.step = "home" /\ r.profile = id
      /\ ~r.gone /\ ~r.removed /\ ~Syncs(r) /\ Started(r)
  BY <1>3 DEF NoStart, NoFile, StartType, FileType, Syncs, Started
<1>5. /\ starting \in [Starters -> StartType] /\ starting[w] = NoStart /\ Box(w) # c
      /\ box \in [Boxes -> BoxType] /\ box[c].mount \in Sets
  <2>1. starting[w] = NoStart
    BY <1>1 DEF AfterInv, Marks, Started, BeginStart, At
  <2>2. Box(w) # c
    BY <2>1, AfterAssumption, NoStartIs DEF Box
  <2> QED BY <1>1, <2>1, <2>2 DEF AfterTypeOK, BoxType
<1>6. PICK f : f = Fresh(c, id)
  OBVIOUS
<1>7. f \in BoxType /\ f.mount = SetOf(id) /\ (c \notin Custom => f.home = "dev")
  BY <1>1, <1>6, SettingsAre, NoStartIs DEF Fresh, BoxType, Owners
<1>8. /\ box' = [box EXCEPT ![c] = f] /\ stored' = [stored EXCEPT ![c] = id]
      /\ unsure' = [unsure EXCEPT ![box[c].mount] = @ \/ \E v \in Busy(c) : starting[v].removed]
  BY <1>6 DEF Replace
<1>9. /\ starting'[w] = r /\ DOMAIN starting' = Starters
      /\ starting' = [v \in Starters |-> starting'[v]]
      /\ \A v \in Starters \ {w} : starting'[v] =
           IF Box(v) = c THEN [starting[v] EXCEPT !.gone = TRUE, !.removed = FALSE] ELSE starting[v]
  BY <1>3 DEF Replace
<1>10. ASSUME NEW v \in Starters \ {w}, Box(v) = c
       PROVE  /\ starting'[v] \in StartType /\ starting'[v].box = c /\ starting'[v].gone
              /\ ~starting'[v].removed /\ starting'[v].step = starting[v].step
              /\ starting[v].step # "idle"
  <2>1. starting'[v] = [starting[v] EXCEPT !.gone = TRUE, !.removed = FALSE] /\ starting[v] \in StartType
    BY <1>5, <1>9, <1>10
  <2>2. starting[v].step # "idle"
    BY <1>10, AfterAssumption, NoStartIs DEF AfterInv, Marks, Started, Box
  <2> QED BY <1>10, <2>1, <2>2 DEF StartType, Box
<1>11. starting' \in [Starters -> StartType]
  <2>1. \A v \in Starters : starting'[v] \in StartType
    BY <1>4, <1>5, <1>9, <1>10
  <2> QED BY <1>9, <2>1
<1>12. runs' \in 0 .. MaxRuns /\ calm' \in [Boxes -> BOOLEAN]
  <2>1. runs' \in 0 .. MaxRuns
    BY <1>1, AfterAssumption DEF BeginStart, AfterTypeOK
  <2>2. calm' \in [Boxes -> BOOLEAN]
    BY <1>1 DEF BeginStart, AfterTypeOK
  <2> QED BY <2>1, <2>2
<1>13. /\ unsure' \in [Sets -> BOOLEAN] /\ \A s \in Sets : unsure[s] => unsure'[s]
       /\ \A v \in Starters : Box(v) = c /\ starting[v].removed => unsure'[box[c].mount]
  <2>1. unsure \in [Sets -> BOOLEAN]
    BY <1>1 DEF AfterTypeOK
  <2> QED BY <1>5, <1>8, <2>1 DEF Busy
<1>14. AfterTypeOK'
  <2>1. box' \in [Boxes -> BoxType] /\ stored' \in [Boxes -> Profiles \cup {Unset}]
    BY <1>1, <1>5, <1>7, <1>8 DEF AfterTypeOK
  <2> QED BY <1>1, <1>2, <1>11, <1>12, <1>13, <2>1 DEF AfterTypeOK
<1>15. \A v \in Starters : Started(starting[v]) /\ Present(starting[v])
  BY DEF AfterInv, Marks
<1>16. \A v \in Starters : Started(starting'[v])
  <2> SUFFICES ASSUME NEW v \in Starters PROVE Started(starting'[v])
    OBVIOUS
  <2>1. CASE v = w
    BY <1>4, <1>9, <2>1
  <2>2. CASE v # w /\ Box(v) # c
    BY <1>9, <1>15, <2>2
  <2>3. CASE v # w /\ Box(v) = c
    BY <1>10, <2>3 DEF Started
  <2> QED BY <2>1, <2>2, <2>3
<1>17. ASSUME NEW v \in Starters, Syncs(starting'[v])
       PROVE  /\ v # w /\ Box(v) # c /\ starting'[v] = starting[v] /\ Syncs(starting[v])
              /\ \A s \in Sets : On(starting[v], s)' <=> On(starting[v], s)
  <2>1. v # w /\ Box(v) # c /\ starting'[v] = starting[v]
    BY <1>4, <1>9, <1>10, <1>17 DEF Syncs
  <2>2. starting[v].box \in Boxes /\ starting[v].box # c
    BY <1>15, <1>17, <2>1 DEF Started, Syncs, Box
  <2> QED BY <1>5, <1>8, <1>17, <2>1, <2>2 DEF On
<1>18. Marks'
  <2>1. \A v \in Starters : Present(starting[v])'
    BY <1>2, <1>13, <1>15, <1>17 DEF Present, Syncs
  <2>2. Pairs'
    BY <1>13, <1>17 DEF AfterInv, Marks, Pairs, Syncs
  <2>3. Listed'
    <3> SUFFICES ASSUME NEW s \in Sets, ~(marker[s] \subseteq files[s]), ~unsure'[s]
                 PROVE  \E v \in Starters : starting'[v].removed /\ On(starting[v], s)'
      BY <1>2 DEF Listed
    <3>1. PICK v \in Starters : starting[v].removed /\ On(starting[v], s)
      BY <1>13 DEF AfterInv, Marks, Listed
    <3>2. Box(v) # c /\ v # w
      BY <1>5, <1>13, <3>1, NoStartIs DEF On, Box
    <3>3. starting'[v] = starting[v]
      BY <1>9, <3>2
    <3>4. Syncs(starting'[v])
      BY <1>15, <3>1, <3>3 DEF Started
    <3> QED BY <1>17, <3>1, <3>3, <3>4
  <2>4. \A v \in Starters : Started(starting[v])'
    BY <1>16 DEF Started, Syncs
  <2> QED BY <2>1, <2>2, <2>3, <2>4 DEF Marks
<1>19. Undisturbed'
  <2>1. SetOf(id) \in Sets
    BY <1>1, SettingsAre
  <2>2. \A d \in Boxes \ {c} : box'[d] = box[d] /\ stored'[d] = stored[d]
    BY <1>1, <1>5, <1>8 DEF AfterTypeOK
  <2>3. box'[c].mount = SetOf(id) /\ (c \notin Custom => box'[c].home = "dev") /\ stored'[c] = id
    BY <1>1, <1>5, <1>7, <1>8 DEF AfterTypeOK
  <2>4. \A v \in Starters \ {w} :
          /\ Box(v) # c => starting'[v] = starting[v]
          /\ Box(v) = c => starting'[v].box = c /\ starting'[v].gone
    BY <1>9, <1>10
  <2>5. UNCHANGED <<profiles, owner>> /\ BeginStart(w, c, SetOf(id))
    BY <1>1, <1>2
  <2>6. /\ starting'[w].box = c /\ starting'[w].step = "home" /\ ~starting'[w].gone
        /\ starting'[w].profile = stored'[c]
    BY <1>4, <1>9, <2>3
  <2> QED BY <1>14, <2>1, <2>2, <2>3, <2>4, <2>5, <2>6, BeginKeepsCalm
<1> QED BY <1>14, <1>18, <1>19 DEF AfterInv

\* The server dies: those it was at work on are disturbed, the others are furnished.
LEMMA DeathKeeps ==
  ASSUME AfterInv, Crash
  PROVE  AfterInv'
<1>1. /\ AfterTypeOK /\ UNCHANGED <<profiles, stored, box, files, marker, owner, filled, edits, runs>>
      /\ Troubled /\ Disturb({Box(w) : w \in Starters})
  BY DEF AfterInv, Crash, profileVars, volumeVars
<1>2. starting' = [w \in Starters |-> NoStart]
  BY DEF Crash
<1>3. \A w \in Starters : starting'[w] = NoStart
  BY <1>2
<1>4. /\ unsure' \in [Sets -> BOOLEAN] /\ \A s \in Sets : unsure[s] => unsure'[s]
      /\ \A w \in Starters, s \in Sets : starting[w].removed /\ On(starting[w], s) => unsure'[s]
  <2>1. unsure' = [s \in Sets |-> unsure[s] \/
          \E w \in Starters : ~At(w, "idle") /\ Volume(w) = s /\ starting[w].removed]
    BY DEF Crash
  <2>2. \A w \in Starters : starting[w].removed => ~At(w, "idle")
    BY DEF AfterInv, Marks, Started, Syncs, At
  <2>3. unsure \in [Sets -> BOOLEAN]
    BY <1>1 DEF AfterTypeOK
  <2> QED BY <2>1, <2>2, <2>3 DEF On, Volume, Box
<1>5. /\ calm' \in [Boxes -> BOOLEAN]
      /\ \A c \in Boxes : calm'[c] => calm[c] /\ c \notin {Box(w) : w \in Starters}
  BY <1>1, Disturbs
<1>6. AfterTypeOK'
  <2>1. starting' \in [Starters -> StartType]
    BY <1>2, NoStartIs
  <2>2. troubles' \in 0 .. MaxTroubles
    BY <1>1, AfterAssumption DEF Troubled, AfterTypeOK
  <2> QED BY <1>1, <1>4, <1>5, <2>1, <2>2 DEF AfterTypeOK
<1>7. Marks'
  <2>1. \A w \in Starters : ~Syncs(starting'[w]) /\ Started(starting'[w])
    BY <1>3, NoStartIs
  <2>2. \A w \in Starters : Started(starting[w])' /\ Present(starting[w])'
    BY <2>1 DEF Started, Present, Syncs
  <2>3. Pairs'
    BY <2>1 DEF Pairs, Syncs
  <2>4. Listed'
    BY <1>1, <1>4 DEF AfterInv, Marks, Listed
  <2> QED BY <2>2, <2>3, <2>4 DEF Marks
<1>8. ASSUME NEW c \in Boxes, calm'[c] PROVE Quiet(c)'
  <2>1. Quiet(c) /\ calm[c] /\ Busy(c) = {} /\ c # Unset
    BY <1>5, <1>8, AfterAssumption DEF AfterInv, Undisturbed, Busy
  <2>2. Done(c)'
    BY <1>1, <2>1 DEF Quiet, Done, Settings, UserOf
  <2>3. \A v \in Starters : Box(v)' # c /\ Near(c, starting[v])'
    BY <1>3, <2>1, NoStartIs DEF Box, Near
  <2> QED BY <2>2, <2>3 DEF Quiet
<1>9. Undisturbed'
  BY <1>1, <1>8 DEF AfterInv, Undisturbed, Quiet
<1> QED BY <1>6, <1>7, <1>9 DEF AfterInv

\* Every step of the system keeps the invariant.
LEMMA EveryKeeps ==
  ASSUME AfterInv, [AfterNext]_afterVars
  PROVE  AfterInv'
<1>1. ASSUME NEW w \in Starters, AfterStep(w) PROVE AfterInv'
  <2>1. CASE HomeWritable(w)
    BY <2>1, HomeKeeps
  <2>2. CASE AgentDirs(w)
    BY <2>2, DirsKeep
  <2>3. CASE ReadLabel(w)
    BY <2>3, LabelKeeps
  <2>4. CASE ApplySettings(w)
    BY <2>4, ApplyKeeps
  <2>5. CASE ReadMarker(w)
    BY <2>5, ReadKeeps
  <2>6. CASE ToMark(w)
    BY <2>6, ToMarkKeeps
  <2>7. CASE WriteMarker(w)
    BY <2>7, WriteKeeps
  <2>8. ASSUME NEW r \in Refs, InstallPlugin(w, r) \/ UninstallPlugin(w, r) PROVE AfterInv'
    BY <2>8, InstallKeeps, UninstallKeeps
  <2> QED BY <1>1, <2>1, <2>2, <2>3, <2>4, <2>5, <2>6, <2>7, <2>8 DEF AfterStep
<1>2. CASE UNCHANGED afterVars
  <2>1. UNCHANGED <<profiles, stored, box, files, marker, owner, filled, starting, calm, unsure,
                    edits, runs, troubles>>
    BY <1>2 DEF afterVars, profileVars, volumeVars, afterHistory, afterBounds
  <2>2. AfterTypeOK' /\ Marks'
    BY <2>1, SameMarks DEF AfterInv, AfterTypeOK
  <2>3. Undisturbed'
    <3>1. \A c \in Boxes : Settings(stored[c])' = Settings(stored[c])
      BY <2>1 DEF Settings
    <3> QED BY <2>1, <3>1, WorldKeepsCalm DEF AfterInv
  <2> QED BY <2>2, <2>3 DEF AfterInv
<1>3. ASSUME NEW w \in Starters, NEW c \in Boxes,
             StartBox(w, c) \/ \E id \in Profiles \cup {Unset} : Replace(w, c, id)
      PROVE  AfterInv'
  BY <1>3, BoxKeeps, ReplaceKeeps
<1> QED BY <1>1, <1>2, <1>3, EditKeeps, DeathKeeps DEF AfterNext, AfterRest

\* At first nothing was started.
LEMMA AfterFirst == AfterInit => AfterInv
<1> SUFFICES ASSUME AfterInit PROVE AfterInv
  OBVIOUS
<1>1. profiles \in [Profiles -> ProfileType] /\ stored \in [Boxes -> Profiles \cup {Unset}]
  BY AfterAssumption DEF AfterInit
<1>2. ASSUME NEW c \in Boxes PROVE Fresh(c, stored[c]) \in BoxType
  <2>1. stored[c] \in Profiles \cup {Unset}
    BY <1>1
  <2>2. SetOf(stored[c]) \in Sets
    <3>1. CASE stored[c] = Unset
      BY <3>1 DEF SetOf, Sets
    <3>2. CASE stored[c] \in Profiles /\ stored[c] # Unset
      BY <1>1, <3>2 DEF SetOf, Sets, ProfileType
    <3> QED BY <2>1, <3>1, <3>2
  <2> QED BY <2>1, <2>2, NoStartIs DEF Fresh, BoxType, Owners
<1>3. AfterTypeOK
  <2>1. box \in [Boxes -> BoxType]
    BY <1>2 DEF AfterInit
  <2>2. starting \in [Starters -> StartType]
    BY NoStartIs DEF AfterInit
  <2>3. owner \in [Sets -> Owners]
    BY DEF AfterInit, Owners
  <2> QED BY <1>1, <2>1, <2>2, <2>3, AfterAssumption DEF AfterInit, AfterTypeOK
<1>4. Marks
  <2>1. \A w \in Starters : starting[w] = NoStart
    BY DEF AfterInit
  <2>2. \A w \in Starters : Started(starting[w]) /\ ~Syncs(starting[w])
    BY <2>1, NoStartIs
  <2>3. Pairs
    BY <2>2 DEF Pairs
  <2>4. Listed
    BY DEF AfterInit, Listed
  <2> QED BY <2>2, <2>3, <2>4 DEF Marks, Present
<1>5. Undisturbed
  BY DEF AfterInit, Undisturbed, Quiet, Fresh
<1> QED BY <1>3, <1>4, <1>5 DEF AfterInv

\* So it always holds.
LEMMA AfterAlways == AfterSpec => []AfterInv
<1>1. AfterInv /\ [AfterNext]_afterVars => AfterInv'
  BY EveryKeeps
<1> QED BY <1>1, AfterFirst, PTL DEF AfterSpec

\* What the marker of a login volume lists is installed there (syncLocked records what
\* its commands installed, and writes the marker last), whatever fails, is retried or is
\* replaced on the way, but where that is known to be lost.
THEOREM MarkersTellTruth == AfterSpec => []MarkedIsThere
<1>1. AfterInv => MarkedIsThere
  BY DEF AfterInv, Marks, Listed, MarkedIsThere, On, Volume, Box
<1> QED BY <1>1, AfterAlways, PTL

\* afterStart brings a container what its definition says, the settings of its profile
\* and a volume of its user's, whatever goes on in other containers on that volume.
THEOREM StartsFurnish == AfterSpec => []Furnished
<1>1. AfterInv => Furnished
  BY DEF AfterInv, Undisturbed, Quiet, Done, Furnished
<1> QED BY <1>1, AfterAlways, PTL
=============================================================================
