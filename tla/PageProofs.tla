------------------------------ MODULE PageProofs ------------------------------
(***************************************************************************)
(* What the parts of the page keep true, for any number of hosts,          *)
(* containers, profiles, panes and requests, and any number of clicks and  *)
(* failures.  Each part has an invariant of its own: a step of another     *)
(* part leaves its variables alone.                                        *)
(***************************************************************************)
EXTENDS MCPage, TLAPS

\* What a variable begins with, also in a behaviour about another part.
LEMMA AmongIs ==
  ASSUME NEW p, NEW values, values # {}
  PROVE  Among(p, values) \subseteq values
BY DEF Among

-----------------------------------------------------------------------------
(* The files dialog.                                                       *)

FilesShape ==
  /\ filesModal \in {"hidden", "showing", "shown", "hiding"}
  /\ filesState = [name |-> filesState.name, dir |-> filesState.dir, busy |-> filesState.busy]
  /\ listings = [l \in Listings |-> listings[l]]
  /\ \A l \in Listings : listings[l] = [name |-> listings[l].name, dir |-> listings[l].dir]
  /\ screen = [name |-> screen.name, dir |-> screen.dir]
  /\ picks = [p \in Picks |-> picks[p]]
  /\ \A p \in Picks : picks[p] = [left |-> picks[p].left, to |-> picks[p].to, seen |-> picks[p].seen]
  /\ \A p \in Picks : picks[p] # NoPick => picks[p].left \in Nat \ {0}

\* what is listed is listed for this dialog, what is up is up for what it shows, and
\* never both
Heeded ==
  /\ \A l \in Listings : listings[l] # NoListing => listings[l].name = filesState.name
  /\ filesModal # "hidden" /\ screen # Nowhere => screen = Place
  /\ \A p \in Picks : picks[p] # NoPick =>
       /\ picks[p].to = Place /\ picks[p].seen = screen /\ NoneListed /\ Open(filesModal)
  /\ filesModal \in {"hiding", "hidden"} => NoneListed /\ NoneUp
  /\ filesState.name = "none" => NoneUp
  /\ \A p, q \in Picks : picks[p] # NoPick /\ picks[q] # NoPick => p = q
  /\ filesState.busy = FALSE => NoneUp

FilesInv == FilesShape /\ (heedful => Heeded)

\* what a listing that is asked for leaves
LoadedFor(name) ==
  /\ screen' = Nowhere
  /\ listings' = [l \in Listings |-> listings'[l]]
  /\ \A l \in Listings : listings'[l] = [name |-> listings'[l].name, dir |-> listings'[l].dir]
  /\ \A l \in Listings : listings'[l] = listings[l] \/ listings'[l].name = name

\* A listing is for the name it was asked with.
LEMMA LoadFilesIs ==
  ASSUME FilesShape, NEW name, NEW dir, LoadFiles(name, dir)
  PROVE  LoadedFor(name)
<1>1. CASE name = "none"
  BY <1>1 DEF LoadFiles, FilesShape, LoadedFor
<1>2. CASE name # "none"
  <2>1. PICK l \in Listings : listings' = [listings EXCEPT ![l] = [name |-> name, dir |-> dir]]
    BY <1>2 DEF LoadFiles
  <2> QED BY <1>2, <2>1 DEF LoadFiles, FilesShape, LoadedFor
<1> QED BY <1>1, <1>2

\* A pick that is none has nothing left.
LEMMA NoPickIs == NoPick.left = 0 /\ NoPick.seen = Nowhere /\ NoPick.to = Nowhere
BY DEF NoPick

\* Each step of the dialog.
LEMMA FilesKeeps ==
  ASSUME FilesInv, FilesNext
  PROVE  FilesInv'
<1>1. ASSUME NEW w \in Works, OpenFiles(w)
      PROVE  FilesInv'
  <2>0. LoadedFor(w)
    BY <1>1, LoadFilesIs DEF FilesInv, OpenFiles
  <2>1. FilesShape'
    BY <1>1, <2>0 DEF FilesInv, FilesShape, OpenFiles, Closed, Nowhere, LoadedFor
  <2>2. ASSUME heedful' PROVE Heeded'
    <3>1. NoneListed /\ NoneUp /\ NoneUp'
      BY <1>1, <2>2 DEF OpenFiles, NoneUp
    <3>2. filesState'.name = w /\ filesModal' = "showing" /\ screen' = Nowhere
      BY <1>1, <2>0 DEF OpenFiles, Closed, LoadedFor
    <3>3. \A l \in Listings : listings'[l] # NoListing => listings'[l].name = filesState'.name
      BY <2>0, <3>1, <3>2 DEF LoadedFor, NoneListed
    <3> QED BY <3>1, <3>2, <3>3 DEF Heeded, NoneUp, NoneListed, Nowhere, NoListing
  <2> QED BY <2>1, <2>2 DEF FilesInv
<1>2. ASSUME NEW d \in Dirs, GoTo(d)
      PROVE  FilesInv'
  <2>0. LoadedFor(filesState.name)
    BY <1>2, LoadFilesIs DEF FilesInv, GoTo
  <2>1. FilesShape'
    BY <1>2, <2>0 DEF FilesInv, FilesShape, GoTo, Nowhere, LoadedFor
  <2>2. ASSUME heedful' PROVE Heeded'
    <3>1. heedful /\ NoneUp /\ NoneUp'
      BY <1>2, <2>2 DEF GoTo, NoneUp
    <3>2. /\ filesState'.name = filesState.name /\ filesModal' = filesModal /\ screen' = Nowhere
          /\ Open(filesModal)
      BY <1>2, <2>0 DEF GoTo, FilesInv, FilesShape, LoadedFor
    <3>3. \A l \in Listings : listings'[l] # NoListing => listings'[l].name = filesState'.name
      BY <2>0, <3>1, <3>2 DEF LoadedFor, FilesInv, Heeded
    <3> QED BY <3>1, <3>2, <3>3 DEF Heeded, NoneUp, Open
  <2> QED BY <2>1, <2>2 DEF FilesInv
<1>3. ASSUME NEW l \in Listings, NEW ok \in BOOLEAN, Listed(l, ok)
      PROVE  FilesInv'
  <2>1. /\ listings' = [listings EXCEPT ![l] = NoListing]
        /\ UNCHANGED <<filesModal, picks, heedful>> /\ listings[l] # NoListing
        /\ filesState'.name = filesState.name /\ filesState'.busy = filesState.busy
        /\ filesState' = [name |-> filesState'.name, dir |-> filesState'.dir, busy |-> filesState'.busy]
        /\ \/ screen' = Nowhere
           \/ screen' = listings[l] /\ filesState'.dir = listings[l].dir
    BY <1>3 DEF Listed, FilesInv, FilesShape, DirOnceListed
  <2>2. FilesShape'
    BY <2>1 DEF FilesInv, FilesShape, NoListing, Nowhere
  <2>3. ASSUME heedful' PROVE Heeded'
    <3>1. Heeded
      BY <2>1, <2>3 DEF FilesInv
    <3>2. NoneUp /\ NoneUp' /\ filesModal' \notin {"hiding", "hidden"}
      BY <2>1, <3>1 DEF Heeded, NoneUp, NoneListed
    <3>3. screen' = Nowhere \/ screen' = Place'
      BY <2>1, <3>1 DEF Heeded, FilesInv, FilesShape, Place
    <3>4. \A m \in Listings : listings'[m] # NoListing => listings'[m].name = filesState'.name
      BY <2>1, <3>1 DEF Heeded, FilesInv, FilesShape
    <3> QED BY <3>2, <3>3, <3>4 DEF Heeded, NoneUp
  <2> QED BY <2>2, <2>3 DEF FilesInv
<1>4. ASSUME NEW p \in Picks, Uploaded(p)
      PROVE  FilesInv'
  <2>1. picks[p] # NoPick /\ UNCHANGED <<filesModal, heedful>> /\ picks[p].left \in Nat \ {0}
    BY <1>4 DEF Uploaded, FilesInv, FilesShape
  <2>2. CASE picks[p].left > 1
    <3>1. picks' = [picks EXCEPT ![p].left = @ - 1, ![p].to = Place]
          /\ UNCHANGED <<filesState, screen, listings>>
      BY <1>4, <2>2 DEF Uploaded
    <3>2. PICK r : r = [left |-> picks[p].left - 1, to |-> Place, seen |-> picks[p].seen]
      OBVIOUS
    <3>3. picks' = [picks EXCEPT ![p] = r]
      <4>1. PICK k : k = picks[p]
        OBVIOUS
      <4>2. k = [left |-> k.left, to |-> k.to, seen |-> k.seen]
        BY <4>1 DEF FilesInv, FilesShape
      <4>3. [k EXCEPT !.left = @ - 1, !.to = Place] = r
        <5>1. PICK to : to = Place
          OBVIOUS
        <5>2. PICK a, b, c : a = k.left /\ b = k.to /\ c = k.seen
          OBVIOUS
        <5>3. k = [left |-> a, to |-> b, seen |-> c]
          BY <4>2, <5>2
        <5>4. PICK m : m = [k EXCEPT !.left = @ - 1]
          OBVIOUS
        <5>6. m = [left |-> a - 1, to |-> b, seen |-> c]
          BY <5>3, <5>4
        <5>7. [m EXCEPT !.to = to] = [left |-> a - 1, to |-> to, seen |-> c]
          BY <5>6
        <5>5. r = [left |-> a - 1, to |-> to, seen |-> c]
          BY <3>2, <4>1, <5>1, <5>2
        <5> QED BY <5>1, <5>4, <5>5, <5>7
      <4>4. picks' = [picks EXCEPT ![p] = [k EXCEPT !.left = @ - 1, !.to = Place]]
        BY <3>1, <4>1 DEF FilesInv, FilesShape
      <4> QED BY <4>3, <4>4
    <3>4. r.left \in Nat \ {0} /\ r # NoPick
      BY <2>1, <2>2, <3>2, NoPickIs
    <3>5. FilesShape'
      BY <2>1, <3>1, <3>2, <3>3, <3>4 DEF FilesInv, FilesShape
    <3>6. ASSUME heedful' PROVE Heeded'
      <4>1. Heeded
        BY <2>1, <3>6 DEF FilesInv
      <4>2. \A q \in Picks : picks'[q] # NoPick => q = p
        BY <2>1, <3>3, <4>1 DEF FilesInv, FilesShape, Heeded
      <4>3. picks'[p].to = Place' /\ picks'[p].seen = screen'
        BY <2>1, <3>1, <3>2, <3>3, <4>1 DEF FilesInv, FilesShape, Heeded, Place
      <4>4. NoneListed' /\ Open(filesModal)' /\ filesState.name # "none" /\ filesState.busy # FALSE
        BY <2>1, <3>1, <4>1 DEF Heeded, NoneListed, NoneUp, Open
      <4> QED BY <2>1, <3>1, <4>1, <4>2, <4>3, <4>4 DEF Heeded, Open, Place, NoneListed
    <3> QED BY <3>5, <3>6 DEF FilesInv
  <2>3. CASE ~(picks[p].left > 1)
    <3>1. /\ picks' = [picks EXCEPT ![p] = NoPick]
          /\ filesState' = [filesState EXCEPT !.busy = FALSE]
          /\ IF filesState.name = "none" THEN UNCHANGED <<screen, listings>>
             ELSE LoadFiles(filesState.name, filesState.dir)
      BY <1>4, <2>3 DEF Uploaded
    <3>2. /\ filesState'.name = filesState.name /\ filesState'.dir = filesState.dir
          /\ filesState' = [name |-> filesState'.name, dir |-> filesState'.dir, busy |-> FALSE]
      BY <3>1 DEF FilesInv, FilesShape
    <3>3. FilesShape'
      <4>1. CASE filesState.name = "none"
        BY <2>1, <3>1, <3>2, <4>1 DEF FilesInv, FilesShape, NoPick
      <4>2. CASE filesState.name # "none"
        <5>1. LoadedFor(filesState.name)
          BY <3>1, <4>2, LoadFilesIs DEF FilesInv
        <5> QED BY <2>1, <3>1, <3>2, <5>1 DEF FilesInv, FilesShape, NoPick, Nowhere, LoadedFor
      <4> QED BY <4>1, <4>2
    <3>4. ASSUME heedful' PROVE Heeded'
      <4>1. Heeded
        BY <2>1, <3>4 DEF FilesInv
      <4>2. NoneUp'
        BY <2>1, <3>1, <4>1 DEF FilesInv, FilesShape, Heeded, NoneUp
      <4>3. filesState.name # "none" /\ NoneListed /\ Open(filesModal)
        BY <2>1, <4>1 DEF Heeded, NoneUp
      <4>4. LoadedFor(filesState.name)
        BY <3>1, <4>3, LoadFilesIs DEF FilesInv
      <4>5. /\ screen' = Nowhere
            /\ \A l \in Listings : listings'[l] # NoListing => listings'[l].name = filesState'.name
        BY <3>2, <4>3, <4>4 DEF LoadedFor, NoneListed
      <4> QED BY <2>1, <4>2, <4>3, <4>5 DEF Heeded, NoneUp, Open
    <3> QED BY <3>3, <3>4 DEF FilesInv
  <2> QED BY <2>2, <2>3
<1>5. ASSUME NEW p \in Picks, NEW n \in 1 .. MaxFiles, PickFiles(p, n)
      PROVE  FilesInv'
  <2>1. PICK r : r = [left |-> n, to |-> Place, seen |-> screen]
    OBVIOUS
  <2>2. /\ picks' = [picks EXCEPT ![p] = r] /\ picks[p] = NoPick
        /\ UNCHANGED <<filesModal, screen, listings>>
        /\ filesState' = [filesState EXCEPT !.busy = TRUE]
        /\ Open(filesModal) /\ filesState.name # "none" /\ ~filesState.busy
    BY <1>5, <2>1 DEF PickFiles
  <2>3. r.left \in Nat \ {0}
    BY <2>1
  <2>4. FilesShape'
    BY <2>1, <2>2, <2>3 DEF FilesInv, FilesShape
  <2>5. ASSUME heedful' PROVE Heeded'
    <3>1. heedful /\ NoneListed /\ Heeded
      BY <1>5, <2>5 DEF PickFiles, FilesInv
    <3>2. filesState'.name = filesState.name /\ filesState'.dir = filesState.dir /\ filesState'.busy
      BY <2>2 DEF FilesInv, FilesShape
    <3>3. NoneUp
      BY <2>2, <3>1 DEF Heeded
    <3>4. \A q \in Picks : picks'[q] # NoPick => q = p
      BY <2>2, <3>3 DEF NoneUp, FilesInv, FilesShape
    <3>5. picks'[p].to = Place' /\ picks'[p].seen = screen' /\ Place' = Place
      BY <2>1, <2>2, <3>2 DEF FilesInv, FilesShape, Place
    <3>6. NoneListed' /\ Open(filesModal)'
      BY <2>2, <3>1 DEF NoneListed
    <3> QED BY <2>2, <3>1, <3>2, <3>4, <3>5, <3>6 DEF Heeded, Open
  <2> QED BY <2>4, <2>5 DEF FilesInv
<1>6. CASE CloseFiles
  <2>1. FilesShape'
    BY <1>6 DEF FilesInv, FilesShape, CloseFiles
  <2>2. ASSUME heedful' PROVE Heeded'
    BY <1>6, <2>2 DEF CloseFiles, FilesInv, Heeded, NoneListed, NoneUp, Place
  <2> QED BY <2>1, <2>2 DEF FilesInv
<1>7. CASE FilesModalSettles
  <2>1. FilesShape'
    BY <1>7 DEF FilesInv, FilesShape, FilesModalSettles, Closed
  <2>2. ASSUME heedful' PROVE Heeded'
    <3>1. CASE filesModal = "showing"
      BY <1>7, <2>2, <3>1 DEF FilesModalSettles, FilesInv, Heeded, NoneListed, NoneUp, Place, Open
    <3>2. CASE filesModal = "hiding"
      BY <1>7, <2>2, <3>2 DEF FilesModalSettles, FilesInv, Heeded, NoneListed, NoneUp
    <3> QED BY <1>7, <3>1, <3>2 DEF FilesModalSettles
  <2> QED BY <2>1, <2>2 DEF FilesInv
<1> QED BY <1>1, <1>2, <1>3, <1>4, <1>5, <1>6, <1>7 DEF FilesNext

\* Who picks files when a listing has come, and leaves the dialog open, has them where it
\* showed: uploadFiles() looks the place up for each file, but nothing else moves it
\* (web/public/js/containers.js: loadFiles, uploadFiles, hidden.bs.modal).
THEOREM UploadsLandThere == PageSpec => []UploadsLand
<1>1. PageInit => FilesInv
  BY DEF PageInit, FilesInit, FilesInv, FilesShape, Heeded, Closed, Nowhere, NoPick, NoListing,
         NoneListed, NoneUp, Open
<1>2. FilesInv /\ [PageNext]_allVars => FilesInv'
  <2> SUFFICES ASSUME FilesInv, [PageNext]_allVars PROVE FilesInv'
    OBVIOUS
  <2>1. CASE UNCHANGED filesOwn
    BY <2>1 DEF filesOwn, FilesInv, FilesShape, Heeded, Place, NoneListed, NoneUp, Open
  <2>2. CASE FilesNext
    BY <2>2, FilesKeeps
  <2> QED BY <2>1, <2>2 DEF PageNext, allVars, pageOwn
<1>3. FilesInv => UploadsLand
  BY NoPickIs DEF FilesInv, Heeded, UploadsLand, Open
<1> QED BY <1>1, <1>2, <1>3, PTL DEF PageSpec
-----------------------------------------------------------------------------
(* The login modal.                                                        *)

Modals == {"hidden", "showing", "shown", "hiding"}

\* while the page asks who is signed in, nothing else has begun
Booting ==
  starting["boot"] = "me" =>
    /\ modal = "hidden" /\ wanted = FALSE /\ wired = FALSE /\ viewsReady = FALSE
    /\ submitting = FALSE /\ leaving = FALSE /\ verifying = "none" /\ timer = FALSE
    /\ \A l \in Lists : lists[l] = Idle
    /\ \A s \in Starters : s # "boot" => starting[s] = "none"

ShellInv ==
  /\ modal \in Modals
  /\ wanted \in BOOLEAN
  /\ starting = [s \in Starters |-> starting[s]]
  /\ LoginFollows
  /\ Booting

\* what a step leaves of the modal and of what the page wants
ModalKept == modal' \in Modals /\ wanted' \in BOOLEAN /\ LoginFollows'

\* Who is told that there is no login gets the modal, or has it on its way.
LEMMA ShowLoginShows ==
  ASSUME modal \in Modals, ShowLogin
  PROVE  ModalKept
<1>1. wanted' = TRUE /\ modal' = Synced(modal, TRUE)
  BY DEF ShowLogin
<1>2. Synced(modal, TRUE) \in {"showing", "hiding", "shown"}
  BY DEF Synced, Modals
<1> QED BY <1>1, <1>2 DEF ModalKept, LoginFollows, Modals, Moving

\* A 401 that is heeded shows the modal, another one leaves it.
LEMMA AuthRequiredShows ==
  ASSUME ShellInv, AuthRequired
  PROVE  ModalKept
<1>1. CASE wanted
  BY <1>1 DEF AuthRequired, ShellInv, ModalKept, LoginFollows, Moving
<1>2. CASE ~wanted
  BY <1>2, ShowLoginShows DEF AuthRequired, ShellInv
<1> QED BY <1>1, <1>2

\* A step that keeps the modal, with somebody past the boot, keeps the whole.
LEMMA BootedKeeps ==
  ASSUME ShellInv, ModalKept, starting' = [s \in Starters |-> starting'[s]],
         starting'["boot"] # "me"
  PROVE  ShellInv'
BY DEF ShellInv, ModalKept, Booting

\* Each step of the shell.
LEMMA ShellKeeps ==
  ASSUME ShellInv, ShellNext
  PROVE  ShellInv'
<1> USE ShellAssumption
<1>0. ASSUME UNCHANGED <<modal, wanted>> PROVE ModalKept
  BY <1>0 DEF ShellInv, ModalKept, LoginFollows, Moving
<1>1. CASE TransitionEnds
  <2>1. starting["boot"] # "me"
    BY <1>1 DEF TransitionEnds, ShellInv, Booting, Moving
  <2>2. modal' = Synced(IF modal = "showing" THEN "shown" ELSE "hidden", wanted) /\ wanted' = wanted
        /\ starting' = starting
    BY <1>1 DEF TransitionEnds, Settle
  <2>3. ModalKept
    <3>1. CASE modal = "showing"
      BY <2>2, <3>1 DEF Synced, ModalKept, LoginFollows, Moving, Modals, ShellInv
    <3>2. CASE modal # "showing"
      BY <2>2, <3>2 DEF Synced, ModalKept, LoginFollows, Moving, Modals, ShellInv
    <3> QED BY <3>1, <3>2
  <2> QED BY <2>1, <2>2, <2>3, BootedKeeps DEF ShellInv
<1>2. ASSUME NEW l \in Lists, ServeList(l)
      PROVE  ShellInv'
  <2>1. lists[l] # Idle /\ UNCHANGED <<modal, wanted, starting>>
    BY <1>2 DEF ServeList, Idle, loginVars
  <2>2. starting["boot"] # "me"
    BY <2>1 DEF ShellInv, Booting
  <2> QED BY <1>0, <2>1, <2>2, BootedKeeps DEF ShellInv
<1>3. ASSUME NEW l \in Lists, DeliverList(l)
      PROVE  ShellInv'
  <2>1. lists[l] # Idle /\ UNCHANGED starting
    BY <1>3 DEF DeliverList, Idle
  <2>2. starting["boot"] # "me"
    BY <2>1 DEF ShellInv, Booting
  <2>3. ShowLogin \/ UNCHANGED <<modal, wanted>>
    BY <1>3 DEF DeliverList
  <2>4. ModalKept
    BY <1>0, <2>3, ShowLoginShows DEF ShellInv
  <2> QED BY <2>1, <2>2, <2>4, BootedKeeps DEF ShellInv
<1>4. ASSUME NEW l \in Lists, ListFails(l)
      PROVE  ShellInv'
  <2>1. lists[l] # Idle /\ UNCHANGED <<modal, wanted, starting>>
    BY <1>4 DEF ListFails, Idle, loginVars
  <2>2. starting["boot"] # "me"
    BY <2>1 DEF ShellInv, Booting
  <2> QED BY <1>0, <2>1, <2>2, BootedKeeps DEF ShellInv
<1>5. CASE Tick \/ Refresh
  <2>1. (timer = TRUE \/ viewsReady = TRUE \/ starting["boot"] # "me") /\ UNCHANGED <<modal, wanted, starting>>
    BY <1>5 DEF Tick, Refresh, loginVars, ShellInv, Booting
  <2>2. starting["boot"] # "me"
    BY <2>1 DEF ShellInv, Booting
  <2> QED BY <1>0, <2>1, <2>2, BootedKeeps DEF ShellInv
<1>6. ASSUME NEW s \in Starters, LoadSettings(s) \/ LoadGlobals(s)
      PROVE  ShellInv'
  <2>1. PICK from \in {"settings", "globals"}, to \in {"globals", "inits", "views"} : Load(s, from, to)
    BY <1>6 DEF LoadSettings, LoadGlobals
  <2>2. starting[s] \in {"settings", "globals"} /\ starting' = [starting EXCEPT ![s] = to]
        /\ (AuthRequired \/ UNCHANGED <<modal, wanted>>)
    BY <2>1 DEF Load
  <2>3. starting["boot"] # "me"
    BY <2>2 DEF ShellInv, Booting
  <2>4. ModalKept
    BY <1>0, <2>2, AuthRequiredShows
  <2>5. starting' = [r \in Starters |-> starting'[r]] /\ starting'["boot"] # "me"
    BY <2>1, <2>2, <2>3 DEF ShellInv
  <2> QED BY <2>4, <2>5, BootedKeeps
<1>7. ASSUME NEW s \in Starters, ViewsReady(s)
      PROVE  ShellInv'
  <2>1. starting[s] \in {"inits", "views"} /\ starting' = [starting EXCEPT ![s] = "none"]
        /\ UNCHANGED <<modal, wanted>>
    BY <1>7 DEF ViewsReady
  <2>2. starting["boot"] # "me"
    BY <2>1 DEF ShellInv, Booting
  <2>3. starting' = [r \in Starters |-> starting'[r]] /\ starting'["boot"] # "me"
    BY <2>1, <2>2 DEF ShellInv
  <2> QED BY <1>0, <2>1, <2>3, BootedKeeps
<1>8. ASSUME NEW right \in BOOLEAN, LoginAnswered(right)
      PROVE  ShellInv'
  <2>1. starting["boot"] # "me"
    BY <1>8 DEF LoginAnswered, ShellInv, Booting
  <2>2. CASE right
    <3>1. starting' = [starting EXCEPT !["login"] = "settings"] /\ wanted' = FALSE
          /\ modal' = Synced(modal, FALSE)
      BY <1>8, <2>2 DEF LoginAnswered, StartApp
    <3>2. Synced(modal, FALSE) \in {"hidden", "showing", "hiding"}
      BY DEF Synced, ShellInv, Modals
    <3>3. ModalKept
      BY <3>1, <3>2 DEF ModalKept, LoginFollows, Modals, Moving
    <3>4. starting' = [r \in Starters |-> starting'[r]] /\ starting'["boot"] # "me"
      BY <2>1, <3>1 DEF ShellInv
    <3> QED BY <3>3, <3>4, BootedKeeps
  <2>3. CASE ~right
    BY <1>0, <1>8, <2>1, <2>3, BootedKeeps DEF LoginAnswered, ShellInv
  <2> QED BY <2>2, <2>3
<1>9. ASSUME NEW ok \in BOOLEAN, LogoutAnswered(ok)
      PROVE  ShellInv'
  <2>1. starting["boot"] # "me"
    BY <1>9 DEF LogoutAnswered, ShellInv, Booting
  <2>2. ShowLogin /\ UNCHANGED starting
    BY <1>9 DEF LogoutAnswered
  <2> QED BY <2>1, <2>2, ShowLoginShows, BootedKeeps DEF ShellInv
<1>10. CASE MeAnswered
  <2>1. starting["boot"] # "me"
    BY <1>10 DEF MeAnswered, ShellInv, Booting
  <2>2. UNCHANGED starting /\ (AuthRequired \/ UNCHANGED <<modal, wanted>>)
    BY <1>10 DEF MeAnswered
  <2>3. ModalKept
    BY <1>0, <2>2, AuthRequiredShows
  <2> QED BY <2>1, <2>2, <2>3, BootedKeeps DEF ShellInv
<1>11. ASSUME NEW me \in BOOLEAN, Boot(me)
       PROVE  ShellInv'
  <2>1. starting["boot"] = "me" /\ modal = "hidden"
    BY <1>11 DEF Boot, ShellInv, Booting
  <2>2. CASE me
    <3>1. starting' = [starting EXCEPT !["boot"] = "settings"] /\ wanted' = FALSE /\ modal' = modal
      BY <1>11, <2>2 DEF Boot, StartApp
    <3>2. ModalKept
      BY <2>1, <3>1 DEF ModalKept, LoginFollows, Modals
    <3>3. starting' = [r \in Starters |-> starting'[r]] /\ starting'["boot"] # "me"
      BY <3>1 DEF ShellInv
    <3> QED BY <3>2, <3>3, BootedKeeps
  <2>3. CASE ~me
    <3>1. starting' = [starting EXCEPT !["boot"] = "none"] /\ ShowLogin
      BY <1>11, <2>3 DEF Boot
    <3>2. starting' = [r \in Starters |-> starting'[r]] /\ starting'["boot"] # "me"
      BY <3>1 DEF ShellInv
    <3> QED BY <3>1, <3>2, ShowLoginShows, BootedKeeps DEF ShellInv
  <2> QED BY <2>2, <2>3
<1>12. CASE SubmitLogin \/ Logout \/ ChangePassword \/ \E refused \in BOOLEAN : PasswordAnswered(refused)
  <2>1. starting["boot"] # "me"
    BY <1>12 DEF SubmitLogin, Logout, ChangePassword, PasswordAnswered, ShellInv, Booting
  <2>2. UNCHANGED <<modal, wanted, starting>>
    BY <1>12 DEF SubmitLogin, Logout, ChangePassword, PasswordAnswered
  <2> QED BY <1>0, <2>1, <2>2, BootedKeeps DEF ShellInv
<1>13. CASE TickSkips \/ LoginEnds \/ ListChanges \/ LookAway
  <2>1. UNCHANGED <<wanted, modal, starting, wired, viewsReady, submitting, leaving, verifying, timer, lists>>
    BY <1>13 DEF TickSkips, LoginEnds, ListChanges, LookAway, shellVars, loginVars, pollVars
  <2> QED BY <2>1 DEF ShellInv, LoginFollows, Booting, Moving
<1> QED BY <1>1, <1>2, <1>3, <1>4, <1>5, <1>6, <1>7, <1>8, <1>9, <1>10, <1>11, <1>12, <1>13
        DEF ShellNext, ShellPage

\* Whenever the login modal stands still it is there exactly when the page has no login
\* (web/public/js/app.js: syncLoginModal, showLogin, startApp, and every 401).
THEOREM LoginModalFollows == PageSpec => []LoginFollows
<1>1. PageInit => ShellInv
  <2> SUFFICES ASSUME PageInit PROVE ShellInv
    OBVIOUS
  <2> QED BY ShellAssumption
          DEF PageInit, ShellInit, ShellInv, LoginFollows, Booting, Moving, Modals
<1>2. ShellInv /\ [PageNext]_allVars => ShellInv'
  <2> SUFFICES ASSUME ShellInv, [PageNext]_allVars PROVE ShellInv'
    OBVIOUS
  <2>1. CASE UNCHANGED shellOwn
    BY <2>1 DEF shellOwn, loginVars, pollVars, ShellInv, LoginFollows, Booting, Moving
  <2>2. CASE ShellNext
    BY <2>2, ShellKeeps
  <2> QED BY <2>1, <2>2 DEF PageNext, allVars, pageOwn
<1>3. ShellInv => LoginFollows
  BY DEF ShellInv
<1> QED BY <1>1, <1>2, <1>3, PTL DEF PageSpec
-----------------------------------------------------------------------------
(* The forms of hosts and credentials.                                     *)

DialogShape ==
  /\ stored = [h \in HostIds |-> stored[h]]
  /\ hostForm = [host |-> hostForm.host, cred |-> hostForm.cred, options |-> hostForm.options,
                 previous |-> hostForm.previous, from |-> hostForm.from, putBack |-> hostForm.putBack]
  /\ importModal \in {"hidden", "showing", "shown", "hiding"}
  /\ asks = [e \in Asks |-> asks[e]]
  /\ \A e \in Asks : asks[e] # NoAsk => asks[e].form \in {"host", "import"}

\* what the select of a form offers, and what is on its way to it, is of the credential
\* the form shows, if it shows one and was not put back to it; so is what was sent
Unmixed ==
  /\ \A h \in HostIds : stored[h].from = stored[h].cred \/ stored[h].putBack = TRUE
  /\ hostForm.cred # None => hostForm.from \in {None, hostForm.cred} \/ hostForm.putBack = TRUE
  /\ \A e \in Asks :
       asks[e] # NoAsk /\ asks[e].form = "host" =>
         hostForm.cred \in {None, asks[e].cred} \/ hostForm.putBack = TRUE
  /\ savingHost.on = TRUE => savingHost.cred = savingHost.from \/ savingHost.putBack = TRUE
  /\ importModal # "hidden" =>
       /\ importList \in {None, importingCredential}
       /\ \A e \in Asks :
            asks[e] # NoAsk /\ asks[e].form = "import" => asks[e].cred = importingCredential

DialogInv == DialogShape /\ (unhurried => Unmixed)

\* A list that is asked for takes a free slot beside those in waiting.
LEMMA AskShape ==
  ASSUME NEW waiting, waiting = [e \in Asks |-> waiting[e]],
         \A e \in Asks : waiting[e] # NoAsk => waiting[e].form \in {"host", "import"},
         NEW whose \in {"host", "import"}, NEW k, AskBeside(waiting, whose, k)
  PROVE  /\ asks' = [e \in Asks |-> asks'[e]]
         /\ \A e \in Asks : asks'[e] # NoAsk => asks'[e].form \in {"host", "import"}
<1>1. PICK e \in Asks : asks' = [waiting EXCEPT ![e] = [form |-> whose, cred |-> k]]
  BY DEF AskBeside
<1> QED BY <1>1

\* Of a form that waited for none, one list is on its way; the other form waits as before.
LEMMA AskAlone ==
  ASSUME NEW waiting, waiting = [e \in Asks |-> waiting[e]], NEW whose, NEW k,
         AskBeside(waiting, whose, k), \A e \in Asks : waiting[e].form # whose
  PROVE  \A e \in Asks : asks'[e] # NoAsk =>
           \/ asks'[e].form = whose /\ asks'[e].cred = k
           \/ asks'[e].form # whose /\ asks'[e] = waiting[e]
<1>1. PICK e \in Asks : asks' = [waiting EXCEPT ![e] = [form |-> whose, cred |-> k]]
  BY DEF AskBeside
<1> QED BY <1>1

\* What holds of the forms when the select of the host form has just been emptied, and at
\* most one list is on its way to it.
LEMMA AloneUnmixed ==
  ASSUME Unmixed, UNCHANGED <<stored, savingHost, importModal, importingCredential, importList>>,
         NEW k,
         \A e \in Asks : asks'[e] # NoAsk =>
           \/ asks'[e].form = "host" /\ asks'[e].cred = k
           \/ asks'[e].form # "host" /\ asks'[e] = asks[e],
         hostForm'.from = None, hostForm'.cred \in {None, k}
  PROVE  Unmixed'
<1>1. \A e \in Asks :
        asks'[e] # NoAsk /\ asks'[e].form = "host" => hostForm'.cred \in {None, asks'[e].cred}
  OBVIOUS
<1>2. \A e \in Asks :
        asks'[e] # NoAsk /\ asks'[e].form = "import" => asks[e] # NoAsk /\ asks'[e] = asks[e]
  OBVIOUS
<1>3. (\A i \in HostIds : stored[i].from = stored[i].cred \/ stored[i].putBack = TRUE)'
  BY DEF Unmixed
<1> QED BY <1>1, <1>2, <1>3 DEF Unmixed

\* Each step of the forms.
LEMMA DialogKeeps ==
  ASSUME DialogInv, DialogNext
  PROVE  DialogInv'
<1>1. ASSUME NEW e \in Asks, NEW ok \in BOOLEAN, Endpoints(e, ok)
      PROVE  DialogInv'
  <2>1. PICK from : from = IF ok THEN asks[e].cred ELSE None
    OBVIOUS
  <2>2. /\ asks[e] # NoAsk /\ asks' = [asks EXCEPT ![e] = NoAsk]
        /\ UNCHANGED <<stored, importModal, importingCredential, savingHost, unhurried>>
        /\ IF asks[e].form = "host"
           THEN hostForm' = [hostForm EXCEPT !.from = from] /\ UNCHANGED importList
           ELSE importList' = from /\ UNCHANGED hostForm
    BY <1>1, <2>1 DEF Endpoints
  <2>3. hostForm' = [host |-> hostForm.host, cred |-> hostForm.cred, options |-> hostForm.options,
                     previous |-> hostForm.previous, from |-> hostForm'.from,
                     putBack |-> hostForm.putBack]
    BY <2>2 DEF DialogInv, DialogShape
  <2>4. DialogShape'
    BY <2>2, <2>3 DEF DialogInv, DialogShape, NoAsk
  <2>5. ASSUME unhurried' PROVE Unmixed'
    <3>1. Unmixed
      BY <2>2, <2>5 DEF DialogInv
    <3>2. \A a \in Asks : asks'[a] # NoAsk => asks'[a] = asks[a] /\ asks[a] # NoAsk
      BY <2>2 DEF DialogInv, DialogShape
    <3>3. CASE asks[e].form = "host"
      <4>1. /\ hostForm'.cred = hostForm.cred /\ hostForm'.putBack = hostForm.putBack
            /\ hostForm'.from = from /\ UNCHANGED importList
        BY <2>2, <3>3 DEF DialogInv, DialogShape
      <4>2. hostForm'.cred # None =>
              hostForm'.from \in {None, hostForm'.cred} \/ hostForm'.putBack = TRUE
        BY <2>1, <2>2, <3>1, <3>3, <4>1 DEF Unmixed
      <4> QED BY <2>2, <3>1, <3>2, <4>1, <4>2 DEF Unmixed
    <3>4. CASE asks[e].form # "host"
      <4>1. asks[e].form = "import" /\ importList' = from /\ UNCHANGED hostForm
        BY <2>2, <3>4 DEF DialogInv, DialogShape
      <4>2. importModal # "hidden" => importList' \in {None, importingCredential}
        BY <2>1, <2>2, <3>1, <4>1 DEF Unmixed
      <4> QED BY <2>2, <3>1, <3>2, <4>1, <4>2 DEF Unmixed
    <3> QED BY <3>3, <3>4
  <2> QED BY <2>4, <2>5 DEF DialogInv
<1>2. ASSUME NEW h \in HostIds \cup {None}, OpenHostModal(h)
      PROVE  DialogInv'
  <2>1. PICK k : k = IF h = None THEN None ELSE stored[h].cred
    OBVIOUS
  <2>2. /\ hostForm' = [host |-> h, cred |-> IF k \in listed THEN k ELSE None, options |-> listed,
                        previous |-> IF k \in listed THEN k ELSE None, from |-> None,
                        putBack |-> FALSE]
        /\ IF k = None THEN asks' = Detached ELSE AskBeside(Detached, "host", k)
        /\ UNCHANGED <<stored, importModal, importingCredential, importList, savingHost, unhurried>>
    BY <1>2, <2>1 DEF OpenHostModal, importVars
  <2>3. /\ Detached = [e \in Asks |-> Detached[e]]
        /\ \A e \in Asks : Detached[e].form # "host"
        /\ \A e \in Asks : Detached[e] # NoAsk => Detached[e] = asks[e]
    BY DEF Detached, NoAsk, None
  <2>4. DialogShape'
    <3>1. \A e \in Asks : Detached[e] # NoAsk => Detached[e].form \in {"host", "import"}
      BY <2>3 DEF DialogInv, DialogShape
    <3> QED BY <2>2, <2>3, <3>1, AskShape DEF DialogInv, DialogShape
  <2>5. ASSUME unhurried' PROVE Unmixed'
    <3>1. Unmixed
      BY <2>2, <2>5 DEF DialogInv
    <3>2. hostForm'.cred \in {None, k} /\ hostForm'.from = None
      BY <2>2
    <3>3. \A e \in Asks : asks'[e] # NoAsk =>
            \/ asks'[e].form = "host" /\ asks'[e].cred = k
            \/ asks'[e].form # "host" /\ asks'[e] = asks[e]
      <4>1. CASE k = None
        BY <2>2, <2>3, <4>1
      <4>2. CASE k # None
        BY <2>2, <2>3, <4>2, AskAlone
      <4> QED BY <4>1, <4>2
    <3> QED BY <2>2, <3>1, <3>2, <3>3, AloneUnmixed
  <2> QED BY <2>4, <2>5 DEF DialogInv
<1>3. ASSUME NEW k \in CredIds \cup {None}, PickCredential(k)
      PROVE  DialogInv'
  <2>1. /\ hostForm' = [hostForm EXCEPT !.cred = k, !.previous = k, !.putBack = FALSE, !.from = None]
        /\ IF k = None THEN UNCHANGED <<asks, unhurried>> ELSE Ask("host", k)
        /\ UNCHANGED <<stored, importModal, importingCredential, importList, savingHost>>
    BY <1>3 DEF PickCredential, FillEndpointSelect, Blank, importVars
  <2>2. hostForm' = [host |-> hostForm.host, cred |-> k, options |-> hostForm.options,
                     previous |-> k, from |-> None, putBack |-> FALSE]
    BY <2>1 DEF DialogInv, DialogShape
  <2>3. DialogShape'
    BY <2>1, <2>2, AskShape DEF Ask, DialogInv, DialogShape
  <2>4. ASSUME unhurried' PROVE Unmixed'
    <3>1. CASE k = None
      BY <2>1, <2>2, <2>4, <3>1 DEF DialogInv, Unmixed
    <3>2. CASE k # None
      <4>1. Unmixed /\ \A e \in Asks : asks[e].form # "host"
        BY <2>1, <2>4, <3>2 DEF DialogInv, Ask
      <4>2. \A e \in Asks : asks'[e] # NoAsk =>
              \/ asks'[e].form = "host" /\ asks'[e].cred = k
              \/ asks'[e].form # "host" /\ asks'[e] = asks[e]
        BY <2>1, <3>2, <4>1, AskAlone DEF Ask, DialogInv, DialogShape
      <4>3. hostForm'.cred = k /\ hostForm'.from = None
        BY <2>2
      <4> QED BY <2>1, <4>1, <4>2, <4>3, AloneUnmixed
    <3> QED BY <3>1, <3>2
  <2> QED BY <2>3, <2>4 DEF DialogInv
<1>4. CASE SaveHost
  <2>1. /\ savingHost'.cred = hostForm.cred /\ savingHost'.from = hostForm.from
        /\ savingHost'.putBack = hostForm.putBack
        /\ hostForm.cred # None /\ hostForm.from # None
        /\ UNCHANGED <<stored, hostForm, importModal, importingCredential, importList, asks, unhurried>>
    BY <1>4 DEF SaveHost, hostVars, importVars
  <2> QED BY <2>1 DEF DialogInv, DialogShape, Unmixed
<1>5. ASSUME NEW h \in HostIds, HostSaved(h)
      PROVE  DialogInv'
  <2>1. PICK r : r = [cred |-> savingHost.cred, from |-> savingHost.from, putBack |-> savingHost.putBack]
    OBVIOUS
  <2>2. /\ savingHost.on /\ stored' = [stored EXCEPT ![h] = r] /\ savingHost'.on = FALSE
        /\ UNCHANGED <<hostForm, importModal, importingCredential, importList, asks, unhurried>>
    BY <1>5, <2>1 DEF HostSaved, importVars, NotSaving
  <2>3. unhurried /\ savingHost.on = TRUE => savingHost.cred = savingHost.from \/ savingHost.putBack = TRUE
    BY DEF DialogInv, Unmixed
  <2>4. unhurried => r.cred = r.from \/ r.putBack = TRUE
    BY <1>5, <2>1, <2>3 DEF HostSaved
  <2>5. DialogShape'
    BY <2>2 DEF DialogInv, DialogShape
  <2>6. unhurried => (\A i \in HostIds : stored[i].from = stored[i].cred \/ stored[i].putBack = TRUE)'
    BY <2>2, <2>4 DEF DialogInv, DialogShape, Unmixed
  <2> QED BY <2>2, <2>5, <2>6 DEF DialogInv, Unmixed
<1>6. ASSUME NEW h \in HostIds, RunImport(h)
      PROVE  DialogInv'
  <2>1. PICK r : r = [NoHost EXCEPT !.cred = importingCredential, !.from = importList]
    OBVIOUS
  <2>2. /\ stored' = [stored EXCEPT ![h] = r] /\ importModal # "hidden" /\ importList # None
        /\ UNCHANGED <<hostForm, importModal, importingCredential, importList, asks, savingHost, unhurried>>
    BY <1>6, <2>1 DEF RunImport, Open, hostVars, importVars
  <2>3. unhurried => r.cred = r.from
    BY <2>1, <2>2 DEF DialogInv, Unmixed, NoHost
  <2>4. DialogShape'
    BY <2>2 DEF DialogInv, DialogShape
  <2>5. unhurried => (\A i \in HostIds : stored[i].from = stored[i].cred \/ stored[i].putBack = TRUE)'
    BY <2>2, <2>3 DEF DialogInv, DialogShape, Unmixed
  <2> QED BY <2>2, <2>4, <2>5 DEF DialogInv, Unmixed
<1>7. ASSUME NEW ok \in BOOLEAN, CredentialsListed(ok)
      PROVE  DialogInv'
  <2>1. UNCHANGED <<stored, importModal, importingCredential, importList, savingHost>>
    BY <1>7 DEF CredentialsListed, importVars
  <2>2. CASE savingCred.offered
    <3>1. PICK k : k = savingCred.cred
      OBVIOUS
    <3>2. PICK c : c = IF ok THEN k ELSE None
      OBVIOUS
    <3>3. /\ hostForm' = [hostForm EXCEPT !.cred = c, !.options = listed', !.from = None,
                             !.putBack = FALSE]
          /\ Ask("host", k)
      BY <1>7, <2>2, <3>1, <3>2 DEF CredentialsListed, Blank
    <3>4. hostForm' = [host |-> hostForm.host, cred |-> c, options |-> listed',
                       previous |-> hostForm.previous, from |-> None, putBack |-> FALSE]
      BY <3>3 DEF DialogInv, DialogShape
    <3>5. DialogShape'
      BY <2>1, <3>3, <3>4, AskShape DEF Ask, DialogInv, DialogShape
    <3>6. ASSUME unhurried' PROVE Unmixed'
      <4>1. Unmixed /\ \A e \in Asks : asks[e].form # "host"
        BY <3>3, <3>6 DEF DialogInv, Ask
      <4>2. \A e \in Asks : asks'[e] # NoAsk =>
              \/ asks'[e].form = "host" /\ asks'[e].cred = k
              \/ asks'[e].form # "host" /\ asks'[e] = asks[e]
        BY <3>3, <4>1, AskAlone DEF Ask, DialogInv, DialogShape
      <4>3. hostForm'.cred \in {None, k} /\ hostForm'.from = None
        BY <3>2, <3>4
      <4> QED BY <2>1, <4>1, <4>2, <4>3, AloneUnmixed
    <3> QED BY <3>5, <3>6 DEF DialogInv
  <2>3. CASE ~savingCred.offered
    <3>1. UNCHANGED <<hostForm, asks, unhurried>>
      BY <1>7, <2>3 DEF CredentialsListed
    <3> QED BY <2>1, <3>1 DEF DialogInv, DialogShape, Unmixed
  <2> QED BY <2>2, <2>3
<1>8. ASSUME NEW k \in CredIds, OpenImportModal(k)
      PROVE  DialogInv'
  <2>1. /\ importModal' = "showing" /\ importingCredential' = k /\ importList' = None
        /\ Ask("import", k)
        /\ UNCHANGED <<stored, hostForm, savingHost>>
    BY <1>8 DEF OpenImportModal, hostVars
  <2>2. DialogShape'
    BY <2>1, AskShape DEF Ask, DialogInv, DialogShape
  <2>3. ASSUME unhurried' PROVE Unmixed'
    <3>1. Unmixed /\ \A e \in Asks : asks[e].form # "import"
      BY <2>1, <2>3 DEF DialogInv, Ask
    <3>2. \A e \in Asks : asks'[e] # NoAsk =>
            \/ asks'[e].form = "import" /\ asks'[e].cred = k
            \/ asks'[e].form # "import" /\ asks'[e] = asks[e]
      BY <2>1, <3>1, AskAlone DEF Ask, DialogInv, DialogShape
    <3>3. \A e \in Asks :
            asks'[e] # NoAsk /\ asks'[e].form = "host" => asks[e] # NoAsk /\ asks'[e] = asks[e]
      BY <3>2
    <3>4. (\A i \in HostIds : stored[i].from = stored[i].cred \/ stored[i].putBack = TRUE)'
      BY <2>1, <3>1 DEF Unmixed
    <3> QED BY <2>1, <3>1, <3>2, <3>3, <3>4 DEF Unmixed
  <2> QED BY <2>2, <2>3 DEF DialogInv
<1>9. CASE HostRefused
  <2>1. /\ savingHost'.on = FALSE
        /\ UNCHANGED <<stored, hostForm, importModal, importingCredential, importList, asks, unhurried>>
    BY <1>9 DEF HostRefused, NotSaving, hostVars, importVars
  <2> QED BY <2>1 DEF DialogInv, DialogShape, Unmixed
<1>10. CASE CloseImportModal \/ ImportModalSettles
  <2>1. /\ importModal \in {"showing", "shown", "hiding"}
        /\ importModal' \in {"hidden", "shown", "hiding"}
        /\ importModal' # "hidden" => importingCredential' = importingCredential
        /\ UNCHANGED <<stored, hostForm, importList, asks, savingHost, unhurried>>
    BY <1>10 DEF CloseImportModal, ImportModalSettles, hostVars
  <2> QED BY <2>1 DEF DialogInv, DialogShape, Unmixed
<1>11. ASSUME UNCHANGED <<stored, hostForm, importVars, asks, savingHost, unhurried>>
       PROVE  DialogInv'
  BY <1>11 DEF importVars, DialogInv, DialogShape, Unmixed
<1>12. CASE CloseHostModal \/ HostModalSettles
  BY <1>11, <1>12 DEF CloseHostModal, HostModalSettles
<1>13. ASSUME NEW k \in CredIds \cup {None}, NEW fromHost \in BOOLEAN, OpenCredentialModal(k, fromHost)
       PROVE  DialogInv'
  <2>1. /\ fromHost => PutBack
        /\ ~fromHost => UNCHANGED hostForm
        /\ UNCHANGED <<stored, importVars, asks, savingHost, unhurried>>
    BY <1>13 DEF OpenCredentialModal
  <2>2. CASE fromHost
    <3>1. PICK c : hostForm' = [hostForm EXCEPT !.cred = c, !.putBack = @ \/ c # hostForm.cred]
      BY <2>1, <2>2 DEF PutBack
    <3>2. PICK p : p = (hostForm.putBack \/ c # hostForm.cred)
      OBVIOUS
    <3>3. hostForm' = [host |-> hostForm.host, cred |-> c, options |-> hostForm.options,
                       previous |-> hostForm.previous, from |-> hostForm.from, putBack |-> p]
      BY <3>1, <3>2 DEF DialogInv, DialogShape
    <3>4. hostForm'.cred = hostForm.cred \/ hostForm'.putBack = TRUE
      BY <3>2, <3>3
    <3>5. hostForm.putBack = TRUE => hostForm'.putBack = TRUE
      BY <3>2, <3>3
    <3>6. hostForm'.from = hostForm.from
      BY <3>3
    <3>7. DialogShape'
      BY <2>1, <3>3 DEF importVars, DialogInv, DialogShape
    <3> QED BY <2>1, <3>4, <3>5, <3>6, <3>7 DEF importVars, DialogInv, Unmixed
  <2>3. CASE ~fromHost
    BY <1>11, <2>1, <2>3
  <2> QED BY <2>2, <2>3
<1>14. ASSUME NEW k \in CredIds, SaveCredential(k) \/ DeleteCredential(k)
       PROVE  DialogInv'
  BY <1>11, <1>14 DEF SaveCredential, DeleteCredential, hostVars
<1>15. CASE CredentialStored \/ CredentialRefused \/ CloseCredentialModal \/ CredentialModalSettles
  BY <1>11, <1>15 DEF CredentialStored, CredentialRefused, CloseCredentialModal,
                      CredentialModalSettles, hostVars
<1> QED BY <1>1, <1>2, <1>3, <1>4, <1>5, <1>6, <1>7, <1>8, <1>9, <1>10, <1>12, <1>13, <1>14, <1>15
        DEF DialogNext

\* Who waits for the list of endpoints of a form before asking for the next one stores no
\* host whose endpoint another credential has listed, unless "+ Add credential..." had put
\* the select of the form back since it was filled; with that, or with two lists in flight,
\* it does happen (web/public/js/hosts.js: fillEndpointSelect, openHostModal, saveHost,
\* saveCredential, runImport).
THEOREM EndpointsStayWithTheirs == PageSpec => []EndpointOfCredential
<1>1. PageInit => DialogInv
  <2> SUFFICES ASSUME DialogInit PROVE DialogInv
    BY DEF PageInit
  <2>1. stored = [i \in HostIds |-> stored[i]] /\ \A h \in HostIds : stored[h].from = stored[h].cred
    BY DEF DialogInit, NoHost
  <2>2. /\ asks = [e \in Asks |-> asks[e]]
        /\ \A e \in Asks : asks[e] = NoAsk
    BY DEF DialogInit
  <2>3. /\ hostForm = [host |-> None, cred |-> None, options |-> {}, previous |-> None, from |-> None,
                       putBack |-> FALSE]
        /\ importModal = "hidden"
        /\ savingHost.on = FALSE
    BY DEF DialogInit, NotSaving
  <2>4. DialogShape
    BY <2>1, <2>2, <2>3 DEF DialogShape
  <2> QED BY <2>1, <2>2, <2>3, <2>4 DEF DialogInv, Unmixed
<1>2. DialogInv /\ [PageNext]_allVars => DialogInv'
  <2> SUFFICES ASSUME DialogInv, [PageNext]_allVars PROVE DialogInv'
    OBVIOUS
  <2>1. CASE UNCHANGED dialogOwn
    BY <2>1 DEF dialogOwn, DialogInv, DialogShape, Unmixed
  <2>2. CASE DialogNext
    BY <2>2, DialogKeeps
  <2> QED BY <2>1, <2>2 DEF PageNext, allVars, pageOwn
<1>3. DialogInv => EndpointOfCredential
  BY DEF DialogInv, Unmixed, EndpointOfCredential
<1> QED BY <1>1, <1>2, <1>3, PTL DEF PageSpec
-----------------------------------------------------------------------------
(* The form of a profile.                                                  *)

\* every key of the profile that is edited has a row, or had one that was taken away; and
\* what was sent clears only those
ProfileInv ==
  /\ vault = [p \in Profiles |-> vault[p]]
  /\ secretRows = [for |-> secretRows.for, keys |-> secretRows.keys, typed |-> secretRows.typed]
  /\ editingProfile.keys \subseteq secretRows.keys \cup cleared
  /\ saving # NotSaved => saving.id \in Profiles /\ saving.nulls \subseteq saving.cleared

\* Each step of the form.
LEMMA ProfileKeeps ==
  ASSUME ProfileInv, ProfileNext
  PROVE  ProfileInv'
<1>1. ASSUME UNCHANGED <<secretRows, cleared, saving>>,
             vault' = [p \in Profiles |-> vault'[p]],
             editingProfile' \in {editingProfile, NoCard}
      PROVE  ProfileInv'
  BY <1>1 DEF ProfileInv, NoCard
<1>2. ASSUME NEW ok \in BOOLEAN, LoadProfiles(ok) \/ ConfirmForce(ok)
      PROVE  ProfileInv'
  BY <1>1, <1>2 DEF LoadProfiles, ConfirmForce, inputVars, ProfileInv
<1>3. ASSUME NEW card \in cards \cup {NoCard}, OpenProfileModal(card)
      PROVE  ProfileInv'
  BY <1>3 DEF OpenProfileModal, ProfileInv
<1>4. CASE AddSecret
  BY <1>1, <1>4 DEF AddSecret, ProfileInv
<1>5. ASSUME NEW k \in Keys, TypeSecret(k)
      PROVE  ProfileInv'
  <2>1. /\ secretRows' = [secretRows EXCEPT !.keys = @ \cup {k}, !.typed = @ \cup {k}]
        /\ UNCHANGED <<vault, editingProfile, saving, cleared>>
    BY <1>5 DEF TypeSecret
  <2>2. secretRows' = [for |-> secretRows.for, keys |-> secretRows.keys \cup {k},
                       typed |-> secretRows.typed \cup {k}]
    BY <2>1 DEF ProfileInv
  <2> QED BY <2>1, <2>2 DEF ProfileInv
<1>6. ASSUME NEW k \in Keys, NEW other \in Keys, RenameRow(k, other)
      PROVE  ProfileInv'
  <2>1. PICK typed : typed = IF k \in secretRows.typed THEN (secretRows.typed \ {k}) \cup {other}
                             ELSE secretRows.typed
    OBVIOUS
  <2>2. /\ secretRows' = [for |-> secretRows.for, keys |-> (secretRows.keys \ {k}) \cup {other},
                          typed |-> typed]
        /\ cleared' = (cleared \cup {k}) \ {other}
        /\ UNCHANGED <<vault, editingProfile, saving>>
    BY <1>6, <2>1 DEF RenameRow, ProfileInv
  <2> QED BY <2>2 DEF ProfileInv
<1>7. ASSUME NEW k \in Keys, RemoveRow(k)
      PROVE  ProfileInv'
  <2>1. /\ secretRows' = [for |-> secretRows.for, keys |-> secretRows.keys \ {k},
                          typed |-> secretRows.typed \ {k}]
        /\ cleared' = cleared \cup {k}
        /\ UNCHANGED <<vault, editingProfile, saving>>
    BY <1>7 DEF RemoveRow, ProfileInv
  <2> QED BY <2>1 DEF ProfileInv
<1>8. CASE CloseProfileModal \/ ProfileModalSettles
  BY <1>1, <1>8 DEF CloseProfileModal, ProfileModalSettles, inputVars, ProfileInv
<1>9. ASSUME NEW id \in Profiles, SaveProfile(id)
      PROVE  ProfileInv'
  <2>1. /\ saving'.id = id /\ saving'.nulls = editingProfile.keys \ secretRows.keys
        /\ saving'.cleared = cleared
        /\ UNCHANGED <<vault, editingProfile, secretRows, cleared>>
    BY <1>9 DEF SaveProfile, Nulls, inputVars
  <2> QED BY <2>1 DEF ProfileInv
<1>10. ASSUME NEW p \in Profiles, DeleteProfile(p)
       PROVE  ProfileInv'
  BY <1>1, <1>10 DEF DeleteProfile, inputVars, ProfileInv
<1>11. CASE ProfileSaved \/ ProfileRefused
  <2>1. vault' = [p \in Profiles |-> vault'[p]]
    BY <1>11 DEF ProfileSaved, ProfileRefused, ProfileInv
  <2>2. saving' = NotSaved /\ editingProfile' \in {editingProfile, NoCard}
        /\ UNCHANGED <<secretRows, cleared>>
    BY <1>11 DEF ProfileSaved, ProfileRefused, inputVars
  <2> QED BY <2>1, <2>2 DEF ProfileInv, NoCard
<1>12. CASE DeleteAnswered
  BY <1>1, <1>12 DEF DeleteAnswered, inputVars, ProfileInv
<1>13. ASSUME NEW p \in Profiles, NEW k \in Keys, NEW who \in {"elsewhere", "unset"}, Elsewhere(p, k, who)
       PROVE  ProfileInv'
  <2>1. vault' = [q \in Profiles |-> vault'[q]]
    BY <1>13 DEF Elsewhere, ProfileInv
  <2> QED BY <1>1, <1>13, <2>1 DEF Elsewhere, inputVars
<1> QED BY <1>2, <1>3, <1>4, <1>5, <1>6, <1>7, <1>8, <1>9, <1>10, <1>11, <1>12, <1>13 DEF ProfileNext

\* what a save may do to the secrets of the profile it is about
SavedOnly ==
  \A p \in Profiles :
    (saving.id = p /\ saving' = NotSaved /\ vault'[p].exists /\ vault'[p] # vault[p])
      => \A k \in Keys : \/ vault'[p].set[k] = vault[p].set[k]
                         \/ k \in saving.typed /\ vault'[p].set[k] = "form"
                         \/ k \in saving.cleared /\ vault'[p].set[k] = "unset"

\* Only what was sent ends with nothing being sent.
LEMMA OnlySavedEnds ==
  ASSUME ProfileInv, ProfileNext, saving.id \in Profiles, saving' = NotSaved
  PROVE  ProfileSaved \/ UNCHANGED vault
<1>1. saving # NotSaved
  BY ProfileAssumption DEF NotSaved
<1>2. saving' # saving
  BY <1>1
<1> QED BY <1>1, <1>2 DEF ProfileNext, LoadProfiles, ConfirmForce, OpenProfileModal, AddSecret,
      TypeSecret, RenameRow, RemoveRow, CloseProfileModal, ProfileModalSettles, SaveProfile,
      DeleteProfile, ProfileRefused, DeleteAnswered, Elsewhere

\* A save sets what was typed, clears what was taken away, and leaves the rest as it is
\* by now, also what another browser has stored meanwhile (web/public/js/profiles.js:
\* readAgentSection, saveProfile).
THEOREM SecretsStay == PageSpec => SecretsKept
<1>1. PageInit => ProfileInv
  BY DEF PageInit, ProfileInit, ProfileInv, NoRows, NoCard
<1>2. ProfileInv /\ [PageNext]_allVars => ProfileInv'
  <2> SUFFICES ASSUME ProfileInv, [PageNext]_allVars PROVE ProfileInv'
    OBVIOUS
  <2>1. CASE UNCHANGED profileOwn
    BY <2>1 DEF profileOwn, ProfileInv
  <2>2. CASE ProfileNext
    BY <2>2, ProfileKeeps
  <2> QED BY <2>1, <2>2 DEF PageNext, allVars, pageOwn
<1>3. ProfileInv /\ [PageNext]_allVars => [SavedOnly]_profileVars
  <2> SUFFICES ASSUME ProfileInv, [PageNext]_allVars PROVE SavedOnly
    OBVIOUS
  <2>1. CASE UNCHANGED profileOwn
    BY <2>1 DEF profileOwn, SavedOnly
  <2>2. CASE ProfileNext
    <3> SUFFICES ASSUME NEW p \in Profiles, saving.id = p, saving' = NotSaved, vault'[p] # vault[p],
                        NEW k \in Keys
                 PROVE  \/ vault'[p].set[k] = vault[p].set[k]
                        \/ k \in saving.typed /\ vault'[p].set[k] = "form"
                        \/ k \in saving.cleared /\ vault'[p].set[k] = "unset"
      BY DEF SavedOnly
    <3>1. ProfileSaved
      BY <2>2, OnlySavedEnds
    <3>2. vault'[p] = [exists |-> TRUE, set |-> Merged(vault[p].set)]
      BY <3>1 DEF ProfileSaved, ProfileInv
    <3>3. vault'[p].set[k] = IF k \in saving.typed THEN "form"
                             ELSE IF k \in saving.nulls THEN "unset" ELSE vault[p].set[k]
      BY <3>2 DEF Merged
    <3>4. saving.nulls \subseteq saving.cleared
      BY ProfileAssumption DEF ProfileInv, NotSaved
    <3> QED BY <3>3, <3>4
  <2> QED BY <2>1, <2>2 DEF PageNext, allVars, pageOwn
<1> QED BY <1>1, <1>2, <1>3, PTL DEF PageSpec, SecretsKept, SavedOnly
-----------------------------------------------------------------------------
(* The layout of the panes.                                                *)

\* the layouts there are, but for the one in localStorage
Blobs == {serverBlob, appBlob, ownBlob, reading, pushing.blob} \cup {put.blob : put \in puts}

Dated(b) == b.at \in Nat /\ b.at <= clock

\* a layout is no newer than the clock; who is signed out has stored the panes first, and
\* every layout since is older or another browser's
LayoutInv ==
  /\ clock \in Nat /\ foreignAt \in Nat /\ foreignAt <= clock
  /\ Dated(localBlob)
  /\ \A b \in Blobs : Dated(b)
  /\ suspended => login # "in"
  /\ suspended /\ atLogout # {} =>
       /\ localBlob.has = atLogout
       /\ \A b \in Blobs : b.at <= localBlob.at \/ b.at <= foreignAt

\* A step that stores nothing new and suspends nobody.
LEMMA CalmKeeps ==
  ASSUME LayoutInv, UNCHANGED <<clock, foreignAt, localBlob>>,
         Blobs' \subseteq Blobs \cup {Unknown, NoBlob},
         suspended' => suspended /\ atLogout' = atLogout /\ login' # "in"
  PROVE  LayoutInv'
<1>1. Unknown.at = 0 /\ NoBlob.at = 0
  BY DEF Unknown, NoBlob, Blob
<1>2. (\A b \in Blobs : Dated(b))' /\ Dated(localBlob)'
  BY <1>1 DEF LayoutInv, Dated
<1>3. ASSUME suspended', atLogout' # {}
      PROVE  /\ localBlob'.has = atLogout'
             /\ \A b \in Blobs' : b.at <= localBlob'.at \/ b.at <= foreignAt'
  BY <1>1, <1>3 DEF LayoutInv, Dated
<1> QED BY <1>2, <1>3 DEF LayoutInv

\* A step that stores what is on the screen, with nobody suspended.
LEMMA StoringKeeps ==
  ASSUME LayoutInv, NEW ps, clock' = clock + 1, localBlob' = Blob(clock', ps),
         UNCHANGED foreignAt, ~suspended', Blobs' \subseteq Blobs \cup {localBlob'}
  PROVE  LayoutInv'
<1>1. localBlob'.at = clock + 1
  BY DEF Blob
<1>2. (\A b \in Blobs : Dated(b))' /\ Dated(localBlob)'
  BY <1>1 DEF LayoutInv, Dated
<1> QED BY <1>2 DEF LayoutInv

\* persist() with nobody suspended before or after.
LEMMA PersistKeeps ==
  ASSUME LayoutInv, NEW ps, NEW pending, Persist(ps, pending), suspended' = suspended,
         UNCHANGED <<serverBlob, copies, puts, foreignAt, login, atLogout>>
  PROVE  LayoutInv'
<1>1. CASE Persists(ps, pending)
  <2>1. clock' = clock + 1 /\ localBlob' = Blob(clock', ps) /\ pushing'.blob = localBlob' /\ ~suspended
    BY <1>1 DEF Persist, Persists
  <2>2. Blobs' \subseteq Blobs \cup {localBlob'}
    BY <2>1 DEF Blobs, copies
  <2> QED BY <2>1, <2>2, StoringKeeps
<1>2. CASE ~Persists(ps, pending)
  <2>1. UNCHANGED <<localBlob, pushing, clock>>
    BY <1>2 DEF Persist, storeVars
  <2>2. Blobs' = Blobs
    BY <2>1 DEF Blobs, copies
  <2> QED BY <2>1, <2>2, CalmKeeps DEF LayoutInv
<1> QED BY <1>1, <1>2

\* Each step of the layout.
LEMMA LayoutKeeps ==
  ASSUME LayoutInv, LayoutNext
  PROVE  LayoutInv'
<1>1. CASE PersistSoon
  BY <1>1, PersistKeeps DEF PersistSoon, history
<1>2. CASE LayoutEvent \/ ImportDone
  <2>1. UNCHANGED <<login, suspended, storeVars, serverBlob, copies, puts, history>>
    BY <1>2 DEF LayoutEvent, ImportDone, storeVars
  <2>2. Blobs' = Blobs
    BY <2>1 DEF Blobs, storeVars, copies
  <2> QED BY <2>1, <2>2, CalmKeeps DEF LayoutInv, storeVars, history
<1>3. CASE Push
  <2>1. Blobs' \subseteq Blobs \cup {Unknown}
    BY <1>3 DEF Push, Blobs, copies, NoPush
  <2> QED BY <1>3, <2>1, CalmKeeps DEF Push, LayoutInv, history
<1>4. ASSUME NEW put \in puts, ServePut(put) \/ PutFails(put)
      PROVE  LayoutInv'
  <2>1. serverBlob' \in {serverBlob, put.blob} /\ puts' = puts \ {put}
    BY <1>4 DEF ServePut, PutFails
  <2>2. Blobs' \subseteq Blobs
    BY <1>4, <2>1 DEF ServePut, PutFails, Blobs, copies
  <2> QED BY <1>4, <2>2, CalmKeeps DEF ServePut, PutFails, LayoutInv, history
<1>5. ASSUME NEW ps \in {{}, Panes}, OtherBrowser(ps)
      PROVE  LayoutInv'
  <2>1. /\ clock' = clock + 1 /\ foreignAt' = clock + 1 /\ serverBlob' = Blob(clock + 1, ps)
        /\ UNCHANGED <<login, suspended, localBlob, appBlob, ownBlob, reading, pushing, puts, atLogout>>
    BY <1>5 DEF OtherBrowser, copies
  <2>2. serverBlob'.at = clock + 1
    BY <2>1 DEF Blob
  <2>3. Blobs' \subseteq Blobs \cup {serverBlob'}
    BY <2>1 DEF Blobs
  <2>4. \A b \in Blobs' : b.at \in Nat /\ b.at <= clock + 1
    BY <2>2, <2>3 DEF LayoutInv, Dated
  <2>5. (\A b \in Blobs : Dated(b))' /\ Dated(localBlob)'
    BY <2>1, <2>4 DEF LayoutInv, Dated
  <2> QED BY <2>1, <2>4, <2>5 DEF LayoutInv
<1>6. CASE AskSettings
  <2>1. Blobs' \subseteq Blobs
    BY <1>6 DEF AskSettings, Blobs, storeVars
  <2> QED BY <1>6, <2>1, CalmKeeps DEF AskSettings, LayoutInv, storeVars, history
<1>7. CASE SettingsChanged
  <2>1. Blobs' \subseteq Blobs \cup {Unknown}
    BY <1>7 DEF SettingsChanged, Blobs, storeVars
  <2> QED BY <1>7, <2>1, CalmKeeps DEF SettingsChanged, LayoutInv, storeVars, history
<1>8. ASSUME NEW p \in Panes, OpenSession(p)
      PROVE  LayoutInv'
  BY <1>8, PersistKeeps DEF OpenSession
<1>9. ASSUME NEW p \in Panes, ClosePane(p)
      PROVE  LayoutInv'
  <2>1. Blobs' = Blobs
    BY <1>9 DEF ClosePane, Blobs, storeVars, copies
  <2> QED BY <1>9, <2>1, CalmKeeps DEF ClosePane, LayoutInv, storeVars
<1>10. CASE ResetLayout
  <2>1. /\ localBlob' = NoBlob /\ ~suspended'
        /\ UNCHANGED <<clock, foreignAt>>
    BY <1>10 DEF ResetLayout, LayoutInv
  <2>2. Blobs' \subseteq Blobs \cup {Unknown, NoBlob}
    BY <1>10 DEF ResetLayout, Blobs, copies, NoPush
  <2>3. Unknown.at = 0 /\ NoBlob.at = 0
    BY DEF Unknown, NoBlob, Blob
  <2>4. (\A b \in Blobs : Dated(b))' /\ Dated(localBlob)'
    BY <2>1, <2>2, <2>3 DEF LayoutInv, Dated
  <2> QED BY <2>1, <2>4 DEF LayoutInv
<1>11. ASSUME NEW read \in BOOLEAN, ReloadPage(read)
       PROVE  LayoutInv'
  <2>1. Blobs' \subseteq Blobs \cup {Unknown}
    BY <1>11 DEF ReloadPage, Blobs, NoPush
  <2> QED BY <1>11, <2>1, CalmKeeps DEF ReloadPage
<1>12. ASSUME NEW read \in BOOLEAN, SignIn(read)
       PROVE  LayoutInv'
  <2>1. Blobs' \subseteq Blobs \cup {Unknown}
    BY <1>12 DEF SignIn, Blobs, storeVars
  <2> QED BY <1>12, <2>1, CalmKeeps DEF SignIn, LayoutInv, storeVars, history
<1>13. CASE LoseLogin
  <2>1. login = "in" /\ login' = "out" /\ ~suspended
    BY <1>13 DEF LoseLogin, LayoutInv
  <2>2. CASE phase = "ready"
    <3>1. StoreFirst /\ atLogout' = panes /\ UNCHANGED foreignAt /\ pushing' = NoPush
      BY <1>13, <2>1, <2>2 DEF LoseLogin
    <3>2. Blobs' \subseteq Blobs \cup {Unknown, NoBlob}
      BY <1>13, <3>1 DEF LoseLogin, Blobs, NoPush
    <3>3. CASE Persists(panes, restorePending)
      <4>1. clock' = clock + 1 /\ localBlob' = Blob(clock', panes)
        BY <3>1, <3>3 DEF StoreFirst
      <4>2. localBlob'.at = clock + 1 /\ localBlob'.has = panes
        BY <4>1 DEF Blob
      <4>3. Unknown.at = 0 /\ NoBlob.at = 0
        BY DEF Unknown, NoBlob, Blob
      <4>4. \A b \in Blobs' : b.at \in Nat /\ b.at <= clock
        BY <3>2, <4>3 DEF LayoutInv, Dated
      <4>5. (\A b \in Blobs : Dated(b))' /\ Dated(localBlob)'
        BY <4>1, <4>2, <4>4 DEF LayoutInv, Dated
      <4>6. \A b \in Blobs' : b.at <= localBlob'.at
        BY <4>2, <4>4 DEF LayoutInv
      <4> QED BY <2>1, <3>1, <4>1, <4>2, <4>5, <4>6 DEF LayoutInv
    <3>4. CASE ~Persists(panes, restorePending)
      <4>1. UNCHANGED <<clock, localBlob>> /\ atLogout' = {}
        BY <2>1, <2>2, <3>1, <3>4 DEF StoreFirst, Persists
      <4>2. Unknown.at = 0 /\ NoBlob.at = 0
        BY DEF Unknown, NoBlob, Blob
      <4>3. (\A b \in Blobs : Dated(b))' /\ Dated(localBlob)'
        BY <3>2, <4>1, <4>2 DEF LayoutInv, Dated
      <4> QED BY <2>1, <3>1, <4>1, <4>3 DEF LayoutInv
    <3> QED BY <3>3, <3>4
  <2>3. CASE phase # "ready"
    <3>1. Blobs' \subseteq Blobs \cup {Unknown}
      BY <1>13, <2>3 DEF LoseLogin, Blobs, storeVars
    <3> QED BY <1>13, <2>1, <2>3, <3>1, CalmKeeps DEF LoseLogin, storeVars
  <2> QED BY <2>2, <2>3
<1>14. CASE AuthReady
  <2>1. Blobs' = Blobs
    BY <1>14 DEF AuthReady, Blobs, storeVars, copies
  <2> QED BY <1>14, <2>1, CalmKeeps DEF AuthReady, storeVars, history
<1> QED BY <1>1, <1>2, <1>3, <1>4, <1>5, <1>6, <1>7, <1>8, <1>9, <1>10, <1>11, <1>12, <1>13, <1>14
        DEF LayoutNext

\* what the page shows once it is signed in again
ComesBack ==
  (suspended /\ ~suspended' /\ atLogout # {} /\ localBlob.at > foreignAt) => panes' = atLogout

\* A layout that is there and not older is the one that is restored.
LEMMA NewerIsLocal ==
  ASSUME LayoutInv, Valid(localBlob), NEW one \in Blobs, NEW other \in Blobs,
         \A b \in Blobs : b.at <= localBlob.at
  PROVE  Newer(localBlob, Newer(one, other)) = localBlob
<1>1. Newer(one, other) \in Blobs
  BY DEF Newer
<1>2. Newer(one, other).at <= localBlob.at /\ Newer(one, other).at \in Nat /\ localBlob.at \in Nat
  BY <1>1 DEF LayoutInv, Dated
<1>3. ~(Newer(one, other).at > localBlob.at)
  BY <1>2
<1> QED BY <1>3 DEF Newer

\* Who signs in again has the panes that the loss of the login took down, unless another
\* browser has stored a newer layout (web/public/js/code.js: suspendPanes, persist,
\* restoreLayout, resumePanes).
THEOREM PanesAreBack == PageSpec => PanesComeBack
<1>1. PageInit => LayoutInv
  <2> SUFFICES ASSUME PageInit PROVE LayoutInv
    OBVIOUS
  <2>1. /\ localBlob \in {NoBlob, Blob(1, {CHOOSE p \in Panes : TRUE}), Blob(1, {})}
        /\ serverBlob \in {NoBlob, Blob(2, Panes)}
        /\ appBlob \in {Unknown, serverBlob}
    BY AmongIs DEF PageInit, LayoutInit
  <2>2. /\ ownBlob = Unknown /\ reading = Unknown /\ pushing = NoPush /\ puts = {}
        /\ clock = 2 /\ foreignAt = 0 /\ ~suspended
    BY DEF PageInit, LayoutInit
  <2>3. /\ Unknown.at = 0 /\ NoBlob.at = 0 /\ Blob(2, Panes).at = 2
        /\ Blob(1, {CHOOSE p \in Panes : TRUE}).at = 1 /\ Blob(1, {}).at = 1
    BY DEF Unknown, NoBlob, Blob
  <2>4. Dated(localBlob) /\ Dated(serverBlob) /\ Dated(appBlob) /\ Dated(Unknown)
    BY <2>1, <2>2, <2>3 DEF Dated
  <2>5. \A b \in Blobs : b \in {serverBlob, appBlob, Unknown}
    BY <2>2 DEF Blobs, NoPush
  <2> QED BY <2>2, <2>4, <2>5 DEF LayoutInv
<1>2. LayoutInv /\ [PageNext]_allVars => LayoutInv'
  <2> SUFFICES ASSUME LayoutInv, [PageNext]_allVars PROVE LayoutInv'
    OBVIOUS
  <2>1. CASE UNCHANGED layoutOwn
    BY <2>1 DEF layoutOwn, LayoutInv, Blobs, Dated
  <2>2. CASE LayoutNext
    BY <2>2, LayoutKeeps
  <2> QED BY <2>1, <2>2 DEF PageNext, allVars, pageOwn
<1>3. LayoutInv /\ [PageNext]_allVars => [ComesBack]_layoutVars
  <2> SUFFICES ASSUME LayoutInv, [PageNext]_allVars, suspended, ~suspended', atLogout # {},
                      localBlob.at > foreignAt
               PROVE  panes' = atLogout
    BY DEF ComesBack
  <2>1. LayoutNext /\ login # "in"
    BY DEF PageNext, allVars, pageOwn, layoutOwn, LayoutInv
  <2>2. AuthReady
    BY <2>1 DEF LayoutNext, PersistSoon, LayoutEvent, Push, ServePut, PutFails, OtherBrowser,
        ImportDone, AskSettings, SettingsChanged, OpenSession, ClosePane, ResetLayout, ReloadPage,
        LoseLogin, SignIn
  <2>3. /\ localBlob.has = atLogout
        /\ \A b \in Blobs : b.at <= localBlob.at
    BY DEF LayoutInv, Dated
  <2>4. Newer(localBlob, Newer(ownBlob, appBlob)) = localBlob /\ Valid(localBlob)
    BY <2>3, NewerIsLocal DEF Valid, Blobs
  <2> QED BY <2>2, <2>3, <2>4 DEF AuthReady, Restore
<1> QED BY <1>1, <1>2, <1>3, PTL DEF PageSpec, PanesComeBack, ComesBack
-----------------------------------------------------------------------------
(* What the page does to the layout on the server.                         *)

\* a layout that goes to the server has panes, or is what somebody wants there who has
\* acted or has seen the settings
Earned(push) == push.blob.has # {} \/ push.meant

\* the workspace is empty because somebody made it so, or the settings said so
Decided == phase = "ready" /\ ~suspended /\ panes = {} /\ ~restorePending => acted \/ Seen

PushInv ==
  /\ foreign \in Nat
  /\ pushing = NoPush \/ Earned(pushing)
  /\ \A put \in puts : Earned(put)
  /\ Decided
  /\ login = "out" => (appBlob.known => ownBlob.known)

\* What persist() arms is earned.
LEMMA PersistEarns ==
  ASSUME NEW ps, NEW pending, Persist(ps, pending), pushing = NoPush \/ Earned(pushing),
         phase = "ready" /\ ~suspended /\ ps = {} /\ ~pending => acted' \/ Seen
  PROVE  pushing' = NoPush \/ Earned(pushing')
<1>1. CASE Persists(ps, pending)
  <2>1. PICK meant : meant = (acted' \/ Seen)
    OBVIOUS
  <2>2. pushing' = [blob |-> Blob(clock', ps), meant |-> meant]
    BY <1>1, <2>1 DEF Persist
  <2>3. pushing'.blob.has = ps /\ pushing'.meant = meant
    BY <2>2 DEF Blob
  <2>4. ps # {} \/ meant
    BY <1>1, <2>1 DEF Persists
  <2> QED BY <2>3, <2>4 DEF Earned
<1>2. CASE ~Persists(ps, pending)
  BY <1>2 DEF Persist, storeVars
<1> QED BY <1>1, <1>2

\* After restoreLayout() the workspace has panes, or there were settings.
LEMMA RestoreDecides ==
  ASSUME Restore(appBlob, ownBlob), UNCHANGED <<appBlob, ownBlob>>
  PROVE  Decided'
<1>1. panes' # {} \/ (restorePending' = (~appBlob.known /\ ~ownBlob.known))
  BY DEF Restore, Valid
<1> QED BY <1>1 DEF Decided, Seen

\* Each step of the layout.
LEMMA PushKeeps ==
  ASSUME PushInv, LayoutNext
  PROVE  PushInv'
<1>1. ASSUME UNCHANGED <<foreign, login, appBlob, ownBlob>>, pushing' = NoPush \/ Earned(pushing'),
             \A put \in puts' : Earned(put), Decided'
      PROVE  PushInv'
  BY <1>1 DEF PushInv
<1>2. UNCHANGED pushing => pushing' = NoPush \/ Earned(pushing')
  BY DEF PushInv
<1>3. UNCHANGED <<phase, suspended, panes, restorePending, acted, appBlob, ownBlob>> => Decided'
  BY DEF PushInv, Decided, Seen
<1>4. CASE PersistSoon
  <2>1. pushing' = NoPush \/ Earned(pushing')
    BY <1>4, PersistEarns DEF PersistSoon, history, PushInv, Decided
  <2> QED BY <1>1, <1>3, <1>4, <2>1 DEF PersistSoon, history, copies, PushInv
<1>5. CASE LayoutEvent
  BY <1>1, <1>2, <1>3, <1>5 DEF LayoutEvent, copies, history, PushInv
<1>6. CASE Push
  BY <1>1, <1>3, <1>6 DEF Push, copies, history, PushInv
<1>7. ASSUME NEW put \in puts, ServePut(put) \/ PutFails(put)
      PROVE  PushInv'
  BY <1>1, <1>2, <1>3, <1>7 DEF ServePut, PutFails, copies, history, PushInv
<1>8. ASSUME NEW ps \in {{}, Panes}, OtherBrowser(ps)
      PROVE  PushInv'
  <2>1. foreign' \in Nat /\ UNCHANGED <<login, appBlob, ownBlob, pushing, puts>>
    BY <1>8 DEF OtherBrowser, PushInv, copies
  <2> QED BY <1>2, <1>3, <1>8, <2>1 DEF OtherBrowser, copies, PushInv
<1>9. CASE ImportDone
  BY <1>1, <1>2, <1>9, RestoreDecides DEF ImportDone, storeVars, copies, PushInv
<1>10. CASE AskSettings
  BY <1>1, <1>2, <1>3, <1>10 DEF AskSettings, storeVars, history, PushInv
<1>11. CASE SettingsChanged
  <2>1. Seen' /\ ownBlob'.known /\ UNCHANGED <<foreign, pushing, puts>>
    BY <1>11 DEF SettingsChanged, Seen, storeVars
  <2> QED BY <1>2, <2>1 DEF PushInv, Decided
<1>12. ASSUME NEW p \in Panes, OpenSession(p)
       PROVE  PushInv'
  <2>1. acted' /\ Persist(panes', FALSE) /\ UNCHANGED <<foreign, login, appBlob, ownBlob, puts>>
    BY <1>12 DEF OpenSession, copies
  <2>2. pushing' = NoPush \/ Earned(pushing')
    BY <2>1, PersistEarns DEF PushInv
  <2> QED BY <1>1, <2>1, <2>2 DEF PushInv, Decided
<1>13. ASSUME NEW p \in Panes, ClosePane(p)
       PROVE  PushInv'
  <2>1. acted' /\ UNCHANGED <<foreign, login, appBlob, ownBlob, pushing, puts>>
    BY <1>13 DEF ClosePane, copies, storeVars
  <2> QED BY <1>1, <1>2, <2>1 DEF PushInv, Decided
<1>14. CASE ResetLayout
  <2>1. /\ acted' /\ pushing' = NoPush /\ UNCHANGED <<foreign, login, appBlob, ownBlob>>
        /\ puts' = puts \cup {[blob |-> NoBlob, meant |-> TRUE]}
    BY <1>14 DEF ResetLayout, copies
  <2>2. Earned([blob |-> NoBlob, meant |-> TRUE])
    BY DEF Earned
  <2> QED BY <1>1, <2>1, <2>2 DEF PushInv, Decided
<1>15. ASSUME NEW read \in BOOLEAN, ReloadPage(read)
       PROVE  PushInv'
  <2>1. /\ phase' = "importing" /\ login' = "in" /\ pushing' = NoPush /\ UNCHANGED <<puts, foreign>>
    BY <1>15 DEF ReloadPage
  <2> QED BY <2>1 DEF PushInv, Decided
<1>16. ASSUME NEW read \in BOOLEAN, SignIn(read)
       PROVE  PushInv'
  <2>1. /\ login = "out" /\ login' = "starting"
        /\ UNCHANGED <<phase, panes, suspended, restorePending, ownBlob, pushing, puts, foreign, acted>>
    BY <1>16 DEF SignIn, storeVars, history
  <2>2. Decided'
    BY <2>1 DEF PushInv, Decided, Seen
  <2> QED BY <1>2, <2>1, <2>2 DEF PushInv
<1>17. CASE LoseLogin
  <2>1. /\ login' = "out" /\ appBlob' = Unknown /\ UNCHANGED <<foreign, puts, phase>>
        /\ phase = "ready" => suspended' = TRUE \/ (suspended /\ suspended' = suspended)
        /\ pushing' = NoPush \/ UNCHANGED pushing
    BY <1>17 DEF LoseLogin, storeVars
  <2>2. ~Unknown.known
    BY DEF Unknown, NoBlob, Blob
  <2>3. Decided'
    BY <2>1 DEF Decided
  <2> QED BY <1>2, <2>1, <2>2, <2>3 DEF PushInv
<1>18. CASE AuthReady
  <2>1. login' = "in" /\ UNCHANGED <<phase, foreign, pushing, puts, acted, appBlob, ownBlob>>
    BY <1>18 DEF AuthReady, storeVars, copies, history
  <2>2. CASE suspended
    BY <1>2, <1>18, <2>1, <2>2, RestoreDecides DEF AuthReady, PushInv
  <2>3. CASE ~suspended
    <3>1. Decided'
      BY <1>18, <2>1, <2>3 DEF AuthReady, PushInv, Decided, Seen
    <3> QED BY <1>2, <2>1, <3>1 DEF PushInv
  <2> QED BY <2>2, <2>3
<1> QED BY <1>4, <1>5, <1>6, <1>7, <1>8, <1>9, <1>10, <1>11, <1>12, <1>13, <1>14, <1>15, <1>16,
           <1>17, <1>18 DEF LayoutNext

\* who may empty the layout on the server
EmptiedOnPurpose ==
  (serverBlob.has # {} /\ serverBlob'.has = {})
    => \/ foreign' # foreign
       \/ \E put \in puts \ puts' : put.meant

\* A page that knows no settings, and in which nobody has done anything, never empties the
\* layout on the server (web/public/js/code.js: persist, restoreLayout, suspendPanes).
THEOREM LayoutIsLeft == PageSpec => NeverClobbered
<1>1. PageInit => PushInv
  <2> SUFFICES ASSUME PageInit PROVE PushInv
    OBVIOUS
  <2> QED BY DEF PageInit, LayoutInit, PushInv, Decided
<1>2. PushInv /\ [PageNext]_allVars => PushInv'
  <2> SUFFICES ASSUME PushInv, [PageNext]_allVars PROVE PushInv'
    OBVIOUS
  <2>1. CASE UNCHANGED layoutOwn
    BY <2>1 DEF layoutOwn, PushInv, Decided, Seen, Earned
  <2>2. CASE LayoutNext
    BY <2>2, PushKeeps
  <2> QED BY <2>1, <2>2 DEF PageNext, allVars, pageOwn
<1>3. PushInv /\ [PageNext]_allVars => [EmptiedOnPurpose]_layoutVars
  <2> SUFFICES ASSUME PushInv, [PageNext]_allVars, serverBlob.has # {}, serverBlob'.has = {},
                      foreign' = foreign
               PROVE  \E put \in puts \ puts' : put.meant
    BY DEF EmptiedOnPurpose
  <2>1. LayoutNext /\ serverBlob' # serverBlob
    BY DEF PageNext, allVars, pageOwn, layoutOwn
  <2>2. \A ps \in {{}, Panes} : ~OtherBrowser(ps)
    BY DEF OtherBrowser, PushInv
  <2>3. PICK put \in puts : ServePut(put)
    BY <2>1, <2>2 DEF LayoutNext, PersistSoon, LayoutEvent, Push, PutFails, ImportDone, AskSettings,
        SettingsChanged, OpenSession, ClosePane, ResetLayout, ReloadPage, LoseLogin, SignIn, AuthReady
  <2>4. put \in puts \ puts' /\ serverBlob' = put.blob
    BY <2>1, <2>3 DEF ServePut
  <2>5. put.meant
    BY <2>4 DEF PushInv, Earned
  <2> QED BY <2>4, <2>5
<1> QED BY <1>1, <1>2, <1>3, PTL DEF PageSpec, NeverClobbered, EmptiedOnPurpose
=============================================================================
