------------------------------- MODULE Layout --------------------------------
(***************************************************************************)
(* web/public/js/code.js: which panes are on the screen, and the two       *)
(* stores they are kept in, localStorage and config.ui.layout on the       *)
(* server.  A layout is abstracted to the panes in it.  persist() writes   *)
(* the first store at once and the second one behind a debounce; what is   *)
(* restored is the newest layout that has panes.  Import of GoldenLayout,  *)
(* settings, logins and both debounces take their time.                    *)
(***************************************************************************)
EXTENDS Page

CONSTANTS
  Panes,
  MaxClock,     \* bound: Date.now(), which a snapshot and another browser move on
  MaxForeign    \* bound: layouts that another browser stores

VARIABLES
  phase,        \* "importing" until layout is created, then "ready"
  login,        \* "in", "out", or "starting": startApp() has read the settings
  panes,        \* the panes on the screen
  suspended, restorePending,
  localBlob,    \* localStorage
  serverBlob,   \* config.ui.layout
  appBlob,      \* ui.layout in the settings of app.js, if it has any
  ownBlob,      \* ui.layout in the settings of settings.js, if it has any
  reading,      \* GET /api/settings of settings.js, as the server answered it
  soon,         \* persistSoon is armed
  pushing,      \* pushLayoutToServer is armed with this, and (history) the page
                \* knew the settings or the user had acted when it was
  puts,         \* PUT /api/settings/ui in flight
  clock, foreign,   \* counters of the bounds
  atLogout,     \* history: the panes that suspendPanes() took down
  foreignAt,    \* history: when another browser stored last
  acted         \* history: the user opened, closed or reset panes on this page

layoutOwn  == <<phase, login, panes, suspended, restorePending, localBlob, serverBlob, appBlob,
                ownBlob, reading, soon, pushing, puts, clock, foreign, atLogout, foreignAt, acted>>
layoutVars == <<layoutOwn, user, fails>>

storeVars == <<localBlob, pushing, clock>>
history   == <<atLogout, foreignAt, acted>>
copies    == <<appBlob, ownBlob, reading>>

Blob(at, has) == [known |-> TRUE, at |-> at, has |-> has]
NoBlob        == Blob(0, {})                       \* ui.layout is null
Unknown       == [NoBlob EXCEPT !.known = FALSE]   \* there is no copy of the settings
NoPush        == [blob |-> Unknown, meant |-> FALSE]   \* the debounce is not armed

LayoutInit ==
  /\ phase = "importing" /\ login = "in"
  /\ panes = {} /\ suspended = FALSE /\ restorePending = FALSE
  /\ localBlob \in Among("layout", {NoBlob, Blob(1, {CHOOSE p \in Panes : TRUE}), Blob(1, {})})
  /\ serverBlob \in Among("layout", {NoBlob, Blob(2, Panes)})
  /\ appBlob \in Among("layout", {Unknown, serverBlob})
  /\ ownBlob = Unknown /\ reading = Unknown
  /\ soon = FALSE /\ pushing = NoPush /\ puts = {}
  /\ clock = 2 /\ foreign = 0
  /\ atLogout = {} /\ foreignAt = 0 /\ acted = FALSE

-----------------------------------------------------------------------------
(* storing *)

\* settingsSeen(): some answer to GET /api/settings is known to the page
Seen == appBlob.known \/ ownBlob.known

\* mutant: the decision what to restore is not waited for
PersistAlways(ps, pending) == phase = "ready" /\ ~suspended

\* persist() has something to write: a layout without panes does not replace
\* one that this page has not been told of
Persists(ps, pending) == phase = "ready" /\ ~suspended /\ ~(pending /\ ps = {})

\* persist(), with the panes that are on the screen by now
Persist(ps, pending) ==
  IF Persists(ps, pending)
  THEN /\ clock' = clock + 1
       /\ localBlob' = Blob(clock', ps)
       /\ pushing' = [blob |-> localBlob', meant |-> acted' \/ Seen]
  ELSE UNCHANGED storeVars

\* persistSoon() fires 250 ms after the last event of the layout
PersistSoon ==
  /\ soon
  /\ clock < MaxClock
  /\ soon' = FALSE
  /\ UNCHANGED history
  /\ Persist(panes, restorePending)
  /\ UNCHANGED <<phase, login, panes, suspended, restorePending, serverBlob, copies, puts,
                 foreign, user, fails>>

\* a tab is dragged, a pane learns its host, a session ends
LayoutEvent ==
  /\ phase = "ready" /\ ~soon
  /\ UserDoes
  /\ soon' = TRUE
  /\ UNCHANGED <<phase, login, panes, suspended, restorePending, localBlob, serverBlob, copies,
                 pushing, puts, clock, foreign, history, fails>>

\* the debounce of pushLayoutToServer ends
Push ==
  /\ pushing # NoPush
  /\ puts' = puts \cup {pushing}
  /\ pushing' = NoPush
  /\ UNCHANGED <<phase, login, panes, suspended, restorePending, localBlob, serverBlob, copies,
                 soon, clock, foreign, history, user, fails>>

\* the server stores what arrives, in the order it arrives
ServePut(put) ==
  /\ put \in puts
  /\ puts' = puts \ {put}
  /\ serverBlob' = IF login = "out" THEN serverBlob ELSE put.blob
  /\ UNCHANGED <<phase, login, panes, suspended, restorePending, localBlob, copies, soon, pushing,
                 clock, foreign, history, user, fails>>

\* failures are never surfaced
PutFails(put) ==
  /\ put \in puts
  /\ Fails
  /\ puts' = puts \ {put}
  /\ UNCHANGED <<phase, login, panes, suspended, restorePending, localBlob, serverBlob, copies, soon,
                 pushing, clock, foreign, history, user>>

OtherBrowser(ps) ==
  /\ foreign < MaxForeign /\ clock < MaxClock
  /\ foreign' = foreign + 1
  /\ clock' = clock + 1
  /\ serverBlob' = Blob(clock', ps)
  /\ foreignAt' = clock'
  /\ UNCHANGED <<phase, login, panes, suspended, restorePending, localBlob, copies, soon, pushing,
                 puts, atLogout, acted, user, fails>>

-----------------------------------------------------------------------------
(* restoring *)

\* validBlob(): a layout whose last pane was closed has no root and is none
Valid(blob) == blob.has # {}

\* the newer of two layouts, if either is one
Newer(one, other) ==
  IF Valid(other) /\ (~Valid(one) \/ other.at > one.at) THEN other ELSE one

\* restoreLayout(): the layout to load, of localStorage and of both copies of
\* the settings; without any the decision stays open until there are settings
Restore(app, own) ==
  LET blob == Newer(localBlob, Newer(own, app)) IN
  IF Valid(blob)
  THEN panes' = blob.has /\ restorePending' = FALSE /\ soon' = TRUE
  ELSE panes' = panes /\ restorePending' = (~app.known /\ ~own.known) /\ soon' = soon

\* loadGoldenLayout() has answered, and init() goes on
ImportDone ==
  /\ phase = "importing"
  /\ phase' = "ready"
  /\ Restore(appBlob, ownBlob)
  /\ UNCHANGED <<login, suspended, storeVars, serverBlob, copies, puts, foreign, history, user, fails>>

\* reload() of settings.js: init() calls it, and every visit of the settings
AskSettings ==
  /\ login = "in" /\ ~reading.known
  /\ UserDoes
  /\ reading' = serverBlob
  /\ UNCHANGED <<phase, login, panes, suspended, restorePending, storeVars, serverBlob, appBlob,
                 ownBlob, soon, puts, foreign, history, fails>>

\* SETTINGS_CHANGED: app.js keeps the settings too, and an open decision is made
SettingsChanged ==
  /\ reading.known
  /\ ownBlob' = reading /\ appBlob' = reading /\ reading' = Unknown
  /\ IF restorePending /\ phase = "ready" /\ ~suspended /\ panes = {}
     THEN Restore(reading, reading)
     ELSE restorePending' = FALSE /\ UNCHANGED <<panes, soon>>
  /\ UNCHANGED <<phase, login, suspended, storeVars, serverBlob, puts, foreign, history, user, fails>>

-----------------------------------------------------------------------------
(* the user *)

\* nextFreeName() and openSession(), which makes the decision moot
OpenSession(p) ==
  /\ login = "in" /\ phase = "ready" /\ p \notin panes
  /\ UserDoes
  /\ panes' = panes \cup {p}
  /\ restorePending' = FALSE
  /\ acted' = TRUE
  /\ Persist(panes', FALSE)
  /\ soon' = TRUE
  /\ UNCHANGED <<phase, login, suspended, serverBlob, copies, puts, foreign, atLogout, foreignAt, fails>>

\* 'destroy' of a pane that the user closes
ClosePane(p) ==
  /\ login = "in" /\ p \in panes
  /\ UserDoes
  /\ panes' = panes \ {p}
  /\ soon' = TRUE /\ acted' = TRUE
  /\ UNCHANGED <<phase, login, suspended, restorePending, storeVars, serverBlob, copies, puts,
                 foreign, atLogout, foreignAt, fails>>

\* resetLayout() and clearPersistedLayout(), which leaves the copies alone
ResetLayout ==
  /\ login = "in" /\ phase = "ready"
  /\ UserDoes
  /\ panes' = {} /\ restorePending' = FALSE
  /\ soon' = FALSE /\ pushing' = NoPush
  /\ localBlob' = NoBlob
  /\ puts' = puts \cup {[blob |-> NoBlob, meant |-> TRUE]}
  /\ acted' = TRUE
  /\ UNCHANGED <<phase, login, suspended, serverBlob, copies, clock, foreign, atLogout, foreignAt, fails>>

\* a new page: the timers are gone, a request may have left
ReloadPage(read) ==
  /\ login = "in"
  /\ UserDoes
  /\ phase' = "importing"
  /\ panes' = {} /\ suspended' = FALSE /\ restorePending' = FALSE
  /\ appBlob' = IF read THEN serverBlob ELSE Unknown
  /\ ownBlob' = Unknown /\ reading' = Unknown
  /\ soon' = FALSE /\ pushing' = NoPush
  /\ atLogout' = {} /\ acted' = FALSE
  /\ IF read THEN UNCHANGED fails ELSE Fails
  /\ UNCHANGED <<login, localBlob, serverBlob, puts, clock, foreign, foreignAt>>

-----------------------------------------------------------------------------
(* losing the login, and having it again *)

\* mutant: the layout is kept as it was stored last
SuspendOnly == UNCHANGED <<localBlob, clock>>

\* the layout is stored here before it is taken down, and pushed later
StoreFirst ==
  IF Persists(panes, restorePending)
  THEN clock' = clock + 1 /\ localBlob' = Blob(clock', panes)
  ELSE UNCHANGED <<localBlob, clock>>

\* AUTH_LOST and suspendPanes(), which is a no-op before the import is done
LoseLogin ==
  /\ login = "in"
  /\ UserDoes
  /\ login' = "out"
  /\ appBlob' = Unknown
  /\ IF phase = "ready" /\ ~suspended
     THEN /\ StoreFirst
          /\ suspended' = TRUE
          /\ panes' = {} /\ soon' = FALSE /\ pushing' = NoPush
          /\ atLogout' = panes
     ELSE UNCHANGED <<storeVars, suspended, panes, soon, atLogout>>
  /\ UNCHANGED <<phase, restorePending, serverBlob, ownBlob, reading, puts, foreign, foreignAt, acted, fails>>

\* startApp() after a login: the settings are read again, or not
SignIn(read) ==
  /\ login = "out"
  /\ login' = "starting"
  /\ appBlob' = IF read THEN serverBlob ELSE Unknown
  /\ IF read THEN UNCHANGED fails ELSE Fails
  /\ UNCHANGED <<phase, panes, suspended, restorePending, storeVars, serverBlob, ownBlob, reading,
                 soon, puts, foreign, history, user>>

\* AUTH_READY and resumePanes()
AuthReady ==
  /\ login = "starting"
  /\ login' = "in"
  /\ suspended' = FALSE
  /\ IF suspended THEN Restore(appBlob, ownBlob) ELSE UNCHANGED <<panes, restorePending, soon>>
  /\ UNCHANGED <<phase, storeVars, serverBlob, copies, puts, foreign, history, user, fails>>

LayoutNext ==
  \/ PersistSoon \/ LayoutEvent \/ Push
  \/ \E put \in puts : ServePut(put) \/ PutFails(put)
  \/ \E ps \in {{}, Panes} : OtherBrowser(ps)
  \/ ImportDone \/ AskSettings \/ SettingsChanged
  \/ \E p \in Panes : OpenSession(p) \/ ClosePane(p)
  \/ ResetLayout
  \/ \E read \in BOOLEAN : ReloadPage(read) \/ SignIn(read)
  \/ LoseLogin \/ AuthReady

-----------------------------------------------------------------------------
(* Who signs in again has the panes that the loss of the login took down,  *)
(* whatever was stored, pushed, answered late or lost before, unless some  *)
(* other browser has stored a newer layout.                                *)
PanesComeBack ==
  [][(suspended /\ ~suspended' /\ atLogout # {} /\ localBlob.at > foreignAt)
       => panes' = atLogout]_layoutVars

(* A page that knows no settings yet, and in which nobody has done         *)
(* anything, never empties the layout on the server: events of the empty   *)
(* workspace, a login lost and found, and answers that come late leave it. *)
NeverClobbered ==
  [][(serverBlob.has # {} /\ serverBlob'.has = {})
       => \/ foreign' # foreign
          \/ \E put \in puts \ puts' : put.meant]_layoutVars
=============================================================================
