-------------------------------- MODULE Shell --------------------------------
(***************************************************************************)
(* web/public/js/app.js: the login modal, startApp() and what a 401 does   *)
(* to them; the poll of the container list (containers.js) that app.js     *)
(* starts and stops over the bus; and the way settings.js finds out        *)
(* whether a 401 was about the password or about the login.  An answer of  *)
(* the server and what the page does with it up to its next await are one  *)
(* step.                                                                   *)
(***************************************************************************)
EXTENDS Page

CONSTANTS
  Starters,     \* who runs startApp(): "boot", and "login" behind its button
  Lists,        \* GET /api/containers in flight
  MaxEnds,      \* bound: logins that end (expiry, a password change elsewhere)
  MaxChanges    \* bound: changes of the list on the server

ASSUME ShellAssumption == {"boot", "login"} \subseteq Starters

VARIABLES
  cookie,       \* the server accepts the page's cookie
  wanted,       \* loginVisible; #app-shell is hidden exactly then
  modal,        \* what Bootstrap has of the login modal, its moves included
  starting,     \* per starter: the step of startApp() that is awaited
  wired,        \* the views' init() have run: they listen to the bus
  viewsReady,
  submitting,   \* the submit button is disabled
  leaving,      \* POST /auth/logout is in flight
  verifying,    \* changePassword(): "password", then "me", in flight
  timer,        \* pollTimer is armed
  lists,        \* per request: "none", or who asked and what the server said
  rows,         \* the list on the screen, by the version of its answer
  world,        \* the version the server has
  away,         \* the tab is hidden, or a modal of the views is open
  ends          \* counter of the bound on them

loginVars == <<cookie, wanted, modal, starting, wired, viewsReady, submitting, leaving, verifying>>
pollVars  == <<timer, lists, rows, world, away>>
counters  == <<user, fails, ends>>
shellOwn  == <<loginVars, pollVars, ends>>
shellVars == <<loginVars, pollVars, counters>>

Idle  == [by |-> "none", says |-> "none", version |-> 0]

ShellInit ==
  /\ cookie \in Among("shell", BOOLEAN)
  /\ wanted = FALSE
  /\ modal = "hidden"
  /\ starting = [s \in Starters |-> IF s = "boot" THEN "me" ELSE "none"]
  /\ wired = FALSE /\ viewsReady = FALSE
  /\ submitting = FALSE /\ leaving = FALSE
  /\ verifying = "none"
  /\ timer = FALSE
  /\ lists = [l \in Lists |-> Idle]
  /\ rows = 0 /\ world = 0
  /\ away = FALSE
  /\ ends = 0

-----------------------------------------------------------------------------
(* the login modal *)

Moving == {"showing", "hiding"}

\* syncLoginModal(): Bootstrap ignores show() and hide() during a transition
\* and of a modal that is there already
Synced(is, want) ==
  CASE is = "hidden" /\ want  -> "showing"
    [] is = "shown" /\ ~want  -> "hiding"
    [] OTHER                  -> is

\* mutant: a transition that ends is not followed by another one
SettleOnly(is, want) == is

\* what the end of a transition is followed by
Settle(is, want) == Synced(is, want)

\* shown.bs.modal, hidden.bs.modal
TransitionEnds ==
  /\ modal \in Moving
  /\ modal' = Settle(IF modal = "showing" THEN "shown" ELSE "hidden", wanted)
  /\ UNCHANGED <<cookie, wanted, starting, wired, viewsReady, submitting, leaving, verifying,
                 pollVars, counters>>

ShowLogin ==
  /\ wanted' = TRUE
  /\ modal' = Synced(modal, TRUE)

\* AUTH_LOST stops the poll; a poll that is being awaited goes on
AuthLost == timer' = IF wired THEN FALSE ELSE timer

\* a 401: AUTH_REQUIRED, which is heeded once
AuthRequired ==
  IF wanted THEN UNCHANGED <<wanted, modal, timer>> ELSE AuthLost /\ ShowLogin

\* what an answer to a request of this page is
Answer == IF cookie THEN "ok" ELSE "401"

-----------------------------------------------------------------------------
(* GET /api/containers *)

\* a request that has no slot is one that the bound on Lists cuts off
Request(by) ==
  LET free == {l \in Lists : lists[l] = Idle} IN
  /\ free # {}
  /\ lists' = [lists EXCEPT ![CHOOSE l \in free : TRUE] = [Idle EXCEPT !.by = by]]

ServeList(l) ==
  /\ lists[l].by # "none" /\ lists[l].says = "none"
  /\ lists' = [lists EXCEPT ![l].says = Answer, ![l].version = world]
  /\ UNCHANGED <<loginVars, timer, rows, world, away, counters>>

\* mutant: a poll that fails is the last one
RearmOnSuccess(by, says) == by \in {"tick", "init"} /\ says = "ok"

\* tick() and init() go on when their reload() has ended, however it has
Rearm(by, says) == by \in {"tick", "init"}

\* reload(): the rows are those of the answer that comes last
DeliverList(l) ==
  LET answer == lists[l] IN
  /\ answer.says # "none"
  /\ lists' = [lists EXCEPT ![l] = Idle]
  /\ rows' = IF answer.says = "ok" THEN answer.version ELSE rows
  /\ IF answer.says = "401" /\ ~wanted THEN ShowLogin ELSE UNCHANGED <<wanted, modal>>
  /\ timer' = (Rearm(answer.by, answer.says) \/ (timer /\ (answer.says = "401" => wanted)))
  /\ UNCHANGED <<cookie, starting, wired, viewsReady, submitting, leaving, verifying,
                 world, away, counters>>

ListFails(l) ==
  /\ lists[l].by # "none"
  /\ Fails
  /\ lists' = [lists EXCEPT ![l] = Idle]
  /\ timer' = (Rearm(lists[l].by, "failed") \/ timer)
  /\ UNCHANGED <<loginVars, rows, world, away, user, ends>>

\* tick() of a page that is hidden or shows a modal waits for the next one
TickSkips ==
  /\ timer
  /\ away \/ modal \in {"showing", "shown"}
  /\ UNCHANGED shellVars

Tick ==
  /\ timer
  /\ ~away /\ modal # "shown"
  /\ Request("tick")
  /\ timer' = FALSE
  /\ UNCHANGED <<loginVars, rows, world, away, counters>>

\* the refresh button, show(), and what every action on a row ends with
Refresh ==
  /\ viewsReady /\ ~wanted
  /\ UserDoes
  /\ Request("user")
  /\ UNCHANGED <<loginVars, timer, rows, world, away, ends, fails>>

-----------------------------------------------------------------------------
(* startApp() *)

StartApp(s) ==
  /\ starting' = [starting EXCEPT ![s] = "settings"]
  /\ wanted' = FALSE

\* GET /api/auth/me has answered, or not
Boot(me) ==
  /\ starting["boot"] = "me"
  /\ IF me
     THEN cookie /\ StartApp("boot") /\ UNCHANGED <<modal, fails>>
     ELSE /\ ShowLogin
          /\ starting' = [starting EXCEPT !["boot"] = "none"]
          /\ IF cookie THEN Fails ELSE UNCHANGED fails
  /\ UNCHANGED <<cookie, wired, viewsReady, submitting, leaving, verifying, pollVars, user, ends>>

\* loadSettings() and loadGlobals() survive every failure; a 401 is told
Load(s, from, to) ==
  /\ starting[s] = from
  /\ starting' = [starting EXCEPT ![s] = to]
  /\ IF cookie THEN UNCHANGED <<wanted, modal, timer>> ELSE AuthRequired
  /\ UNCHANGED <<cookie, viewsReady, submitting, leaving, verifying, rows, world, away, counters>>

LoadSettings(s) == Load(s, "settings", "globals") /\ UNCHANGED <<wired, lists>>

\* then init() of every view, which runs once whoever calls it
LoadGlobals(s) ==
  /\ Load(s, "globals", IF wired THEN "views" ELSE "inits")
  /\ wired' = TRUE
  /\ IF wired THEN UNCHANGED lists ELSE Request("init")

\* AUTH_READY starts the poll and reloads, whoever is signed in by now
ViewsReady(s) ==
  /\ starting[s] \in {"inits", "views"}
  /\ starting[s] = "inits" => \A l \in Lists : lists[l].by # "init"
  /\ starting' = [starting EXCEPT ![s] = "none"]
  /\ viewsReady' = TRUE
  /\ submitting' = IF s = "login" THEN FALSE ELSE submitting
  /\ timer' = TRUE
  /\ Request("ready")
  /\ UNCHANGED <<cookie, wanted, modal, wired, leaving, verifying, rows, world, away, counters>>

-----------------------------------------------------------------------------
(* signing in and out *)

\* the form can be sent while the modal is still on its way in
SubmitLogin ==
  /\ modal \in {"showing", "shown"} /\ wanted
  /\ ~submitting
  /\ UserDoes
  /\ submitting' = TRUE
  /\ UNCHANGED <<cookie, wanted, modal, starting, wired, viewsReady, leaving, verifying, pollVars, ends, fails>>

LoginAnswered(right) ==
  /\ submitting /\ starting["login"] = "none"
  /\ IF right
     THEN /\ cookie' = TRUE
          /\ StartApp("login")
          /\ modal' = Synced(modal, FALSE)
          /\ UNCHANGED submitting
     ELSE /\ submitting' = FALSE
          /\ UNCHANGED <<cookie, wanted, modal, starting>>
  /\ UNCHANGED <<wired, viewsReady, leaving, verifying, pollVars, counters>>

Logout ==
  /\ ~wanted /\ ~leaving /\ wired
  /\ UserDoes
  /\ leaving' = TRUE
  /\ UNCHANGED <<cookie, wanted, modal, starting, wired, viewsReady, submitting, verifying, pollVars, ends, fails>>

\* logging out here is enough, whatever the server says
LogoutAnswered(ok) ==
  /\ leaving
  /\ leaving' = FALSE
  /\ IF ok THEN cookie' = FALSE /\ UNCHANGED fails ELSE Fails /\ UNCHANGED cookie
  /\ AuthLost
  /\ ShowLogin
  /\ UNCHANGED <<starting, wired, viewsReady, submitting, verifying, lists, rows, world, away, user, ends>>

\* changePassword(): 401 may mean a wrong password or a login that is over
ChangePassword ==
  /\ viewsReady /\ ~wanted /\ verifying = "none"
  /\ UserDoes
  /\ verifying' = "password"
  /\ UNCHANGED <<cookie, wanted, modal, starting, wired, viewsReady, submitting, leaving, pollVars, ends, fails>>

PasswordAnswered(refused) ==
  /\ verifying = "password"
  /\ ~cookie => refused
  /\ verifying' = IF refused THEN "me" ELSE "none"
  /\ UNCHANGED <<cookie, wanted, modal, starting, wired, viewsReady, submitting, leaving, pollVars, counters>>

MeAnswered ==
  /\ verifying = "me"
  /\ verifying' = "none"
  /\ IF cookie THEN UNCHANGED <<wanted, modal, timer>> ELSE AuthRequired
  /\ UNCHANGED <<cookie, starting, wired, viewsReady, submitting, leaving, lists, rows, world, away, counters>>

-----------------------------------------------------------------------------
(* around the page *)

LoginEnds ==
  /\ cookie /\ ends < MaxEnds
  /\ cookie' = FALSE
  /\ ends' = ends + 1
  /\ UNCHANGED <<wanted, modal, starting, wired, viewsReady, submitting, leaving, verifying, pollVars, user, fails>>

ListChanges ==
  /\ world < MaxChanges
  /\ world' = world + 1
  /\ UNCHANGED <<loginVars, timer, lists, rows, away, counters>>

LookAway ==
  /\ away' = ~away
  /\ IF away THEN UNCHANGED user ELSE UserDoes
  /\ UNCHANGED <<loginVars, timer, lists, rows, world, ends, fails>>

ShellPage ==
  \/ TransitionEnds
  \/ \E l \in Lists : ServeList(l) \/ DeliverList(l)
  \/ Tick
  \/ \E s \in Starters : LoadSettings(s) \/ LoadGlobals(s) \/ ViewsReady(s)
  \/ \E right \in BOOLEAN : LoginAnswered(right)
  \/ LogoutAnswered(TRUE)
  \/ \E refused \in BOOLEAN : PasswordAnswered(refused)
  \/ MeAnswered

ShellNext ==
  \/ ShellPage
  \/ TickSkips
  \/ \E me \in BOOLEAN : Boot(me)
  \/ \E l \in Lists : ListFails(l)
  \/ LogoutAnswered(FALSE)
  \/ Refresh \/ SubmitLogin \/ Logout \/ ChangePassword
  \/ LoginEnds \/ ListChanges \/ LookAway

\* timers fire, transitions end, requests are answered
ShellFairness ==
  /\ WF_shellVars(part = "shell" /\ ShellPage)
  /\ WF_shellVars(part = "shell" /\ Tick)
  /\ \A l \in Lists : /\ WF_shellVars(part = "shell" /\ ServeList(l))
                     /\ WF_shellVars(part = "shell" /\ DeliverList(l))

-----------------------------------------------------------------------------
(* Whenever the login modal stands still it is there exactly when the page *)
(* has no login: submitting during its way in, or a 401 during its way     *)
(* out, leaves neither a backdrop over the shell nor a page without form.  *)
LoginFollows == modal \notin Moving => (modal = "shown" <=> wanted)

\* somebody looks at the page, and it thinks it is signed in
Attended == viewsReady /\ ~wanted /\ ~away

(* A page that is attended for good has the list the server has, and a     *)
(* login that is good: the poll outlives failed requests, modals, answers  *)
(* that overtake each other, and logins that end while startApp() runs;    *)
(* and it is what finds out that a login has ended.                        *)
ListCatchesUp == <>[]Attended => <>[](cookie /\ rows = world)
=============================================================================
