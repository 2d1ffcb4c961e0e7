----------------------------- MODULE SessionPane -----------------------------
(***************************************************************************)
(* A pane of the browser (web/public/js/session.js) and the bridge it      *)
(* talks to.  A pane holds at most one websocket; what its close means     *)
(* depends on the code: the shell exited, the container is down (the pane  *)
(* offers to start it), the container is gone, or try again.  Some closes  *)
(* are looked into by asking the API, and the answer comes when the pane   *)
(* may be elsewhere.                                                       *)
(*                                                                         *)
(* The user closes a pane, or leaves: a reload, a layout that is restored  *)
(* and an expired login drop the pane and build it anew under its name.    *)
(***************************************************************************)
EXTENDS SessionBridge

CONSTANT MaxVisits  \* bound: panes that are built anew

ASSUME PaneAssumption == MaxVisits \in Nat

VARIABLES
  pane,    \* the panes, see NewPane
  ended,   \* history: panes whose shell the user has asked to end
  visits

vars == <<bridgeVars, pane, ended, visits>>
history == <<ended, visits>>

NewPane ==
  [status |-> "connecting",  \* or "open", "closed", "reconnecting", "fatal"
   gone |-> FALSE,           \* disposed
   ws |-> None, up |-> FALSE, \* its connection, and whether onopen was called
   dial |-> TRUE,            \* connect is to be called: a retry timer, a click
   awaitEnter |-> FALSE,
   signal |-> FALSE,         \* _signalExit is set: the exec ended with 137
   note |-> "none",          \* the note: "retry", "start", "retryStart"
   starting |-> FALSE,       \* POST start, in flight
   asks |-> {},              \* questions to the API, in flight
   calm |-> 0]               \* history: trouble + 1 when the user closed a pane
                             \* that was attached, and nobody else was opening it

Init ==
  /\ BridgeInit
  /\ pane = [p \in Panes |-> NewPane]
  /\ ended = {} /\ visits = 0

SetPane(p, r) == pane' = [pane EXCEPT ![p] = r]

Free == {c \in Conns : conn[c] = NoConn /\ \A p \in Panes : pane[p].ws # c}

\* _scheduleReconnect
Schedule(r, note) ==
  IF r.gone THEN r ELSE [r EXCEPT !.status = "reconnecting", !.dial = TRUE, !.note = note]

\* _showNotRunningNote
ShowNotRunning(r) == [r EXCEPT !.signal = FALSE, !.note = "start"]

-----------------------------------------------------------------------------
(* The websocket. *)

\* connect: a pane that is gone or has a socket ignores it
Dial(p, c, r, conns) ==
  IF r.gone \/ r.ws # None
  THEN SetPane(p, [r EXCEPT !.dial = FALSE]) /\ conn' = conns
  ELSE /\ Free # {} /\ c = CHOOSE d \in Free : TRUE
       /\ conn' = [conns EXCEPT ![c] = Dialed(p)]
       /\ SetPane(p, [r EXCEPT !.ws = c, !.up = FALSE, !.dial = FALSE, !.status = "connecting",
                               !.awaitEnter = FALSE, !.signal = FALSE, !.note = "none"])

\* attach, or the retry timer
Connect(p, c) ==
  /\ pane[p].dial
  /\ Dial(p, c, pane[p], conn)
  /\ UNCHANGED <<worldVars, probe, streams, history>> /\ Untroubled

\* Enter, or the button of a note
UserConnects(p, c) ==
  LET r == pane[p] IN
  /\ (r.awaitEnter /\ r.ws = None) \/ r.note \in {"retry", "retryStart"}
  /\ Dial(p, c, r, conn)
  /\ UNCHANGED <<worldVars, probe, streams, history>> /\ Untroubled

\* onopen
Opened(p) ==
  LET r == pane[p] IN
  /\ r.ws # None /\ ~r.up
  /\ conn[r.ws].link /\ conn[r.ws].pc # "asked"
  /\ SetPane(p, [r EXCEPT !.up = TRUE])
  /\ UNCHANGED <<bridgeVars, history>>

\* mutant: a container that is down is a lost connection like any other
OnCloseRetries(r, code) ==
  CASE code = "1000" /\ r.signal ->
         [ShowNotRunning(r) EXCEPT !.status = "closed", !.awaitEnter = TRUE,
                                   !.asks = @ \cup {"signal"}]
    [] code = "1000" /\ ~r.signal ->
         [r EXCEPT !.status = "closed", !.awaitEnter = TRUE, !.note = "none",
                   !.asks = @ \cup {"exit"}]
    [] code = "4404" -> [r EXCEPT !.status = "fatal", !.note = "retry"]
    [] code \in {"4409", "4502", "1006"} ->
         IF r.up THEN Schedule(r, "retry") ELSE [r EXCEPT !.asks = @ \cup {"auth"}]

\* _onClose
OnClose(r, code) ==
  CASE code = "1000" /\ r.signal ->
         [ShowNotRunning(r) EXCEPT !.status = "closed", !.awaitEnter = TRUE,
                                   !.asks = @ \cup {"signal"}]
    [] code = "1000" /\ ~r.signal ->
         [r EXCEPT !.status = "closed", !.awaitEnter = TRUE, !.note = "none",
                   !.asks = @ \cup {"exit"}]
    [] code = "4404" -> [r EXCEPT !.status = "fatal", !.note = "retry"]
    [] code = "4409" -> Schedule([r EXCEPT !.signal = FALSE], "retryStart")
    [] code \in {"4502", "1006"} ->
         IF r.up THEN Schedule(r, "retry") ELSE [r EXCEPT !.asks = @ \cup {"auth"}]

\* onmessage and onclose
Read(p) ==
  LET r == pane[p]
      c == r.ws
      f == Head(conn[c].down) IN
  /\ c # None /\ conn[c].link /\ r.up /\ conn[c].down # <<>>
  /\ CASE f.type = "ready" ->
            /\ SetPane(p, [r EXCEPT !.status = "open", !.signal = FALSE, !.note = "none"])
            /\ Set(c, [conn[c] EXCEPT !.down = Tail(@)])
       [] f.type = "exit" ->
            /\ SetPane(p, [r EXCEPT !.signal = f.code = "137"])
            /\ Set(c, [conn[c] EXCEPT !.down = Tail(@)])
       [] f.type = "close" ->
            /\ SetPane(p, OnClose([r EXCEPT !.ws = None], f.code))
            /\ Set(c, [conn[c] EXCEPT !.down = <<>>, !.link = FALSE])
  /\ UNCHANGED <<worldVars, probe, streams, history>> /\ Untroubled

\* onclose of a socket that broke
Lost(p) ==
  LET r == pane[p] IN
  /\ r.ws # None /\ ~conn[r.ws].link
  /\ SetPane(p, OnClose([r EXCEPT !.ws = None], "1006"))
  /\ UNCHANGED <<bridgeVars, history>>

-----------------------------------------------------------------------------
(* Questions to the API. *)

\* _containerStopped polls until the container is down or, long after a stop
\* would have landed, still is up
Answers ==
  CASE box = "running" -> {"running"}
    [] box = "stopped" -> {"stopped"}
    [] box = "absent"  -> {"unknown"}
    [] OTHER           -> {}

\* _checkAuthThenReconnect (the login holds), _noteIfContainerStopped and
\* _confirmSignalExit, back from their await
Heed(r, q, answer) ==
  CASE q = "auth" -> Schedule(r, "retry")
    [] q # "auth" /\ (r.ws # None \/ ~r.awaitEnter) -> r
    [] OTHER -> CASE q = "exit" /\ answer = "stopped" -> ShowNotRunning(r)
                  [] q = "signal" /\ answer = "running" -> Schedule(r, "retry")
                  [] OTHER -> r

Answered(p) ==
  LET r == pane[p] IN
  /\ \E q \in r.asks, answer \in {"running", "stopped", "unknown"} :
       /\ \/ answer \in Answers /\ Untroubled
          \/ answer = "unknown" /\ Trouble
       /\ SetPane(p, Heed([r EXCEPT !.asks = @ \ {q}], q, answer))
  /\ UNCHANGED <<worldVars, probe, streams, conn, history>>

\* _startContainer; a retry timer that is set keeps running
AskStart(p) ==
  LET r == pane[p] IN
  /\ r.note \in {"start", "retryStart"} /\ ~r.starting
  /\ SetPane(p, [r EXCEPT !.starting = TRUE, !.signal = FALSE, !.note = "none"])
  /\ UNCHANGED <<bridgeVars, history>>

StartAnswered(p, c) ==
  LET r == [pane[p] EXCEPT !.starting = FALSE] IN
  /\ pane[p].starting
  /\ \/ /\ box \in {"running", "stopped"}
        /\ box' = "running"
        /\ Dial(p, c, r, IF box = "stopped" THEN Restarted ELSE conn)
        /\ Untroubled
     \/ /\ SetPane(p, Schedule(r, "retryStart"))
        /\ UNCHANGED <<box, conn>>
        /\ IF box = "absent" THEN Untroubled ELSE Trouble
  /\ UNCHANGED <<hasTmux, shells, probe, streams, history>>

-----------------------------------------------------------------------------
(* The user. *)

\* what dispose sends; a socket that is not open yet is just dropped
HangUp(r, frames) ==
  IF r.ws = None THEN conn
  ELSE [conn EXCEPT ![r.ws] = IF r.up THEN Swept([@ EXCEPT !.up = frames])
                                      ELSE Swept([@ EXCEPT !.link = FALSE])]

\* the connection is attached at both ends, to an exec that runs, and no other
\* one is being opened
Calm(p) ==
  LET r == pane[p] IN
  /\ r.ws # None /\ r.status = "open"
  /\ conn[r.ws].link /\ conn[r.ws].held /\ ~conn[r.ws].closed
  /\ conn[r.ws].exec = "live"
  /\ \A c \in Conns \ {r.ws} : conn[c].pane = p => conn[c].pc \in {"done", "live"}

\* dispose({ kill: true })
ClosePane(p) ==
  LET r == pane[p] IN
  /\ ~r.gone
  /\ conn' = HangUp(r, <<"kill", "4001">>)
  /\ SetPane(p, [NewPane EXCEPT !.status = "closed", !.gone = TRUE, !.dial = FALSE,
                                !.starting = r.starting,
                                !.calm = IF Calm(p) THEN trouble + 1 ELSE 0])
  /\ ended' = ended \cup {p}
  /\ UNCHANGED <<worldVars, probe, streams, visits>> /\ Untroubled

NewVisit == visits < MaxVisits /\ visits' = visits + 1

\* dispose() and the same pane again
Leave(p) ==
  LET r == pane[p] IN
  /\ ~r.gone
  /\ conn' = HangUp(r, <<"1001">>)
  /\ SetPane(p, NewPane)
  /\ NewVisit
  /\ UNCHANGED <<worldVars, probe, streams, ended>> /\ Untroubled

\* a new pane: nextFreeName takes a name as soon as no pane has it
Reopen(p) ==
  /\ pane[p].gone
  /\ SetPane(p, NewPane)
  /\ NewVisit
  /\ UNCHANGED <<bridgeVars, ended>>

-----------------------------------------------------------------------------
\* the browser by itself
Run(p) ==
  \/ \E c \in Conns : Connect(p, c) \/ StartAnswered(p, c)
  \/ Opened(p) \/ Read(p) \/ Lost(p) \/ Answered(p)

UserNext(p) ==
  \/ \E c \in Conns : UserConnects(p, c)
  \/ AskStart(p) \/ ClosePane(p) \/ Leave(p) \/ Reopen(p)

BridgeStep == BridgeNext /\ UNCHANGED <<pane, history>>

Next == BridgeStep \/ \E p \in Panes : Run(p) \/ UserNext(p)

Spec == Init /\ [][Next]_vars

-----------------------------------------------------------------------------
(* Properties. *)

Frames ==
  [type : {"ready"}, code : {"0"}] \cup [type : {"exit"}, code : {"0", "137", "null"}]
    \cup [type : {"close"}, code : Codes]
ConnType ==
  [pane : Panes \cup {None}, link : BOOLEAN, up : Seq({"kill", "4001", "1001"}),
   down : Seq(Frames), open : BOOLEAN,
   pc : {"asked", "opening", "probing", "starting", "resizing", "live",
         "inspecting", "checking", "waiting", "done"},
   closed : BOOLEAN, kill : BOOLEAN, held : BOOLEAN, tmux : BOOLEAN,
   stream : {"none", "open", "ended"},
   exec : {"none", "live", "exit", "crash", "stop", "restart", "hangup"},
   code : {"0", "137", "null"}, looks : 0 .. LookLimit, sure : BOOLEAN,
   task : {"none", "asked", "found"}]
PaneType ==
  [status : {"connecting", "open", "closed", "reconnecting", "fatal"},
   gone : BOOLEAN, ws : Conns \cup {None}, up : BOOLEAN, dial : BOOLEAN,
   awaitEnter : BOOLEAN, signal : BOOLEAN, note : {"none", "retry", "start", "retryStart"},
   starting : BOOLEAN, asks : SUBSET {"exit", "signal", "auth"}, calm : 0 .. MaxTrouble + 1]

\* Types; a connection that is being handled belongs to a pane.
TypeOK ==
  /\ box \in {"running", "dying", "stopped", "absent"}
  /\ hasTmux \in BOOLEAN /\ shells \subseteq Panes /\ probe \in BOOLEAN \cup {None}
  /\ streams \subseteq Conns
  /\ conn \in [Conns -> ConnType]
  /\ \A c \in Conns : ~conn[c].closed => conn[c].pane \in Panes
  /\ pane \in [Panes -> PaneType]
  /\ ended \subseteq Panes
  /\ trouble \in 0 .. MaxTrouble /\ visits \in 0 .. MaxVisits

\* A handler leaves nothing behind: when its last await is over, its exec is
\* not attached to anything and SessionService.streams does not list it, also
\* when the browser went away while the exec was being started.
NothingLeaks ==
  \A c \in Conns :
    /\ conn[c].pc = "done" => conn[c].stream # "open" /\ conn[c].exec # "live"
    /\ c \in streams => conn[c].held /\ ~conn[c].closed

\* "Nothing else ever kills a tmux session": killTmuxSession runs only for
\* panes that the user has closed; a reload, a lost connection, a slow client,
\* a restart of the server or an exit do not come to it.
OnlyTheUserKills ==
  \A c \in Conns : conn[c].kill \/ conn[c].task # "none" => conn[c].pane \in ended

\* INT-05: "exit" is not told of an exec that died with its container, unless
\* the container was started again since or the engine did not answer.
Told(c) == \E i \in DOMAIN conn[c].down : conn[c].down[i].type = "exit"
ExitIsHonest ==
  [][\A c \in Conns :
       ~Told(c) /\ Told(c)' /\ conn[c].exec = "stop" => ~conn[c].sure']_vars

\* INT-06: the shell of an attached pane that the user closes ends for good
\* when nothing goes wrong on the way, although other connections of the pane
\* may still be attached to it.
ClosedPaneEnds ==
  \A p \in Panes, t \in 0 .. MaxTrouble :
    pane[p].calm = t + 1 ~> [](p \notin shells \/ trouble # t \/ pane[p].calm # t + 1)

\* Whatever happened to it, a pane of a running container comes to be attached
\* again, unless it waits for the user: it is closed, asks for Enter, or was
\* told that its container is gone.  A pane that is Deaf, whose exec ended
\* before anybody listened to it, counts as attached.
Deaf(c) == conn[c].pc = "live" /\ conn[c].stream = "ended"
Attached(p) ==
  LET r == pane[p] IN r.ws # None /\ r.up /\ conn[r.ws].held /\ ~conn[r.ws].closed
PaneComesBack ==
  \A p \in Panes :
    []<>(Attached(p) \/ pane[p].gone \/ pane[p].awaitEnter
           \/ pane[p].status = "fatal" \/ box # "running")

\* A pane whose container is stopped under it comes to offer to start it,
\* however the end of the exec, the state of the container and the answers
\* about it arrive; the exec's end must not have come before anybody listens.
Offers(p) == pane[p].note \in {"start", "retryStart"} \/ pane[p].starting
OffersStart ==
  \A p \in Panes, t \in 0 .. MaxTrouble :
    box = "stopped" /\ trouble = t /\ ~pane[p].awaitEnter /\ ~pane[p].gone
      ~> \/ Offers(p) \/ box # "stopped" \/ trouble # t
         \/ pane[p].gone \/ pane[p].status = "fatal"
         \/ pane[p].ws # None /\ Deaf(pane[p].ws)
=============================================================================
