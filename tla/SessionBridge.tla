---------------------------- MODULE SessionBridge ----------------------------
(***************************************************************************)
(* The server's half of a terminal session: sessions/ws.ts handles one     *)
(* websocket per connection of a pane, sessions/service.ts opens the exec  *)
(* behind it.  Panes are known by their session name; with tmux in the     *)
(* image the shell lives in tmux session pc_<name>, which outlives the     *)
(* exec that is attached to it.                                            *)
(*                                                                         *)
(* handleConnection awaits the engine many times, and meanwhile its close  *)
(* handler may run: after every await it looks at what became of the       *)
(* socket.  One container is modelled, with the engine's view of it: what  *)
(* is stopping is still reported as running.                               *)
(*                                                                         *)
(* The browser's half is SessionPane, which composes both.                 *)
(***************************************************************************)
EXTENDS Integers, Sequences

CONSTANTS
  Panes,       \* session names
  Conns,       \* slots for connections
  LookLimit,   \* looks at the container that fit into STOP_RECHECK's window
  MaxTrouble,  \* bound: failures, losses, restarts, stops, exits
  None

ASSUME BridgeAssumption ==
  /\ LookLimit \in Nat \ {0} /\ MaxTrouble \in Nat
  /\ None \notin Panes \cup Conns \cup BOOLEAN

VARIABLES
  box,      \* the container: "running", "dying" (its processes are dead, the
            \* engine does not say so yet), "stopped", "absent"
  hasTmux,  \* its image has tmux
  shells,   \* panes whose tmux session exists
  probe,    \* the cached answer of hasTmux, None without one
  streams,  \* SessionService.streams
  conn,     \* the connections, see NoConn
  trouble

bridgeVars == <<box, hasTmux, shells, probe, streams, conn, trouble>>
worldVars  == <<box, hasTmux, shells>>

\* close codes of the server; 4502 stands for 4500 too
Codes == {"1000", "4404", "4409", "4502"}
Frame(type, code) == [type |-> type, code |-> code]

NoConn ==
  [pane |-> None,
   link |-> FALSE,      \* the network between the two ends
   up |-> <<>>,         \* frames on their way to the server, and to the browser
   down |-> <<>>,
   open |-> FALSE,      \* ws.readyState = OPEN, on the server
   pc |-> "done",       \* where handleConnection, then onStreamClosed, is
   closed |-> TRUE, kill |-> FALSE,
   held |-> FALSE,      \* "stream" and "sessionId" are set
   tmux |-> FALSE,      \* opened.tmux
   stream |-> "none",   \* the ExecStream: "open" or "ended"
   exec |-> "none",     \* the exec: "live", or why it ended
   code |-> "0",        \* exit status as read: "0", "137", "null"
   looks |-> 0, sure |-> TRUE,
   task |-> "none"]     \* killTmuxSession, running behind cleanup

\* a browser that dials; the upgrade is on its way
Dialed(p) == [NoConn EXCEPT !.pane = p, !.link = TRUE, !.pc = "asked", !.closed = FALSE]

\* a slot that both ends have let go of is as good as new
Finished(r) == r.pc = "done" /\ r.task = "none" /\ r.stream # "open" /\ ~r.link
Swept(r) == IF Finished(r) THEN NoConn ELSE r

BridgeInit ==
  /\ box = "running"
  /\ hasTmux \in BOOLEAN
  /\ shells = {}
  /\ probe = None
  /\ streams = {}
  /\ conn = [c \in Conns |-> NoConn]
  /\ trouble = 0

Set(c, r) == conn' = [conn EXCEPT ![c] = Swept(r)]
Trouble == trouble < MaxTrouble /\ trouble' = trouble + 1
Untroubled == UNCHANGED trouble

-----------------------------------------------------------------------------
(* What the handler's functions do to its closure. *)

\* ExecStream.close: no callback runs any more, and the exec loses its client
CloseStream(r) ==
  [r EXCEPT !.stream = IF @ = "none" THEN @ ELSE "ended",
            !.exec = IF @ = "live" THEN "hangup" ELSE @]

\* mutant: every end of a connection ends the shell
CleanupKills(r) ==
  IF r.closed THEN r
  ELSE [IF r.held THEN CloseStream(r) ELSE r EXCEPT
          !.closed = TRUE, !.task = "asked", !.pc = IF @ = "live" THEN "done" ELSE @]

\* mutant: a kill that is asked for is forgotten
CleanupNeverKills(r) ==
  IF r.closed THEN r
  ELSE [IF r.held THEN CloseStream(r) ELSE r EXCEPT
          !.closed = TRUE, !.pc = IF @ = "live" THEN "done" ELSE @]

\* cleanup, once; nothing waits behind a handler that is "live"
Cleanup(r) ==
  IF r.closed THEN r
  ELSE [IF r.held THEN CloseStream(r) ELSE r EXCEPT
          !.closed = TRUE,
          !.task = IF r.kill THEN "asked" ELSE @,
          !.pc = IF @ = "live" THEN "done" ELSE @]

\* send and ws.close do nothing unless the socket is open
Send(r, f) == IF r.open THEN [r EXCEPT !.down = Append(@, f)] ELSE r
Close(r, code) == [Send(r, Frame("close", code)) EXCEPT !.open = FALSE]

\* mutant: the browser is never told
FailSilently(r, code) == [r EXCEPT !.open = FALSE]

\* fail: tell the browser why, and close
Fail(r, code) == Close(r, code)

\* the new closure, cleaned up; unregister goes by the session's id
End(c, r) ==
  /\ Set(c, Cleanup(r))
  /\ streams' = IF r.held THEN streams \ {c} ELSE streams

\* the answer of requireRunningContainer: what is dying still counts as running
Seen == IF box = "dying" THEN "running" ELSE box
RefusalOf(seen) == IF seen = "absent" THEN "4404" ELSE "4409"

-----------------------------------------------------------------------------
(* Opening. *)

\* the handshake: the queries of this browser are well formed
Accept(c) ==
  /\ conn[c].pc = "asked" /\ conn[c].link
  /\ Set(c, [conn[c] EXCEPT !.pc = "opening", !.open = TRUE])
  /\ UNCHANGED <<worldVars, probe, streams>> /\ Untroubled

\* an upgrade that never arrives
NeverArrives(c) ==
  /\ conn[c].pc = "asked" /\ ~conn[c].link
  /\ Set(c, [conn[c] EXCEPT !.pc = "done", !.closed = TRUE])
  /\ UNCHANGED <<worldVars, probe, streams>> /\ Untroubled

\* the catch behind sessions.open
Refuse(c, code) == End(c, Fail([conn[c] EXCEPT !.pc = "done"], code))

\* open: requireRunningContainer
FindContainer(c) ==
  /\ conn[c].pc = "opening"
  /\ \/ /\ Seen = "running"
        /\ Set(c, [conn[c] EXCEPT !.pc = "probing"])
        /\ UNCHANGED streams /\ Untroubled
     \/ Seen # "running" /\ Refuse(c, RefusalOf(Seen)) /\ Untroubled
     \/ Refuse(c, "4502") /\ Trouble
  /\ UNCHANGED <<worldVars, probe>>

\* hasTmux: the cached answer, or a new one when there is none or it is older
\* than PROBE_TTL_MS; a probe that fails is remembered as "no tmux"
Probe(c) ==
  /\ conn[c].pc = "probing"
  /\ \E t \in BOOLEAN :
       /\ \/ t = probe /\ Untroubled
          \/ t = (hasTmux /\ box = "running") /\ Untroubled
          \/ ~t /\ Trouble
       /\ probe' = t
       /\ Set(c, [conn[c] EXCEPT !.pc = "starting", !.tmux = t])
  /\ UNCHANGED <<worldVars, streams>>

\* execCreate and execStart; "tmux new-session -A" attaches or creates
StartExec(c) ==
  LET r == conn[c] IN
  /\ r.pc = "starting"
  /\ \/ /\ box = "running"
        /\ Set(c, [r EXCEPT !.pc = "resizing", !.stream = "open", !.exec = "live"])
        /\ shells' = IF r.tmux THEN shells \cup {r.pane} ELSE shells
        /\ UNCHANGED streams /\ Untroubled
     \/ box # "running" /\ Refuse(c, "4502") /\ UNCHANGED shells /\ Untroubled
     \/ Refuse(c, "4502") /\ UNCHANGED shells /\ Trouble
  /\ UNCHANGED <<box, hasTmux, probe>>

\* mutant: attaches without looking whether the browser is still there
AttachBlindly(c) ==
  LET r == conn[c] IN
  /\ r.pc = "resizing"
  /\ Set(c, Send([r EXCEPT !.held = TRUE, !.pc = "live"], Frame("ready", "0")))
  /\ streams' = streams \cup {c}
  /\ UNCHANGED <<worldVars, probe>> /\ Untroubled

\* execResize, whatever its outcome, then register; back in handleConnection,
\* a browser that is gone gets everything undone
Attach(c) ==
  LET r == conn[c] IN
  /\ r.pc = "resizing"
  /\ IF r.open
     THEN /\ Set(c, Send([r EXCEPT !.held = TRUE, !.pc = "live"], Frame("ready", "0")))
          /\ streams' = streams \cup {c}
     ELSE /\ Set(c, Cleanup(CloseStream([r EXCEPT !.pc = "done"])))
          /\ streams' = streams \ {c}
  /\ UNCHANGED <<worldVars, probe>> /\ Untroubled

-----------------------------------------------------------------------------
(* An attached session. *)

\* finish: an end before onClose is registered is nobody's
StreamEnds(c) ==
  LET r == conn[c] IN
  /\ r.stream = "open" /\ r.exec \notin {"none", "live"}
  /\ Set(c, [r EXCEPT !.stream = "ended",
                      !.pc = IF r.held /\ ~r.closed THEN "inspecting" ELSE @])
  /\ UNCHANGED <<worldVars, probe, streams>> /\ Untroubled

\* onStreamClosed goes on only when there is still a browser
Gone(r) == r.closed \/ ~r.open
GiveUp(c) == Set(c, [conn[c] EXCEPT !.pc = "done"]) /\ UNCHANGED streams

\* execInspect: the exit status of the process, if it can be had
Inspect(c) ==
  LET r == conn[c] IN
  /\ r.pc = "inspecting"
  /\ \E code \in {"0", "137", "null"} :
       /\ \/ code = (IF r.exec \in {"crash", "stop", "restart"} THEN "137" ELSE "0") /\ Untroubled
          \/ code = "null" /\ Trouble
       /\ IF Gone(r) THEN GiveUp(c)
          ELSE /\ Set(c, [r EXCEPT !.pc = "checking", !.code = code, !.looks = LookLimit])
               /\ UNCHANGED streams
  /\ UNCHANGED <<worldVars, probe>>

\* mutant: a signal is taken for an exit
LooksUnreadable(code) == code = "null"

LooksLikeContainerStop(code) == code \in {"137", "null"}

\* while the recheck window is open
MayLookAgain(r) == LooksLikeContainerStop(r.code) /\ r.looks > 0

\* containerStopReason and what follows: the look again, or the frame
Check(c) ==
  LET r == conn[c] IN
  /\ r.pc = "checking"
  /\ \E seen \in {"running", "stopped", "absent"}, sure \in BOOLEAN :
       /\ \/ seen = Seen /\ sure /\ Untroubled
          \/ seen = "running" /\ ~sure /\ Trouble
       /\ IF Gone(r) THEN GiveUp(c)
          ELSE IF seen # "running"
          THEN End(c, Fail([r EXCEPT !.pc = "done"], RefusalOf(seen)))
          ELSE IF MayLookAgain(r)
          THEN Set(c, [r EXCEPT !.pc = "waiting", !.sure = sure]) /\ UNCHANGED streams
          ELSE End(c, Close(Send([r EXCEPT !.pc = "done", !.sure = sure],
                                 Frame("exit", r.code)), "1000"))
  /\ UNCHANGED <<worldVars, probe>>

\* the delay between two looks.  The window outlasts a stop: the last look
\* comes after the engine has caught up
LookAgain(c) ==
  LET r == conn[c] IN
  /\ r.pc = "waiting"
  /\ IF Gone(r) THEN GiveUp(c)
     ELSE /\ r.looks = 1 => box # "dying"
          /\ Set(c, [r EXCEPT !.pc = "checking", !.looks = @ - 1])
          /\ UNCHANGED streams
  /\ UNCHANGED <<worldVars, probe>> /\ Untroubled

\* onError of the stream, or a browser that does not drain its output
Breaks(c) ==
  /\ conn[c].held /\ ~conn[c].closed
  /\ End(c, Fail(conn[c], "4502"))
  /\ UNCHANGED <<worldVars, probe>> /\ Trouble

\* the frames of the browser.  The message handler is registered last: a kill
\* that comes before that is lost
Receive(c) ==
  LET r == conn[c]
      rest == [r EXCEPT !.up = Tail(@)] IN
  /\ r.up # <<>> /\ r.link /\ r.pc # "asked"
  /\ CASE Head(r.up) = "kill" ->
            IF r.held THEN End(c, Close([rest EXCEPT !.kill = TRUE], "1000"))
                      ELSE Set(c, rest) /\ UNCHANGED streams
       [] Head(r.up) = "4001" ->
            End(c, [rest EXCEPT !.link = FALSE, !.open = FALSE, !.kill = TRUE])
       [] Head(r.up) = "1001" -> End(c, [rest EXCEPT !.link = FALSE, !.open = FALSE])
  /\ UNCHANGED <<worldVars, probe>> /\ Untroubled

\* the close event of a broken socket, or the heartbeat that finds no pong
HeartbeatTimeout(c) ==
  /\ ~conn[c].link /\ conn[c].open
  /\ End(c, [conn[c] EXCEPT !.open = FALSE])
  /\ UNCHANGED <<worldVars, probe>> /\ Untroubled

-----------------------------------------------------------------------------
(* killTmuxSession: requireRunningContainer, then the exec; any failure is   *)
(* swallowed.                                                                *)

Execs(p) == {c \in Conns : conn[c].pane = p /\ conn[c].tmux /\ conn[c].exec = "live"}
EndExecs(cs, why) ==
  [c \in Conns |-> IF c \in cs THEN [conn[c] EXCEPT !.exec = why] ELSE conn[c]]

KillFinds(c) ==
  /\ conn[c].task = "asked"
  /\ \/ Set(c, [conn[c] EXCEPT !.task = IF Seen = "running" THEN "found" ELSE "none"])
        /\ Untroubled
     \/ Set(c, [conn[c] EXCEPT !.task = "none"]) /\ Trouble
  /\ UNCHANGED <<worldVars, probe, streams>>

\* tmux kill-session of the pane's name; that tmux takes a longer one when there is none
\* of that name is left out
KillRuns(c) ==
  LET p == conn[c].pane
      dead == EndExecs(Execs(p), "exit") IN
  /\ conn[c].task = "found"
  /\ \/ /\ box = "running"
        /\ shells' = shells \ {p}
        /\ conn' = [dead EXCEPT ![c] = Swept([@ EXCEPT !.task = "none"])]
        /\ Untroubled
     \/ /\ Set(c, [conn[c] EXCEPT !.task = "none"]) /\ UNCHANGED shells
        /\ IF box = "running" THEN Trouble ELSE Untroubled
  /\ UNCHANGED <<box, hasTmux, probe, streams>>

-----------------------------------------------------------------------------
(* The container, and the process of the server. *)

\* a shell ends, and with it every exec that shows it
ShellExits(p) ==
  /\ p \in shells
  /\ shells' = shells \ {p}
  /\ conn' = EndExecs(Execs(p), "exit")
  /\ UNCHANGED <<box, hasTmux, probe, streams>> /\ Trouble

\* the process of an exec ends alone: a shell without tmux, a detached or
\* killed tmux client
ExecExits(c) ==
  /\ conn[c].exec = "live"
  /\ \E why \in {"exit", "crash"} : Set(c, [conn[c] EXCEPT !.exec = why])
  /\ UNCHANGED <<worldVars, probe, streams>> /\ Trouble

AllDie == EndExecs({c \in Conns : conn[c].exec = "live"}, "stop")

StopBox ==
  /\ box = "running"
  /\ box' = "dying" /\ shells' = {} /\ conn' = AllDie
  /\ UNCHANGED <<hasTmux, probe, streams>> /\ Trouble

StopLands ==
  /\ box = "dying"
  /\ box' = "stopped"
  /\ UNCHANGED <<hasTmux, shells, probe, streams, conn>> /\ Untroubled

RemoveBox ==
  /\ box \in {"running", "stopped"}
  /\ box' = "absent" /\ shells' = {} /\ conn' = AllDie
  /\ UNCHANGED <<hasTmux, probe, streams>> /\ Trouble

\* history: of an exec that died with its container, that it runs again
Restarted == EndExecs({c \in Conns : conn[c].exec = "stop"}, "restart")

\* the container keeps its id, and so does the cache
StartBox ==
  /\ box = "stopped"
  /\ box' = "running" /\ conn' = Restarted
  /\ UNCHANGED <<hasTmux, shells, probe, streams>> /\ Untroubled

LoseLink(c) ==
  /\ conn[c].link
  /\ Set(c, [conn[c] EXCEPT !.link = FALSE])
  /\ UNCHANGED <<worldVars, probe, streams>> /\ Trouble

\* what a connection looks like when its server is no more
Orphaned(r, graceful) ==
  LET told == IF graceful THEN Close(r, "1000") ELSE [r EXCEPT !.link = FALSE]
  IN  [CloseStream(told) EXCEPT !.open = FALSE, !.closed = TRUE, !.pc = "done", !.task = "none"]

\* close(): closeAll and the websocket server's goodbye, or a crash; then a
\* new process
Restart ==
  /\ \E graceful \in BOOLEAN :
       conn' = [c \in Conns |-> Swept(Orphaned(conn[c], graceful /\ conn[c].open))]
  /\ streams' = {} /\ probe' = None
  /\ UNCHANGED worldVars /\ Trouble

Opening(c) == Accept(c) \/ NeverArrives(c) \/ FindContainer(c) \/ Probe(c)
                \/ StartExec(c) \/ Attach(c)
Closing(c) == StreamEnds(c) \/ Inspect(c) \/ Check(c) \/ LookAgain(c)
Killing(c) == KillFinds(c) \/ KillRuns(c)
Listening(c) == Receive(c) \/ HeartbeatTimeout(c)

\* what the server does by itself, and what happens to it
Serve(c) == Opening(c) \/ Closing(c) \/ Killing(c) \/ Listening(c)
BridgeNext ==
  \/ \E c \in Conns : Serve(c) \/ Breaks(c) \/ ExecExits(c) \/ LoseLink(c)
  \/ \E p \in Panes : ShellExits(p)
  \/ StopBox \/ StopLands \/ RemoveBox \/ StartBox \/ Restart
=============================================================================
