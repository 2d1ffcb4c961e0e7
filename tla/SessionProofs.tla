---------------------------- MODULE SessionProofs ----------------------------
(***************************************************************************)
(* Theorems about SessionPane, for any number of panes and connections:    *)
(* types, that a handler leaves nothing behind, that only the user ends a  *)
(* shell, and that "exit" is not told of an exec that died with its        *)
(* container.                                                              *)
(*                                                                         *)
(* The invariant speaks of one connection at a time: Consistent ties the   *)
(* place of its handler to the closure's variables, Honest what is known   *)
(* of its exec to the state of the container, UsersKill its wish to kill   *)
(* to the panes that were closed.  Most steps concern one connection and   *)
(* leave a Good one, which is the form of the lemmas; the container's and  *)
(* the server's steps leave all of them Good at once.                      *)
(***************************************************************************)
EXTENDS SessionPane, TLAPS

\* what the handler of one connection keeps between two steps; listed says
\* whether SessionService.streams has it
Consistent(r, listed) ==
  /\ (r.link \/ r.pc # "done") => r.pane \in Panes
  /\ IF r.pc = "asked" THEN ~r.open /\ ~r.closed ELSE r.closed <=> ~r.open
  /\ r.pc \in {"asked", "opening", "probing", "starting"} => r.stream = "none"
  /\ r.stream = "none" => ~r.held /\ r.exec = "none"
  /\ r.stream = "ended" => r.exec # "live"
  /\ r.pc = "resizing" => ~r.held /\ r.stream # "none"
  /\ r.pc = "live" => r.held /\ ~r.closed
  /\ r.pc \in {"inspecting", "checking", "waiting"} => r.stream # "open"
  /\ r.pc = "done" => r.closed /\ r.stream # "open"
  /\ listed => r.held /\ ~r.closed

\* what an exec that died with its container leaves to be found out
Honest(r, b) ==
  /\ b = "running" => r.exec # "stop"
  /\ r.pc \in {"checking", "waiting"} /\ r.exec = "stop" => r.code \in {"137", "null"}
  /\ r.pc = "waiting" => r.looks > 0
  /\ r.pc = "checking" /\ r.looks = 0 /\ r.exec = "stop" => b \notin {"running", "dying"}

\* a connection that asks for the end of a shell is of a pane that was closed
UsersKill(r, es) ==
  (\/ r.kill \/ r.task # "none"
   \/ \E i \in DOMAIN r.up : r.up[i] \in {"kill", "4001"}) => r.pane \in es

\* the inductive invariant; the last part is that no pane shows another's
IInv ==
  /\ TypeOK
  /\ \A c \in Conns :
       Consistent(conn[c], c \in streams) /\ Honest(conn[c], box) /\ UsersKill(conn[c], ended)
  /\ \A p \in Panes : pane[p].ws # None => conn[pane[p].ws].pane \in {p, None}

\* A slot that is free belongs to nobody.
LEMMA NoConnIs ==
  /\ NoConn \in ConnType /\ Consistent(NoConn, FALSE)
  /\ \A b : Honest(NoConn, b)
  /\ \A es : UsersKill(NoConn, es)
  /\ NoConn.pane = None /\ ~NoConn.link /\ NoConn.down = <<>> /\ NoConn.sure
<1>1. LookLimit \in Nat
  BY BridgeAssumption
<1>2. NoConn \in ConnType
  BY <1>1 DEF NoConn, ConnType, Codes
<1> QED BY <1>2, BridgeAssumption DEF NoConn, Consistent, Honest, UsersKill

\* A field of its type leaves a connection one.
LEMMA Retyped ==
  ASSUME NEW r \in ConnType
  PROVE  /\ \A x \in Panes : [r EXCEPT !.pane = x] \in ConnType
         /\ \A x \in BOOLEAN : [r EXCEPT !.link = x] \in ConnType
         /\ \A x \in Seq({"kill", "4001", "1001"}) : [r EXCEPT !.up = x] \in ConnType
         /\ \A x \in Seq(Frames) :
              [r EXCEPT !.down = x] \in ConnType
         /\ \A x \in BOOLEAN : [r EXCEPT !.open = x] \in ConnType
         /\ \A x \in {"asked", "opening", "probing", "starting", "resizing", "live",
                      "inspecting", "checking", "waiting", "done"} :
              [r EXCEPT !.pc = x] \in ConnType
         /\ \A x \in BOOLEAN : [r EXCEPT !.closed = x] \in ConnType
         /\ \A x \in BOOLEAN : [r EXCEPT !.kill = x] \in ConnType
         /\ \A x \in BOOLEAN : [r EXCEPT !.held = x] \in ConnType
         /\ \A x \in BOOLEAN : [r EXCEPT !.tmux = x] \in ConnType
         /\ \A x \in {"none", "open", "ended"} : [r EXCEPT !.stream = x] \in ConnType
         /\ \A x \in {"none", "live", "exit", "crash", "stop", "restart", "hangup"} :
              [r EXCEPT !.exec = x] \in ConnType
         /\ \A x \in {"0", "137", "null"} : [r EXCEPT !.code = x] \in ConnType
         /\ \A x \in 0 .. LookLimit : [r EXCEPT !.looks = x] \in ConnType
         /\ \A x \in BOOLEAN : [r EXCEPT !.sure = x] \in ConnType
         /\ \A x \in {"none", "asked", "found"} : [r EXCEPT !.task = x] \in ConnType
<1>1. \A x \in Panes :
       [r EXCEPT !.pane = x] \in ConnType
  BY DEF ConnType
<1>2. \A x \in BOOLEAN :
       [r EXCEPT !.link = x] \in ConnType
  BY DEF ConnType
<1>3. \A x \in Seq({"kill", "4001", "1001"}) :
       [r EXCEPT !.up = x] \in ConnType
  BY DEF ConnType
<1>4. \A x \in Seq(Frames) :
       [r EXCEPT !.down = x] \in ConnType
  BY DEF ConnType
<1>5. \A x \in BOOLEAN :
       [r EXCEPT !.open = x] \in ConnType
  BY DEF ConnType
<1>6. \A x \in {"asked", "opening", "probing", "starting", "resizing", "live",
                  "inspecting", "checking", "waiting", "done"} :
       [r EXCEPT !.pc = x] \in ConnType
  BY DEF ConnType
<1>7. \A x \in BOOLEAN :
       [r EXCEPT !.closed = x] \in ConnType
  BY DEF ConnType
<1>8. \A x \in BOOLEAN :
       [r EXCEPT !.kill = x] \in ConnType
  BY DEF ConnType
<1>9. \A x \in BOOLEAN :
       [r EXCEPT !.held = x] \in ConnType
  BY DEF ConnType
<1>10. \A x \in BOOLEAN :
       [r EXCEPT !.tmux = x] \in ConnType
  BY DEF ConnType
<1>11. \A x \in {"none", "open", "ended"} :
       [r EXCEPT !.stream = x] \in ConnType
  BY DEF ConnType
<1>12. \A x \in {"none", "live", "exit", "crash", "stop", "restart", "hangup"} :
       [r EXCEPT !.exec = x] \in ConnType
  BY DEF ConnType
<1>13. \A x \in {"0", "137", "null"} :
       [r EXCEPT !.code = x] \in ConnType
  BY DEF ConnType
<1>14. \A x \in 0 .. LookLimit :
       [r EXCEPT !.looks = x] \in ConnType
  BY DEF ConnType
<1>15. \A x \in BOOLEAN :
       [r EXCEPT !.sure = x] \in ConnType
  BY DEF ConnType
<1>16. \A x \in {"none", "asked", "found"} :
       [r EXCEPT !.task = x] \in ConnType
  BY DEF ConnType
<1> QED BY <1>1, <1>2, <1>3, <1>4, <1>5, <1>6, <1>7, <1>8, <1>9,
           <1>10, <1>11, <1>12, <1>13, <1>14, <1>15, <1>16

\* ExecStream.close ends a stream that there is, and touches nothing else.
LEMMA CloseStreamIs ==
  ASSUME NEW r \in ConnType, NEW q, q = CloseStream(r)
  PROVE  /\ q \in ConnType /\ q.stream # "open" /\ q.exec # "live"
         /\ q.stream = "none" <=> r.stream = "none"
         /\ r.exec # "live" => q.exec = r.exec
         /\ r.exec = "live" => q.exec = "hangup"
         /\ q.pane = r.pane /\ q.link = r.link /\ q.up = r.up /\ q.down = r.down
         /\ q.open = r.open /\ q.pc = r.pc /\ q.closed = r.closed /\ q.kill = r.kill
         /\ q.held = r.held /\ q.tmux = r.tmux /\ q.code = r.code /\ q.looks = r.looks
         /\ q.sure = r.sure /\ q.task = r.task
BY DEF CloseStream, ConnType

\* What cleanup sets has its type.
LEMMA CleanupTyped ==
  ASSUME NEW r \in ConnType, NEW t \in {"none", "asked", "found"},
         NEW p \in {"asked", "opening", "probing", "starting", "resizing", "live",
                   "inspecting", "checking", "waiting", "done"}
  PROVE  [r EXCEPT !.closed = TRUE, !.task = t, !.pc = p] \in ConnType
BY DEF ConnType

\* cleanup, once: what it leaves of the closure.
LEMMA CleanupIs ==
  ASSUME NEW r \in ConnType, NEW q, q = Cleanup(r)
  PROVE  /\ q \in ConnType /\ q.closed
         /\ r.closed => q = r
         /\ ~r.closed => /\ r.held => q.stream # "open" /\ q.exec # "live"
                         /\ r.held => (q.stream = "none" <=> r.stream = "none")
                         /\ ~r.held => q.stream = r.stream /\ q.exec = r.exec
                         /\ r.exec # "live" => q.exec = r.exec
                         /\ r.exec = "live" => q.exec \in {"live", "hangup"}
                         /\ q.task = IF r.kill THEN "asked" ELSE r.task
                         /\ q.pc = IF r.pc = "live" THEN "done" ELSE r.pc
         /\ q.pane = r.pane /\ q.link = r.link /\ q.up = r.up /\ q.down = r.down
         /\ q.open = r.open /\ q.kill = r.kill /\ q.held = r.held /\ q.tmux = r.tmux
         /\ q.code = r.code /\ q.looks = r.looks /\ q.sure = r.sure
<1>1. CASE r.closed
  BY <1>1 DEF Cleanup
<1>2. CASE ~r.closed
  <2> DEFINE s == IF r.held THEN CloseStream(r) ELSE r
  <2>1. /\ s \in ConnType
        /\ r.held => s.stream # "open" /\ s.exec # "live"
        /\ r.held => (s.stream = "none" <=> r.stream = "none")
        /\ ~r.held => s.stream = r.stream /\ s.exec = r.exec
        /\ r.exec # "live" => s.exec = r.exec
        /\ r.exec = "live" => s.exec \in {"live", "hangup"}
        /\ s.pane = r.pane /\ s.link = r.link /\ s.up = r.up /\ s.down = r.down
        /\ s.open = r.open /\ s.pc = r.pc /\ s.closed = r.closed /\ s.kill = r.kill
        /\ s.held = r.held /\ s.tmux = r.tmux /\ s.code = r.code /\ s.looks = r.looks
        /\ s.sure = r.sure /\ s.task = r.task
    BY CloseStreamIs
  <2>2. q = [s EXCEPT !.closed = TRUE, !.task = IF r.kill THEN "asked" ELSE @,
                      !.pc = IF @ = "live" THEN "done" ELSE @]
    BY <1>2 DEF Cleanup
  <2> HIDE DEF s
  <2>3. q \in ConnType
    <3> DEFINE t == IF r.kill THEN "asked" ELSE s.task
               p == IF s.pc = "live" THEN "done" ELSE s.pc
    <3>1. t \in {"none", "asked", "found"}
      BY <2>1 DEF ConnType
    <3>2. p \in {"asked", "opening", "probing", "starting", "resizing", "live",
                 "inspecting", "checking", "waiting", "done"}
      BY <2>1 DEF ConnType
    <3>3. q = [s EXCEPT !.closed = TRUE, !.task = t, !.pc = p]
      BY <2>1, <2>2 DEF ConnType
    <3>4. s \in ConnType
      BY <2>1
    <3> HIDE DEF t, p
    <3>5. [s EXCEPT !.closed = TRUE, !.task = t, !.pc = p] \in ConnType
      BY <3>1, <3>2, <3>4, CleanupTyped
    <3> QED BY <3>3, <3>5
  <2>4. /\ q.closed /\ q.stream = s.stream /\ q.exec = s.exec
        /\ q.task = IF r.kill THEN "asked" ELSE s.task
        /\ q.pc = IF s.pc = "live" THEN "done" ELSE s.pc
        /\ q.pane = s.pane /\ q.link = s.link /\ q.up = s.up /\ q.down = s.down
        /\ q.open = s.open /\ q.kill = s.kill /\ q.held = s.held /\ q.tmux = s.tmux
        /\ q.code = s.code /\ q.looks = s.looks /\ q.sure = s.sure
    BY <2>1, <2>2 DEF ConnType
  <2> QED BY <1>2, <2>1, <2>3, <2>4
<1> QED BY <1>1, <1>2

\* Close sends its code to a socket that is open, and closes it.
LEMMA CloseIs ==
  ASSUME NEW r \in ConnType, NEW code \in Codes, NEW q, q = Close(r, code)
  PROVE  /\ q \in ConnType /\ ~q.open
         /\ q.down = r.down \/ q.down = Append(r.down, Frame("close", code))
         /\ q.pane = r.pane /\ q.link = r.link /\ q.up = r.up
         /\ q.pc = r.pc /\ q.closed = r.closed /\ q.kill = r.kill
         /\ q.held = r.held /\ q.tmux = r.tmux /\ q.stream = r.stream /\ q.exec = r.exec
         /\ q.code = r.code /\ q.looks = r.looks /\ q.sure = r.sure /\ q.task = r.task
<1>1. Append(r.down, Frame("close", code)) \in
        Seq(Frames)
  <2>1. Frame("close", code) \in Frames
    BY DEF Frame, Frames
  <2> QED BY <2>1 DEF ConnType
<1> QED BY <1>1 DEF Close, Send, ConnType

-----------------------------------------------------------------------------
(* One step of one connection.                                             *)

Tells(r) == \E i \in DOMAIN r.down : r.down[i].type = "exit"

\* what a step may make of the slot c
Sound(c, r) ==
  /\ r \in ConnType
  /\ Consistent(r, c \in streams') /\ Honest(r, box') /\ UsersKill(r, ended')
  /\ Tells(r) => Tells(conn[c]) \/ conn[c].exec # "stop" \/ ~r.sure

\* and of the connection that is in it
Good(c, r) == Sound(c, r) /\ r.pane \in {conn[c].pane, None}

ConnsSound == conn' \in [Conns -> ConnType] /\ \A d \in Conns : Sound(d, conn'[d])
ConnsGood == conn' \in [Conns -> ConnType] /\ \A d \in Conns : Good(d, conn'[d])

\* What holds of a connection before a step.
LEMMA ConnIs ==
  ASSUME IInv, NEW c \in Conns
  PROVE  /\ conn[c] \in ConnType /\ Consistent(conn[c], c \in streams)
         /\ Honest(conn[c], box) /\ UsersKill(conn[c], ended)
         /\ conn \in [Conns -> ConnType] /\ streams \subseteq Conns /\ ended \subseteq Panes
BY DEF IInv, TypeOK

\* A connection that both ends have let go of may be forgotten.
LEMMA SweptIsGood ==
  ASSUME NEW c \in Conns, NEW r, Good(c, r)
  PROVE  Good(c, Swept(r))
<1>1. CASE ~Finished(r)
  BY <1>1 DEF Swept
<1>2. CASE Finished(r)
  <2>1. Swept(r) = NoConn
    BY <1>2 DEF Swept
  <2>2. c \notin streams'
    BY <1>2 DEF Finished, Good, Sound, Consistent
  <2>3. ~Tells(NoConn)
    BY NoConnIs DEF Tells
  <2>4. Consistent(NoConn, c \in streams')
    BY <2>2, NoConnIs DEF Consistent
  <2> QED BY <2>1, <2>3, <2>4, NoConnIs DEF Good, Sound
<1> QED BY <1>1, <1>2

\* A connection that a step leaves alone is good.
LEMMA OthersAreGood ==
  ASSUME IInv, NEW d \in Conns, box' = box, ended \subseteq ended',
         d \in streams' <=> d \in streams
  PROVE  Good(d, conn[d])
<1>1. /\ conn[d] \in ConnType /\ Consistent(conn[d], d \in streams)
      /\ Honest(conn[d], box) /\ UsersKill(conn[d], ended)
  BY ConnIs
<1>2. Consistent(conn[d], d \in streams')
  BY <1>1 DEF Consistent
<1>3. UsersKill(conn[d], ended')
  BY <1>1 DEF UsersKill
<1> QED BY <1>1, <1>2, <1>3 DEF Good, Sound

\* A step of one connection that leaves a good one leaves all of them good.
LEMMA OneIsGood ==
  ASSUME IInv, NEW c \in Conns, NEW r, Good(c, r), Set(c, r),
         box' = box, ended \subseteq ended',
         \A d \in Conns \ {c} : d \in streams' <=> d \in streams
  PROVE  ConnsGood
<1>1. conn' = [conn EXCEPT ![c] = Swept(r)]
  BY DEF Set
<1>2. Good(c, Swept(r))
  BY SweptIsGood
<1>3. conn \in [Conns -> ConnType]
  BY ConnIs
<1>4. Swept(r) \in ConnType
  BY <1>2 DEF Good, Sound
<1>5. \A d \in Conns \ {c} : conn'[d] = conn[d]
  BY <1>1, <1>3
<1>6. conn'[c] = Swept(r)
  BY <1>1, <1>3
<1>7. conn' \in [Conns -> ConnType]
  BY <1>1, <1>3, <1>4
<1>8. ASSUME NEW d \in Conns PROVE Good(d, conn'[d])
  <2>1. CASE d = c
    BY <1>2, <1>6, <2>1
  <2>2. CASE d # c
    <3>1. Good(d, conn[d])
      BY <2>2, OthersAreGood
    <3> QED BY <1>5, <2>2, <3>1
  <2> QED BY <2>1, <2>2
<1> QED BY <1>7, <1>8 DEF ConnsGood

\* what cleanup may be called with
Ending(c, r) ==
  /\ r \in ConnType /\ r.pane = conn[c].pane /\ ~r.open /\ r.pc # "asked"
  /\ (r.link \/ r.pc # "done") => r.pane \in Panes
  /\ r.pc \in {"opening", "probing", "starting"} => r.stream = "none"
  /\ r.stream = "none" => ~r.held /\ r.exec = "none"
  /\ r.stream = "ended" => r.exec # "live"
  /\ r.pc = "resizing" => ~r.held /\ r.stream # "none"
  /\ r.pc = "live" => r.held /\ ~r.closed
  /\ r.pc \in {"inspecting", "checking", "waiting", "done"} => r.stream # "open"
  /\ c \in streams => r.held
  /\ Honest(r, box) /\ UsersKill(r, ended)
  /\ Tells(r) => Tells(conn[c]) \/ conn[c].exec # "stop" \/ ~r.sure

\* The end of a closure leaves every connection good.
LEMMA EndIsGood ==
  ASSUME IInv, NEW c \in Conns, NEW r, Ending(c, r), End(c, r), box' = box, ended' = ended
  PROVE  ConnsGood
<1>1. PICK q : q = Cleanup(r)
  OBVIOUS
<1>2. r \in ConnType /\ c \notin streams'
  BY DEF Ending, End
<1>3. /\ q \in ConnType /\ q.closed
      /\ r.closed => q = r
      /\ ~r.closed => /\ r.held => q.stream # "open" /\ q.exec # "live"
                      /\ r.held => (q.stream = "none" <=> r.stream = "none")
                      /\ ~r.held => q.stream = r.stream /\ q.exec = r.exec
                      /\ r.exec # "live" => q.exec = r.exec
                      /\ r.exec = "live" => q.exec \in {"live", "hangup"}
                      /\ q.task = IF r.kill THEN "asked" ELSE r.task
                      /\ q.pc = IF r.pc = "live" THEN "done" ELSE r.pc
      /\ q.pane = r.pane /\ q.link = r.link /\ q.up = r.up /\ q.down = r.down
      /\ q.open = r.open /\ q.kill = r.kill /\ q.held = r.held
      /\ q.code = r.code /\ q.looks = r.looks /\ q.sure = r.sure
  BY <1>1, <1>2, CleanupIs
<1>4. Consistent(q, FALSE)
  <2>1. CASE r.closed
    BY <1>3, <2>1 DEF Ending, Consistent
  <2>2. CASE ~r.closed /\ r.held
    BY <1>2, <1>3, <2>2 DEF Ending, Consistent, ConnType
  <2>3. CASE ~r.closed /\ ~r.held
    BY <1>3, <2>3 DEF Ending, Consistent
  <2> QED BY <2>1, <2>2, <2>3
<1>5. Honest(q, box)
  BY <1>3 DEF Ending, Honest
<1>6. UsersKill(q, ended)
  BY <1>3 DEF Ending, UsersKill
<1>7. Tells(q) => Tells(conn[c]) \/ conn[c].exec # "stop" \/ ~q.sure
  BY <1>3 DEF Ending, Tells
<1>8. Good(c, q)
  <2>1. Consistent(q, c \in streams')
    BY <1>2, <1>4 DEF Consistent
  <2> QED BY <1>3, <2>1, <1>5, <1>6, <1>7 DEF Good, Sound, Ending
<1>9. Set(c, q) /\ \A d \in Conns \ {c} : d \in streams' <=> d \in streams
  BY <1>1 DEF End
<1> QED BY <1>8, <1>9, OneIsGood

\* A frame that is not an exit tells of none.
LEMMA FrameTells ==
  ASSUME NEW r \in ConnType, NEW q, NEW f, q.down = Append(r.down, f), f.type # "exit"
  PROVE  Tells(q) => Tells(r)
<1>1. r.down \in Seq(Frames)
  BY DEF ConnType
<1> QED BY <1>1 DEF Tells

\* What fail and close do to a closure whose handler is over or goes on.
LEMMA CloseIsEnding ==
  ASSUME NEW c \in Conns, NEW r \in ConnType, NEW code \in Codes, NEW q, q = Close(r, code),
         Ending(c, [r EXCEPT !.open = FALSE])
  PROVE  Ending(c, q)
<1>1. PICK s : s = [r EXCEPT !.open = FALSE]
  OBVIOUS
<1>2. /\ s.pane = r.pane /\ s.link = r.link /\ s.up = r.up /\ s.down = r.down
      /\ s.pc = r.pc /\ s.closed = r.closed /\ s.kill = r.kill
      /\ s.held = r.held /\ s.stream = r.stream /\ s.exec = r.exec
      /\ s.code = r.code /\ s.looks = r.looks /\ s.sure = r.sure /\ s.task = r.task
  BY <1>1 DEF ConnType
<1>3. /\ q \in ConnType /\ ~q.open
      /\ q.down = r.down \/ q.down = Append(r.down, Frame("close", code))
      /\ q.pane = r.pane /\ q.link = r.link /\ q.up = r.up
      /\ q.pc = r.pc /\ q.closed = r.closed /\ q.kill = r.kill
      /\ q.held = r.held /\ q.stream = r.stream /\ q.exec = r.exec
      /\ q.code = r.code /\ q.looks = r.looks /\ q.sure = r.sure /\ q.task = r.task
  BY CloseIs
<1>4. Tells(q) => Tells(s)
  <2>1. CASE q.down = r.down
    BY <1>2, <2>1 DEF Tells
  <2>2. CASE q.down = Append(r.down, Frame("close", code))
    <3>1. Frame("close", code).type # "exit"
      BY DEF Frame
    <3>2. Tells(q) => Tells(r)
      BY <2>2, <3>1, FrameTells
    <3> QED BY <1>2, <3>2 DEF Tells
  <2> QED BY <1>3, <2>1, <2>2
<1>5. Ending(c, s)
  BY <1>1
<1>6. Honest(q, box) /\ UsersKill(q, ended)
  BY <1>2, <1>3, <1>5 DEF Ending, Honest, UsersKill
<1> QED BY <1>2, <1>3, <1>4, <1>5, <1>6 DEF Ending

\* What opening or looking refuses is at its end.
LEMMA RefuseIsGood ==
  ASSUME IInv, NEW c \in Conns, NEW code \in Codes, Refuse(c, code),
         conn[c].pc \in {"opening", "starting", "checking"}, box' = box, ended' = ended
  PROVE  ConnsGood
<1>1. PICK r : r = conn[c]
  OBVIOUS
<1>2. r \in ConnType /\ Consistent(r, c \in streams) /\ Honest(r, box) /\ UsersKill(r, ended)
  BY <1>1, ConnIs
<1>3. PICK s : s = [r EXCEPT !.pc = "done"]
  OBVIOUS
<1>4. s \in ConnType
  BY <1>2, <1>3 DEF ConnType
<1>5. PICK q : q = Close(s, code)
  OBVIOUS
<1>6. Ending(c, [s EXCEPT !.open = FALSE])
  <2>1. PICK t : t = [s EXCEPT !.open = FALSE]
    OBVIOUS
  <2>2. /\ t \in ConnType /\ t.pane = r.pane /\ t.link = r.link /\ t.up = r.up /\ t.down = r.down
        /\ ~t.open /\ t.pc = "done" /\ t.closed = r.closed /\ t.kill = r.kill
        /\ t.held = r.held /\ t.stream = r.stream /\ t.exec = r.exec
        /\ t.code = r.code /\ t.looks = r.looks /\ t.sure = r.sure /\ t.task = r.task
    BY <1>2, <1>3, <2>1 DEF ConnType
  <2>3. Honest(t, box) /\ UsersKill(t, ended) /\ (Tells(t) => Tells(r))
    BY <1>2, <2>2 DEF Honest, UsersKill, Tells
  <2>4. /\ r.pane \in Panes /\ t.stream # "open" /\ (t.stream = "none" => ~t.held /\ t.exec = "none")
        /\ (t.stream = "ended" => t.exec # "live") /\ (c \in streams => t.held)
    BY <1>1, <1>2, <2>2 DEF Consistent
  <2> QED BY <1>1, <2>1, <2>2, <2>3, <2>4 DEF Ending
<1>7. Ending(c, q)
  BY <1>4, <1>5, <1>6, CloseIsEnding
<1>8. End(c, q)
  BY <1>1, <1>3, <1>5 DEF Refuse, Fail
<1> QED BY <1>7, <1>8, EndIsGood

\* The handshake.
LEMMA AcceptIsGood ==
  ASSUME IInv, NEW c \in Conns, conn[c].pc = "asked", conn[c].link,
         Set(c, [conn[c] EXCEPT !.pc = "opening", !.open = TRUE]),
         UNCHANGED <<streams, box, ended>>
  PROVE  ConnsGood
<1>1. PICK r : r = conn[c]
  OBVIOUS
<1>2. r \in ConnType /\ Consistent(r, c \in streams) /\ Honest(r, box) /\ UsersKill(r, ended)
  BY <1>1, ConnIs
<1>3. PICK q : q = [r EXCEPT !.pc = "opening", !.open = TRUE]
  OBVIOUS
<1>4. /\ q.pane = r.pane /\ q.link = r.link /\ q.up = r.up /\ q.down = r.down
      /\ q.open = TRUE /\ q.pc = "opening" /\ q.closed = r.closed /\ q.kill = r.kill
      /\ q.held = r.held /\ q.tmux = r.tmux /\ q.stream = r.stream /\ q.exec = r.exec
      /\ q.code = r.code /\ q.looks = r.looks /\ q.sure = r.sure /\ q.task = r.task
  BY <1>1, <1>2, <1>3 DEF ConnType
<1>0. q \in ConnType
  <2>1. PICK r1 : r1 = [r EXCEPT !.pc = "opening"]
    OBVIOUS
  <2>2. r1 \in ConnType
    BY <1>2, <2>1, Retyped
  <2>3. PICK r2 : r2 = [r1 EXCEPT !.open = TRUE]
    OBVIOUS
  <2>4. r2 \in ConnType
    BY <2>2, <2>3, Retyped
  <2>5. q = r2
    BY <1>2, <1>3, <2>1, <2>3 DEF ConnType
  <2> QED BY <2>4, <2>5
<1>5. Set(c, q) /\ streams' = streams /\ box' = box /\ ended' = ended
  BY <1>1, <1>3
<1>6. Consistent(q, c \in streams')
  BY <1>0, <1>1, <1>2, <1>4, <1>5 DEF Consistent
<1>7. Honest(q, box') /\ UsersKill(q, ended') /\ (Tells(q) => Tells(r))
  BY <1>1, <1>2, <1>4, <1>5 DEF Honest, UsersKill, Tells
<1>8. Good(c, q)
  BY <1>0, <1>1, <1>4, <1>6, <1>7 DEF Good, Sound
<1> QED BY <1>5, <1>8, OneIsGood

\* The upgrade that never arrives.
LEMMA NeverArrivesIsGood ==
  ASSUME IInv, NEW c \in Conns, conn[c].pc = "asked",
         Set(c, [conn[c] EXCEPT !.pc = "done", !.closed = TRUE]),
         UNCHANGED <<streams, box, ended>>
  PROVE  ConnsGood
<1>1. PICK r : r = conn[c]
  OBVIOUS
<1>2. r \in ConnType /\ Consistent(r, c \in streams) /\ Honest(r, box) /\ UsersKill(r, ended)
  BY <1>1, ConnIs
<1>3. PICK q : q = [r EXCEPT !.pc = "done", !.closed = TRUE]
  OBVIOUS
<1>4. /\ q.pane = r.pane /\ q.link = r.link /\ q.up = r.up /\ q.down = r.down
      /\ q.open = r.open /\ q.pc = "done" /\ q.closed = TRUE /\ q.kill = r.kill
      /\ q.held = r.held /\ q.tmux = r.tmux /\ q.stream = r.stream /\ q.exec = r.exec
      /\ q.code = r.code /\ q.looks = r.looks /\ q.sure = r.sure /\ q.task = r.task
  BY <1>1, <1>2, <1>3 DEF ConnType
<1>0. q \in ConnType
  <2>1. PICK r1 : r1 = [r EXCEPT !.pc = "done"]
    OBVIOUS
  <2>2. r1 \in ConnType
    BY <1>2, <2>1, Retyped
  <2>3. PICK r2 : r2 = [r1 EXCEPT !.closed = TRUE]
    OBVIOUS
  <2>4. r2 \in ConnType
    BY <2>2, <2>3, Retyped
  <2>5. q = r2
    BY <1>2, <1>3, <2>1, <2>3 DEF ConnType
  <2> QED BY <2>4, <2>5
<1>5. Set(c, q) /\ streams' = streams /\ box' = box /\ ended' = ended
  BY <1>1, <1>3
<1>6. Consistent(q, c \in streams')
  BY <1>0, <1>1, <1>2, <1>4, <1>5 DEF Consistent
<1>7. Honest(q, box') /\ UsersKill(q, ended') /\ (Tells(q) => Tells(r))
  BY <1>1, <1>2, <1>4, <1>5 DEF Honest, UsersKill, Tells
<1>8. Good(c, q)
  BY <1>0, <1>1, <1>4, <1>6, <1>7 DEF Good, Sound
<1> QED BY <1>5, <1>8, OneIsGood

\* The container was found.
LEMMA FindsIsGood ==
  ASSUME IInv, NEW c \in Conns, conn[c].pc = "opening",
         Set(c, [conn[c] EXCEPT !.pc = "probing"]), UNCHANGED <<streams, box, ended>>
  PROVE  ConnsGood
<1>1. PICK r : r = conn[c]
  OBVIOUS
<1>2. r \in ConnType /\ Consistent(r, c \in streams) /\ Honest(r, box) /\ UsersKill(r, ended)
  BY <1>1, ConnIs
<1>3. PICK q : q = [r EXCEPT !.pc = "probing"]
  OBVIOUS
<1>4. /\ q.pane = r.pane /\ q.link = r.link /\ q.up = r.up /\ q.down = r.down
      /\ q.open = r.open /\ q.pc = "probing" /\ q.closed = r.closed /\ q.kill = r.kill
      /\ q.held = r.held /\ q.tmux = r.tmux /\ q.stream = r.stream /\ q.exec = r.exec
      /\ q.code = r.code /\ q.looks = r.looks /\ q.sure = r.sure /\ q.task = r.task
  BY <1>1, <1>2, <1>3 DEF ConnType
<1>0. q \in ConnType
  <2>1. PICK r1 : r1 = [r EXCEPT !.pc = "probing"]
    OBVIOUS
  <2>2. r1 \in ConnType
    BY <1>2, <2>1, Retyped
  <2>3. q = r1
    BY <1>2, <1>3, <2>1 DEF ConnType
  <2> QED BY <2>2, <2>3
<1>5. Set(c, q) /\ streams' = streams /\ box' = box /\ ended' = ended
  BY <1>1, <1>3
<1>6. Consistent(q, c \in streams')
  BY <1>0, <1>1, <1>2, <1>4, <1>5 DEF Consistent
<1>7. Honest(q, box') /\ UsersKill(q, ended') /\ (Tells(q) => Tells(r))
  BY <1>1, <1>2, <1>4, <1>5 DEF Honest, UsersKill, Tells
<1>8. Good(c, q)
  BY <1>0, <1>1, <1>4, <1>6, <1>7 DEF Good, Sound
<1> QED BY <1>5, <1>8, OneIsGood

\* The answer about tmux.
LEMMA ProbeIsGood ==
  ASSUME IInv, NEW c \in Conns, NEW t \in BOOLEAN, conn[c].pc = "probing",
         Set(c, [conn[c] EXCEPT !.pc = "starting", !.tmux = t]),
         UNCHANGED <<streams, box, ended>>
  PROVE  ConnsGood
<1>1. PICK r : r = conn[c]
  OBVIOUS
<1>2. r \in ConnType /\ Consistent(r, c \in streams) /\ Honest(r, box) /\ UsersKill(r, ended)
  BY <1>1, ConnIs
<1>3. PICK q : q = [r EXCEPT !.pc = "starting", !.tmux = t]
  OBVIOUS
<1>4. /\ q.pane = r.pane /\ q.link = r.link /\ q.up = r.up /\ q.down = r.down
      /\ q.open = r.open /\ q.pc = "starting" /\ q.closed = r.closed /\ q.kill = r.kill
      /\ q.held = r.held /\ q.tmux = t /\ q.stream = r.stream /\ q.exec = r.exec
      /\ q.code = r.code /\ q.looks = r.looks /\ q.sure = r.sure /\ q.task = r.task
  BY <1>1, <1>2, <1>3 DEF ConnType
<1>0. q \in ConnType
  <2>1. PICK r1 : r1 = [r EXCEPT !.pc = "starting"]
    OBVIOUS
  <2>2. r1 \in ConnType
    BY <1>2, <2>1, Retyped
  <2>3. PICK r2 : r2 = [r1 EXCEPT !.tmux = t]
    OBVIOUS
  <2>4. r2 \in ConnType
    BY <2>2, <2>3, Retyped
  <2>5. q = r2
    BY <1>2, <1>3, <2>1, <2>3 DEF ConnType
  <2> QED BY <2>4, <2>5
<1>5. Set(c, q) /\ streams' = streams /\ box' = box /\ ended' = ended
  BY <1>1, <1>3
<1>6. Consistent(q, c \in streams')
  BY <1>0, <1>1, <1>2, <1>4, <1>5 DEF Consistent
<1>7. Honest(q, box') /\ UsersKill(q, ended') /\ (Tells(q) => Tells(r))
  BY <1>1, <1>2, <1>4, <1>5 DEF Honest, UsersKill, Tells
<1>8. Good(c, q)
  BY <1>0, <1>1, <1>4, <1>6, <1>7 DEF Good, Sound
<1> QED BY <1>5, <1>8, OneIsGood

\* The exec was started.
LEMMA StartIsGood ==
  ASSUME IInv, NEW c \in Conns, conn[c].pc = "starting",
         Set(c, [conn[c] EXCEPT !.pc = "resizing", !.stream = "open", !.exec = "live"]),
         UNCHANGED <<streams, box, ended>>
  PROVE  ConnsGood
<1>1. PICK r : r = conn[c]
  OBVIOUS
<1>2. r \in ConnType /\ Consistent(r, c \in streams) /\ Honest(r, box) /\ UsersKill(r, ended)
  BY <1>1, ConnIs
<1>3. PICK q : q = [r EXCEPT !.pc = "resizing", !.stream = "open", !.exec = "live"]
  OBVIOUS
<1>4. /\ q.pane = r.pane /\ q.link = r.link /\ q.up = r.up /\ q.down = r.down
      /\ q.open = r.open /\ q.pc = "resizing" /\ q.closed = r.closed /\ q.kill = r.kill
      /\ q.held = r.held /\ q.tmux = r.tmux /\ q.stream = "open" /\ q.exec = "live"
      /\ q.code = r.code /\ q.looks = r.looks /\ q.sure = r.sure /\ q.task = r.task
  BY <1>1, <1>2, <1>3 DEF ConnType
<1>0. q \in ConnType
  <2>1. PICK r1 : r1 = [r EXCEPT !.pc = "resizing"]
    OBVIOUS
  <2>2. r1 \in ConnType
    BY <1>2, <2>1, Retyped
  <2>3. PICK r2 : r2 = [r1 EXCEPT !.stream = "open"]
    OBVIOUS
  <2>4. r2 \in ConnType
    BY <2>2, <2>3, Retyped
  <2>5. PICK r3 : r3 = [r2 EXCEPT !.exec = "live"]
    OBVIOUS
  <2>6. r3 \in ConnType
    BY <2>4, <2>5, Retyped
  <2>7. q = r3
    BY <1>2, <1>3, <2>1, <2>3, <2>5 DEF ConnType
  <2> QED BY <2>6, <2>7
<1>5. Set(c, q) /\ streams' = streams /\ box' = box /\ ended' = ended
  BY <1>1, <1>3
<1>6. Consistent(q, c \in streams')
  BY <1>0, <1>1, <1>2, <1>4, <1>5 DEF Consistent
<1>7. Honest(q, box') /\ UsersKill(q, ended') /\ (Tells(q) => Tells(r))
  BY <1>1, <1>2, <1>4, <1>5 DEF Honest, UsersKill, Tells
<1>8. Good(c, q)
  BY <1>0, <1>1, <1>4, <1>6, <1>7 DEF Good, Sound
<1> QED BY <1>5, <1>8, OneIsGood

\* The handler of a closed stream finds the browser gone.
LEMMA GiveUpIsGood ==
  ASSUME IInv, NEW c \in Conns,
         conn[c].pc \in {"inspecting", "checking", "waiting"}, Gone(conn[c]),
         Set(c, [conn[c] EXCEPT !.pc = "done"]), UNCHANGED <<streams, box, ended>>
  PROVE  ConnsGood
<1>1. PICK r : r = conn[c]
  OBVIOUS
<1>2. r \in ConnType /\ Consistent(r, c \in streams) /\ Honest(r, box) /\ UsersKill(r, ended)
  BY <1>1, ConnIs
<1>3. PICK q : q = [r EXCEPT !.pc = "done"]
  OBVIOUS
<1>4. /\ q.pane = r.pane /\ q.link = r.link /\ q.up = r.up /\ q.down = r.down
      /\ q.open = r.open /\ q.pc = "done" /\ q.closed = r.closed /\ q.kill = r.kill
      /\ q.held = r.held /\ q.tmux = r.tmux /\ q.stream = r.stream /\ q.exec = r.exec
      /\ q.code = r.code /\ q.looks = r.looks /\ q.sure = r.sure /\ q.task = r.task
  BY <1>1, <1>2, <1>3 DEF ConnType, Gone
<1>0. q \in ConnType
  <2>1. PICK r1 : r1 = [r EXCEPT !.pc = "done"]
    OBVIOUS
  <2>2. r1 \in ConnType
    BY <1>2, <2>1, Retyped
  <2>3. q = r1
    BY <1>2, <1>3, <2>1 DEF ConnType
  <2> QED BY <2>2, <2>3
<1>5. Set(c, q) /\ streams' = streams /\ box' = box /\ ended' = ended
  BY <1>1, <1>3
<1>6. Consistent(q, c \in streams')
  BY <1>0, <1>1, <1>2, <1>4, <1>5 DEF Consistent, Gone
<1>7. Honest(q, box') /\ UsersKill(q, ended') /\ (Tells(q) => Tells(r))
  BY <1>1, <1>2, <1>4, <1>5 DEF Honest, UsersKill, Tells, Gone
<1>8. Good(c, q)
  BY <1>0, <1>1, <1>4, <1>6, <1>7 DEF Good, Sound
<1> QED BY <1>5, <1>8, OneIsGood

\* The stream ends behind its exec.
LEMMA StreamEndIsGood ==
  ASSUME IInv, NEW c \in Conns,
         NEW p \in {"asked", "opening", "probing", "starting", "resizing", "live",
                  "inspecting", "checking", "waiting", "done"},
         conn[c].stream = "open", conn[c].exec # "live",
         p = IF conn[c].held /\ ~conn[c].closed THEN "inspecting" ELSE conn[c].pc,
         Set(c, [conn[c] EXCEPT !.stream = "ended", !.pc = p]),
         UNCHANGED <<streams, box, ended>>
  PROVE  ConnsGood
<1>1. PICK r : r = conn[c]
  OBVIOUS
<1>2. r \in ConnType /\ Consistent(r, c \in streams) /\ Honest(r, box) /\ UsersKill(r, ended)
  BY <1>1, ConnIs
<1>3. PICK q : q = [r EXCEPT !.stream = "ended", !.pc = p]
  OBVIOUS
<1>4. /\ q.pane = r.pane /\ q.link = r.link /\ q.up = r.up /\ q.down = r.down
      /\ q.open = r.open /\ q.pc = p /\ q.closed = r.closed /\ q.kill = r.kill
      /\ q.held = r.held /\ q.tmux = r.tmux /\ q.stream = "ended" /\ q.exec = r.exec
      /\ q.code = r.code /\ q.looks = r.looks /\ q.sure = r.sure /\ q.task = r.task
  BY <1>1, <1>2, <1>3 DEF ConnType
<1>0. q \in ConnType
  <2>1. PICK r1 : r1 = [r EXCEPT !.stream = "ended"]
    OBVIOUS
  <2>2. r1 \in ConnType
    BY <1>2, <2>1, Retyped
  <2>3. PICK r2 : r2 = [r1 EXCEPT !.pc = p]
    OBVIOUS
  <2>4. r2 \in ConnType
    BY <2>2, <2>3, Retyped
  <2>5. q = r2
    BY <1>2, <1>3, <2>1, <2>3 DEF ConnType
  <2> QED BY <2>4, <2>5
<1>5. Set(c, q) /\ streams' = streams /\ box' = box /\ ended' = ended
  BY <1>1, <1>3
<1>6. Consistent(q, c \in streams')
  BY <1>0, <1>1, <1>2, <1>4, <1>5 DEF Consistent
<1>7. Honest(q, box') /\ UsersKill(q, ended') /\ (Tells(q) => Tells(r))
  BY <1>1, <1>2, <1>4, <1>5 DEF Honest, UsersKill, Tells
<1>8. Good(c, q)
  BY <1>0, <1>1, <1>4, <1>6, <1>7 DEF Good, Sound
<1> QED BY <1>5, <1>8, OneIsGood

\* The exit status was read.
LEMMA InspectIsGood ==
  ASSUME IInv, NEW c \in Conns, NEW code \in {"0", "137", "null"}, NEW n \in 0 .. LookLimit,
         n = LookLimit, conn[c].pc = "inspecting",
         conn[c].exec = "stop" => code \in {"137", "null"},
         Set(c, [conn[c] EXCEPT !.pc = "checking", !.code = code, !.looks = n]),
         UNCHANGED <<streams, box, ended>>
  PROVE  ConnsGood
<1>1. PICK r : r = conn[c]
  OBVIOUS
<1>2. r \in ConnType /\ Consistent(r, c \in streams) /\ Honest(r, box) /\ UsersKill(r, ended)
  BY <1>1, ConnIs
<1>3. PICK q : q = [r EXCEPT !.pc = "checking", !.code = code, !.looks = n]
  OBVIOUS
<1>4. /\ q.pane = r.pane /\ q.link = r.link /\ q.up = r.up /\ q.down = r.down
      /\ q.open = r.open /\ q.pc = "checking" /\ q.closed = r.closed /\ q.kill = r.kill
      /\ q.held = r.held /\ q.tmux = r.tmux /\ q.stream = r.stream /\ q.exec = r.exec
      /\ q.code = code /\ q.looks = n /\ q.sure = r.sure /\ q.task = r.task
  BY <1>1, <1>2, <1>3 DEF ConnType
<1>0. q \in ConnType
  <2>1. PICK r1 : r1 = [r EXCEPT !.pc = "checking"]
    OBVIOUS
  <2>2. r1 \in ConnType
    BY <1>2, <2>1, Retyped
  <2>3. PICK r2 : r2 = [r1 EXCEPT !.code = code]
    OBVIOUS
  <2>4. r2 \in ConnType
    BY <2>2, <2>3, Retyped
  <2>5. PICK r3 : r3 = [r2 EXCEPT !.looks = n]
    OBVIOUS
  <2>6. r3 \in ConnType
    BY <2>4, <2>5, Retyped
  <2>7. q = r3
    BY <1>2, <1>3, <2>1, <2>3, <2>5 DEF ConnType
  <2> QED BY <2>6, <2>7
<1>5. Set(c, q) /\ streams' = streams /\ box' = box /\ ended' = ended
  BY <1>1, <1>3
<1>6. Consistent(q, c \in streams')
  BY <1>0, <1>1, <1>2, <1>4, <1>5, BridgeAssumption DEF Consistent
<1>7. Honest(q, box') /\ UsersKill(q, ended') /\ (Tells(q) => Tells(r))
  BY <1>1, <1>2, <1>4, <1>5, BridgeAssumption DEF Honest, UsersKill, Tells
<1>8. Good(c, q)
  BY <1>0, <1>1, <1>4, <1>6, <1>7 DEF Good, Sound
<1> QED BY <1>5, <1>8, OneIsGood

\* The container seems to run, and is looked at again.
LEMMA WaitIsGood ==
  ASSUME IInv, NEW c \in Conns, NEW sure \in BOOLEAN, conn[c].pc = "checking",
         conn[c].looks > 0,
         Set(c, [conn[c] EXCEPT !.pc = "waiting", !.sure = sure]),
         UNCHANGED <<streams, box, ended>>
  PROVE  ConnsGood
<1>1. PICK r : r = conn[c]
  OBVIOUS
<1>2. r \in ConnType /\ Consistent(r, c \in streams) /\ Honest(r, box) /\ UsersKill(r, ended)
  BY <1>1, ConnIs
<1>3. PICK q : q = [r EXCEPT !.pc = "waiting", !.sure = sure]
  OBVIOUS
<1>4. /\ q.pane = r.pane /\ q.link = r.link /\ q.up = r.up /\ q.down = r.down
      /\ q.open = r.open /\ q.pc = "waiting" /\ q.closed = r.closed /\ q.kill = r.kill
      /\ q.held = r.held /\ q.tmux = r.tmux /\ q.stream = r.stream /\ q.exec = r.exec
      /\ q.code = r.code /\ q.looks = r.looks /\ q.sure = sure /\ q.task = r.task
  BY <1>1, <1>2, <1>3 DEF ConnType
<1>0. q \in ConnType
  <2>1. PICK r1 : r1 = [r EXCEPT !.pc = "waiting"]
    OBVIOUS
  <2>2. r1 \in ConnType
    BY <1>2, <2>1, Retyped
  <2>3. PICK r2 : r2 = [r1 EXCEPT !.sure = sure]
    OBVIOUS
  <2>4. r2 \in ConnType
    BY <2>2, <2>3, Retyped
  <2>5. q = r2
    BY <1>2, <1>3, <2>1, <2>3 DEF ConnType
  <2> QED BY <2>4, <2>5
<1>5. Set(c, q) /\ streams' = streams /\ box' = box /\ ended' = ended
  BY <1>1, <1>3
<1>6. Consistent(q, c \in streams')
  BY <1>0, <1>1, <1>2, <1>4, <1>5 DEF Consistent
<1>7. Honest(q, box') /\ UsersKill(q, ended') /\ (Tells(q) => Tells(r))
  BY <1>1, <1>2, <1>4, <1>5 DEF Honest, UsersKill, Tells
<1>8. Good(c, q)
  BY <1>0, <1>1, <1>4, <1>6, <1>7 DEF Good, Sound
<1> QED BY <1>5, <1>8, OneIsGood

\* The delay between two looks is over.
LEMMA LookIsGood ==
  ASSUME IInv, NEW c \in Conns, NEW n \in 0 .. LookLimit, n = conn[c].looks - 1,
         conn[c].pc = "waiting",
         conn[c].looks = 1 => box \notin {"running", "dying"} \/ conn[c].exec # "stop",
         Set(c, [conn[c] EXCEPT !.pc = "checking", !.looks = n]),
         UNCHANGED <<streams, box, ended>>
  PROVE  ConnsGood
<1>1. PICK r : r = conn[c]
  OBVIOUS
<1>2. r \in ConnType /\ Consistent(r, c \in streams) /\ Honest(r, box) /\ UsersKill(r, ended)
  BY <1>1, ConnIs
<1>3. PICK q : q = [r EXCEPT !.pc = "checking", !.looks = n]
  OBVIOUS
<1>4. /\ q.pane = r.pane /\ q.link = r.link /\ q.up = r.up /\ q.down = r.down
      /\ q.open = r.open /\ q.pc = "checking" /\ q.closed = r.closed /\ q.kill = r.kill
      /\ q.held = r.held /\ q.tmux = r.tmux /\ q.stream = r.stream /\ q.exec = r.exec
      /\ q.code = r.code /\ q.looks = n /\ q.sure = r.sure /\ q.task = r.task
  BY <1>1, <1>2, <1>3 DEF ConnType
<1>0. q \in ConnType
  <2>1. PICK r1 : r1 = [r EXCEPT !.pc = "checking"]
    OBVIOUS
  <2>2. r1 \in ConnType
    BY <1>2, <2>1, Retyped
  <2>3. PICK r2 : r2 = [r1 EXCEPT !.looks = n]
    OBVIOUS
  <2>4. r2 \in ConnType
    BY <2>2, <2>3, Retyped
  <2>5. q = r2
    BY <1>2, <1>3, <2>1, <2>3 DEF ConnType
  <2> QED BY <2>4, <2>5
<1>5. Set(c, q) /\ streams' = streams /\ box' = box /\ ended' = ended
  BY <1>1, <1>3
<1>6. Consistent(q, c \in streams')
  BY <1>0, <1>1, <1>2, <1>4, <1>5, BridgeAssumption DEF Consistent
<1>7. Honest(q, box') /\ UsersKill(q, ended') /\ (Tells(q) => Tells(r))
  BY <1>1, <1>2, <1>4, <1>5, BridgeAssumption DEF Honest, UsersKill, Tells
<1>8. Good(c, q)
  BY <1>0, <1>1, <1>4, <1>6, <1>7 DEF Good, Sound
<1> QED BY <1>5, <1>8, OneIsGood

\* killTmuxSession goes on, or is over.
LEMMA KillStepIsGood ==
  ASSUME IInv, NEW c \in Conns, NEW task \in {"none", "found"}, conn[c].task # "none",
         Set(c, [conn[c] EXCEPT !.task = task]), UNCHANGED <<streams, box, ended>>
  PROVE  ConnsGood
<1>1. PICK r : r = conn[c]
  OBVIOUS
<1>2. r \in ConnType /\ Consistent(r, c \in streams) /\ Honest(r, box) /\ UsersKill(r, ended)
  BY <1>1, ConnIs
<1>3. PICK q : q = [r EXCEPT !.task = task]
  OBVIOUS
<1>4. /\ q.pane = r.pane /\ q.link = r.link /\ q.up = r.up /\ q.down = r.down
      /\ q.open = r.open /\ q.pc = r.pc /\ q.closed = r.closed /\ q.kill = r.kill
      /\ q.held = r.held /\ q.tmux = r.tmux /\ q.stream = r.stream /\ q.exec = r.exec
      /\ q.code = r.code /\ q.looks = r.looks /\ q.sure = r.sure /\ q.task = task
  BY <1>1, <1>2, <1>3 DEF ConnType
<1>0. q \in ConnType
  <2>1. PICK r1 : r1 = [r EXCEPT !.task = task]
    OBVIOUS
  <2>2. r1 \in ConnType
    BY <1>2, <2>1, Retyped
  <2>3. q = r1
    BY <1>2, <1>3, <2>1 DEF ConnType
  <2> QED BY <2>2, <2>3
<1>5. Set(c, q) /\ streams' = streams /\ box' = box /\ ended' = ended
  BY <1>1, <1>3
<1>6. Consistent(q, c \in streams')
  BY <1>0, <1>1, <1>2, <1>4, <1>5 DEF Consistent
<1>7. Honest(q, box') /\ UsersKill(q, ended') /\ (Tells(q) => Tells(r))
  BY <1>1, <1>2, <1>4, <1>5 DEF Honest, UsersKill, Tells
<1>8. Good(c, q)
  BY <1>0, <1>1, <1>4, <1>6, <1>7 DEF Good, Sound
<1> QED BY <1>5, <1>8, OneIsGood

\* Frames on their way to the server, or one less.
LEMMA UpIsGood ==
  ASSUME IInv, NEW c \in Conns, NEW u \in Seq({"kill", "4001", "1001"}), conn[c].pane \in Panes,
         \A i \in DOMAIN u : u[i] \in {"kill", "4001"} =>
            \/ conn[c].pane \in ended'
            \/ \E j \in DOMAIN conn[c].up : conn[c].up[j] \in {"kill", "4001"},
         Set(c, [conn[c] EXCEPT !.up = u]), UNCHANGED <<streams, box>>,
         ended \subseteq ended'
  PROVE  ConnsGood
<1>1. PICK r : r = conn[c]
  OBVIOUS
<1>2. r \in ConnType /\ Consistent(r, c \in streams) /\ Honest(r, box) /\ UsersKill(r, ended)
  BY <1>1, ConnIs
<1>3. PICK q : q = [r EXCEPT !.up = u]
  OBVIOUS
<1>4. /\ q.pane = r.pane /\ q.link = r.link /\ q.up = u /\ q.down = r.down
      /\ q.open = r.open /\ q.pc = r.pc /\ q.closed = r.closed /\ q.kill = r.kill
      /\ q.held = r.held /\ q.tmux = r.tmux /\ q.stream = r.stream /\ q.exec = r.exec
      /\ q.code = r.code /\ q.looks = r.looks /\ q.sure = r.sure /\ q.task = r.task
  BY <1>1, <1>2, <1>3 DEF ConnType
<1>0. q \in ConnType
  <2>1. PICK r1 : r1 = [r EXCEPT !.up = u]
    OBVIOUS
  <2>2. r1 \in ConnType
    BY <1>2, <2>1, Retyped
  <2>3. q = r1
    BY <1>2, <1>3, <2>1 DEF ConnType
  <2> QED BY <2>2, <2>3
<1>5. Set(c, q) /\ streams' = streams /\ box' = box
  BY <1>1, <1>3
<1>6. Consistent(q, c \in streams')
  BY <1>0, <1>1, <1>2, <1>4, <1>5 DEF Consistent
<1>7. Honest(q, box') /\ UsersKill(q, ended') /\ (Tells(q) => Tells(r))
  BY <1>1, <1>2, <1>4, <1>5 DEF Honest, UsersKill, Tells
<1>8. Good(c, q)
  BY <1>0, <1>1, <1>4, <1>6, <1>7 DEF Good, Sound
<1> QED BY <1>5, <1>8, OneIsGood

\* The network between the two ends breaks, or is let go of.
LEMMA LoseIsGood ==
  ASSUME IInv, NEW c \in Conns, Set(c, [conn[c] EXCEPT !.link = FALSE]),
         UNCHANGED <<streams, box>>,
         ended \subseteq ended'
  PROVE  ConnsGood
<1>1. PICK r : r = conn[c]
  OBVIOUS
<1>2. r \in ConnType /\ Consistent(r, c \in streams) /\ Honest(r, box) /\ UsersKill(r, ended)
  BY <1>1, ConnIs
<1>3. PICK q : q = [r EXCEPT !.link = FALSE]
  OBVIOUS
<1>4. /\ q.pane = r.pane /\ q.link = FALSE /\ q.up = r.up /\ q.down = r.down
      /\ q.open = r.open /\ q.pc = r.pc /\ q.closed = r.closed /\ q.kill = r.kill
      /\ q.held = r.held /\ q.tmux = r.tmux /\ q.stream = r.stream /\ q.exec = r.exec
      /\ q.code = r.code /\ q.looks = r.looks /\ q.sure = r.sure /\ q.task = r.task
  BY <1>1, <1>2, <1>3 DEF ConnType
<1>0. q \in ConnType
  <2>1. PICK r1 : r1 = [r EXCEPT !.link = FALSE]
    OBVIOUS
  <2>2. r1 \in ConnType
    BY <1>2, <2>1, Retyped
  <2>3. q = r1
    BY <1>2, <1>3, <2>1 DEF ConnType
  <2> QED BY <2>2, <2>3
<1>5. Set(c, q) /\ streams' = streams /\ box' = box
  BY <1>1, <1>3
<1>6. Consistent(q, c \in streams')
  BY <1>0, <1>1, <1>2, <1>4, <1>5 DEF Consistent
<1>7. Honest(q, box') /\ UsersKill(q, ended') /\ (Tells(q) => Tells(r))
  BY <1>1, <1>2, <1>4, <1>5 DEF Honest, UsersKill, Tells
<1>8. Good(c, q)
  BY <1>0, <1>1, <1>4, <1>6, <1>7 DEF Good, Sound
<1> QED BY <1>5, <1>8, OneIsGood

\* Frames that the browser has read.
LEMMA DownIsGood ==
  ASSUME IInv, NEW c \in Conns, NEW u \in Seq(Frames),
         \A i \in DOMAIN u : \E j \in DOMAIN conn[c].down : u[i] = conn[c].down[j],
         Set(c, [conn[c] EXCEPT !.down = u]), UNCHANGED <<streams, box>>,
         ended \subseteq ended'
  PROVE  ConnsGood
<1>1. PICK r : r = conn[c]
  OBVIOUS
<1>2. r \in ConnType /\ Consistent(r, c \in streams) /\ Honest(r, box) /\ UsersKill(r, ended)
  BY <1>1, ConnIs
<1>3. PICK q : q = [r EXCEPT !.down = u]
  OBVIOUS
<1>4. /\ q.pane = r.pane /\ q.link = r.link /\ q.up = r.up /\ q.down = u /\ q.open = r.open
      /\ q.pc = r.pc /\ q.closed = r.closed /\ q.kill = r.kill /\ q.held = r.held
      /\ q.tmux = r.tmux /\ q.stream = r.stream /\ q.exec = r.exec /\ q.code = r.code
      /\ q.looks = r.looks /\ q.sure = r.sure /\ q.task = r.task
  BY <1>1, <1>2, <1>3 DEF ConnType
<1>0. q \in ConnType
  <2>1. PICK r1 : r1 = [r EXCEPT !.down = u]
    OBVIOUS
  <2>2. r1 \in ConnType
    BY <1>2, <2>1, Retyped
  <2>3. q = r1
    BY <1>2, <1>3, <2>1 DEF ConnType
  <2> QED BY <2>2, <2>3
<1>5. Set(c, q) /\ streams' = streams /\ box' = box
  BY <1>1, <1>3
<1>6. Consistent(q, c \in streams')
  BY <1>0, <1>1, <1>2, <1>4, <1>5 DEF Consistent
<1>7. Honest(q, box') /\ UsersKill(q, ended') /\ (Tells(q) => Tells(r))
  BY <1>1, <1>2, <1>4, <1>5 DEF Honest, UsersKill, Tells
<1>8. Good(c, q)
  BY <1>0, <1>1, <1>4, <1>6, <1>7 DEF Good, Sound
<1> QED BY <1>5, <1>8, OneIsGood

\* The browser has read the close.
LEMMA HangsUpIsGood ==
  ASSUME IInv, NEW c \in Conns, NEW u \in Seq(Frames),
         u = <<>>,
         Set(c, [conn[c] EXCEPT !.down = u, !.link = FALSE]), UNCHANGED <<streams, box>>,
         ended \subseteq ended'
  PROVE  ConnsGood
<1>1. PICK r : r = conn[c]
  OBVIOUS
<1>2. r \in ConnType /\ Consistent(r, c \in streams) /\ Honest(r, box) /\ UsersKill(r, ended)
  BY <1>1, ConnIs
<1>3. PICK q : q = [r EXCEPT !.down = u, !.link = FALSE]
  OBVIOUS
<1>4. /\ q.pane = r.pane /\ q.link = FALSE /\ q.up = r.up /\ q.down = u /\ q.open = r.open
      /\ q.pc = r.pc /\ q.closed = r.closed /\ q.kill = r.kill /\ q.held = r.held
      /\ q.tmux = r.tmux /\ q.stream = r.stream /\ q.exec = r.exec /\ q.code = r.code
      /\ q.looks = r.looks /\ q.sure = r.sure /\ q.task = r.task
  BY <1>1, <1>2, <1>3 DEF ConnType
<1>0. q \in ConnType
  <2>1. PICK r1 : r1 = [r EXCEPT !.down = u]
    OBVIOUS
  <2>2. r1 \in ConnType
    BY <1>2, <2>1, Retyped
  <2>3. PICK r2 : r2 = [r1 EXCEPT !.link = FALSE]
    OBVIOUS
  <2>4. r2 \in ConnType
    BY <2>2, <2>3, Retyped
  <2>5. q = r2
    BY <1>2, <1>3, <2>1, <2>3 DEF ConnType
  <2> QED BY <2>4, <2>5
<1>5. Set(c, q) /\ streams' = streams /\ box' = box
  BY <1>1, <1>3
<1>6. Consistent(q, c \in streams')
  BY <1>0, <1>1, <1>2, <1>4, <1>5 DEF Consistent
<1>7. Honest(q, box') /\ UsersKill(q, ended') /\ (Tells(q) => Tells(r))
  BY <1>1, <1>2, <1>4, <1>5 DEF Honest, UsersKill, Tells
<1>8. Good(c, q)
  BY <1>0, <1>1, <1>4, <1>6, <1>7 DEF Good, Sound
<1> QED BY <1>5, <1>8, OneIsGood

\* An exec ends by itself.
LEMMA ExecEndsIsGood ==
  ASSUME IInv, NEW c \in Conns, NEW why \in {"exit", "crash"}, conn[c].exec = "live",
         Set(c, [conn[c] EXCEPT !.exec = why]), UNCHANGED <<streams, box>>,
         ended \subseteq ended'
  PROVE  ConnsGood
<1>1. PICK r : r = conn[c]
  OBVIOUS
<1>2. r \in ConnType /\ Consistent(r, c \in streams) /\ Honest(r, box) /\ UsersKill(r, ended)
  BY <1>1, ConnIs
<1>3. PICK q : q = [r EXCEPT !.exec = why]
  OBVIOUS
<1>4. /\ q.pane = r.pane /\ q.link = r.link /\ q.up = r.up /\ q.down = r.down
      /\ q.open = r.open /\ q.pc = r.pc /\ q.closed = r.closed /\ q.kill = r.kill
      /\ q.held = r.held /\ q.tmux = r.tmux /\ q.stream = r.stream /\ q.exec = why
      /\ q.code = r.code /\ q.looks = r.looks /\ q.sure = r.sure /\ q.task = r.task
  BY <1>1, <1>2, <1>3 DEF ConnType
<1>0. q \in ConnType
  <2>1. PICK r1 : r1 = [r EXCEPT !.exec = why]
    OBVIOUS
  <2>2. r1 \in ConnType
    BY <1>2, <2>1, Retyped
  <2>3. q = r1
    BY <1>2, <1>3, <2>1 DEF ConnType
  <2> QED BY <2>2, <2>3
<1>5. Set(c, q) /\ streams' = streams /\ box' = box
  BY <1>1, <1>3
<1>6. Consistent(q, c \in streams')
  BY <1>0, <1>1, <1>2, <1>4, <1>5 DEF Consistent
<1>7. Honest(q, box') /\ UsersKill(q, ended') /\ (Tells(q) => Tells(r))
  BY <1>1, <1>2, <1>4, <1>5 DEF Honest, UsersKill, Tells
<1>8. Good(c, q)
  BY <1>0, <1>1, <1>4, <1>6, <1>7 DEF Good, Sound
<1> QED BY <1>5, <1>8, OneIsGood

-----------------------------------------------------------------------------
(* Attaching, and the ends of a closure.                                   *)

\* The session is attached, and the browser told so.
LEMMA AttachIsGood ==
  ASSUME IInv, NEW c \in Conns, conn[c].pc = "resizing", conn[c].open,
         Set(c, Send([conn[c] EXCEPT !.held = TRUE, !.pc = "live"], Frame("ready", "0"))),
         streams' = streams \cup {c}, box' = box, ended' = ended
  PROVE  ConnsGood
<1>1. PICK r : r = conn[c]
  OBVIOUS
<1>2. r \in ConnType /\ Consistent(r, c \in streams) /\ Honest(r, box) /\ UsersKill(r, ended)
  BY <1>1, ConnIs
<1>3. PICK h : h = [r EXCEPT !.held = TRUE, !.pc = "live"]
  OBVIOUS
<1>4. /\ h.pane = r.pane /\ h.link = r.link /\ h.up = r.up /\ h.down = r.down
      /\ h.open = r.open /\ h.pc = "live" /\ h.closed = r.closed /\ h.kill = r.kill
      /\ h.held = TRUE /\ h.stream = r.stream /\ h.exec = r.exec
      /\ h.code = r.code /\ h.looks = r.looks /\ h.sure = r.sure /\ h.task = r.task
  BY <1>2, <1>3 DEF ConnType
<1>5. h \in ConnType
  <2>1. PICK g : g = [r EXCEPT !.held = TRUE]
    OBVIOUS
  <2>2. g \in ConnType
    BY <1>2, <2>1, Retyped
  <2>3. [g EXCEPT !.pc = "live"] \in ConnType
    BY <2>2, Retyped
  <2>4. h = [g EXCEPT !.pc = "live"]
    BY <1>2, <1>3, <2>1 DEF ConnType
  <2> QED BY <2>3, <2>4
<1>6. PICK f : f = Frame("ready", "0")
  OBVIOUS
<1>7. PICK d : d = Append(h.down, f)
  OBVIOUS
<1>8. d \in Seq(Frames)
  <2>1. f \in Frames
    BY <1>6 DEF Frame, Frames
  <2> QED BY <1>5, <1>7, <2>1 DEF ConnType
<1>9. PICK q : q = [h EXCEPT !.down = d]
  OBVIOUS
<1>10. q \in ConnType
  BY <1>5, <1>8, <1>9, Retyped
<1>11. /\ q.pane = r.pane /\ q.link = r.link /\ q.up = r.up /\ q.down = d
       /\ q.open = r.open /\ q.pc = "live" /\ q.closed = r.closed /\ q.kill = r.kill
       /\ q.held = TRUE /\ q.stream = r.stream /\ q.exec = r.exec
       /\ q.code = r.code /\ q.looks = r.looks /\ q.sure = r.sure /\ q.task = r.task
  BY <1>4, <1>5, <1>9 DEF ConnType
<1>12. Set(c, q)
  <2>1. h.open /\ Send(h, f) = [h EXCEPT !.down = Append(@, f)]
    BY <1>1, <1>4 DEF Send
  <2>2. [h EXCEPT !.down = Append(@, f)] = q
    BY <1>5, <1>7, <1>9 DEF ConnType
  <2> QED BY <1>1, <1>3, <1>6, <2>1, <2>2
<1>13. Consistent(q, c \in streams')
  BY <1>1, <1>2, <1>11 DEF Consistent
<1>14. Honest(q, box') /\ UsersKill(q, ended')
  BY <1>2, <1>11 DEF Honest, UsersKill
<1>15. Tells(q) => Tells(r)
  <2>1. f.type # "exit"
    BY <1>6 DEF Frame
  <2>2. q.down = Append(r.down, f)
    BY <1>4, <1>7, <1>11
  <2> QED BY <1>2, <2>1, <2>2, FrameTells
<1>16. Good(c, q)
  BY <1>1, <1>10, <1>11, <1>13, <1>14, <1>15 DEF Good, Sound
<1> QED BY <1>12, <1>16, OneIsGood

\* The browser went away while its exec was being started: everything undone.
LEMMA DetachIsGood ==
  ASSUME IInv, NEW c \in Conns, conn[c].pc = "resizing", ~conn[c].open,
         Set(c, Cleanup(CloseStream([conn[c] EXCEPT !.pc = "done"]))),
         streams' = streams \ {c}, box' = box, ended' = ended
  PROVE  ConnsGood
<1>1. PICK r : r = conn[c]
  OBVIOUS
<1>2. r \in ConnType /\ Consistent(r, c \in streams) /\ Honest(r, box) /\ UsersKill(r, ended)
  BY <1>1, ConnIs
<1>3. PICK d : d = [r EXCEPT !.pc = "done"]
  OBVIOUS
<1>4. d \in ConnType
  BY <1>2, <1>3, Retyped
<1>5. /\ d.pane = r.pane /\ d.link = r.link /\ d.up = r.up /\ d.down = r.down
      /\ d.open = r.open /\ d.pc = "done" /\ d.closed = r.closed /\ d.kill = r.kill
      /\ d.held = r.held /\ d.stream = r.stream /\ d.exec = r.exec
      /\ d.code = r.code /\ d.looks = r.looks /\ d.sure = r.sure /\ d.task = r.task
  BY <1>2, <1>3 DEF ConnType
<1>6. PICK q : q = CloseStream(d)
  OBVIOUS
<1>7. /\ q \in ConnType /\ q.stream # "open" /\ q.exec # "live"
      /\ q.stream = "none" <=> d.stream = "none"
      /\ d.exec # "live" => q.exec = d.exec
      /\ d.exec = "live" => q.exec = "hangup"
      /\ q.pane = d.pane /\ q.link = d.link /\ q.up = d.up /\ q.down = d.down
      /\ q.open = d.open /\ q.pc = d.pc /\ q.closed = d.closed /\ q.kill = d.kill
      /\ q.held = d.held /\ q.code = d.code /\ q.looks = d.looks
      /\ q.sure = d.sure /\ q.task = d.task
  BY <1>4, <1>6, CloseStreamIs
<1>8. r.closed
  BY <1>1, <1>2 DEF Consistent
<1>9. Set(c, q)
  <2>1. Cleanup(q) = q
    BY <1>5, <1>7, <1>8 DEF Cleanup
  <2> QED BY <1>1, <1>3, <1>6, <2>1
<1>10. Consistent(q, c \in streams')
  BY <1>1, <1>2, <1>5, <1>7, <1>8 DEF Consistent
<1>11. Honest(q, box') /\ UsersKill(q, ended') /\ (Tells(q) => Tells(r))
  BY <1>2, <1>5, <1>7 DEF Honest, UsersKill, Tells
<1>12. Good(c, q)
  BY <1>1, <1>5, <1>7, <1>10, <1>11 DEF Good, Sound
<1> QED BY <1>9, <1>12, OneIsGood

\* What cleanup finds when the websocket of a connection is gone: the rest of
\* its closure as it was, with what the browser sent last.
LEMMA GoneIsEnding ==
  ASSUME IInv, NEW c \in Conns, NEW q \in ConnType, conn[c].pc # "asked",
         ~q.open, q.link => conn[c].link,
         q.kill => conn[c].kill \/ conn[c].pane \in ended,
         \/ q.up = conn[c].up
         \/ conn[c].up # <<>> /\ q.up = Tail(conn[c].up),
         q.pane = conn[c].pane, q.down = conn[c].down, q.pc = conn[c].pc,
         q.closed = conn[c].closed, q.held = conn[c].held,
         q.stream = conn[c].stream, q.exec = conn[c].exec, q.code = conn[c].code,
         q.looks = conn[c].looks, q.sure = conn[c].sure, q.task = conn[c].task
  PROVE  Ending(c, q)
<1>1. PICK r : r = conn[c]
  OBVIOUS
<1>2. r \in ConnType /\ Consistent(r, c \in streams) /\ Honest(r, box) /\ UsersKill(r, ended)
  BY <1>1, ConnIs
<1>3. Honest(q, box) /\ (Tells(q) => Tells(r))
  BY <1>1, <1>2 DEF Honest, Tells
<1>4. UsersKill(q, ended)
  <2>1. ASSUME NEW i \in DOMAIN q.up, q.up[i] \in {"kill", "4001"}
        PROVE  \E j \in DOMAIN r.up : r.up[j] \in {"kill", "4001"}
    <3>1. CASE q.up = r.up
      BY <2>1, <3>1
    <3>2. CASE r.up # <<>> /\ q.up = Tail(r.up)
      <4>1. r.up \in Seq({"kill", "4001", "1001"})
        BY <1>2 DEF ConnType
      <4>2. i + 1 \in DOMAIN r.up /\ q.up[i] = r.up[i + 1]
        BY <2>1, <3>2, <4>1
      <4> QED BY <2>1, <4>2
    <3> QED BY <1>1, <3>1, <3>2
  <2> QED BY <1>1, <1>2, <2>1 DEF UsersKill
<1>5. /\ r.link \/ r.pc # "done" => r.pane \in Panes
      /\ r.pc \in {"opening", "probing", "starting"} => r.stream = "none"
      /\ r.stream = "none" => ~r.held /\ r.exec = "none"
      /\ r.stream = "ended" => r.exec # "live"
      /\ r.pc = "resizing" => ~r.held /\ r.stream # "none"
      /\ r.pc = "live" => r.held /\ ~r.closed
      /\ r.pc \in {"inspecting", "checking", "waiting", "done"} => r.stream # "open"
      /\ c \in streams => r.held
  BY <1>1, <1>2 DEF Consistent
<1> QED BY <1>1, <1>3, <1>4, <1>5 DEF Ending

\* Cleaning up behind a websocket that is gone.
LEMMA GoneIsGood ==
  ASSUME IInv, NEW c \in Conns, NEW q \in ConnType, conn[c].pc # "asked",
         ~q.open, q.link => conn[c].link,
         q.kill => conn[c].kill \/ conn[c].pane \in ended,
         \/ q.up = conn[c].up
         \/ conn[c].up # <<>> /\ q.up = Tail(conn[c].up),
         q.pane = conn[c].pane, q.down = conn[c].down, q.pc = conn[c].pc,
         q.closed = conn[c].closed, q.held = conn[c].held,
         q.stream = conn[c].stream, q.exec = conn[c].exec, q.code = conn[c].code,
         q.looks = conn[c].looks, q.sure = conn[c].sure, q.task = conn[c].task,
         End(c, q), box' = box, ended' = ended
  PROVE  ConnsGood
BY GoneIsEnding, EndIsGood

\* The browser is told of an exit: its exec did not die with the container, or
\* the engine did not say.
LEMMA ExitIsGood ==
  ASSUME IInv, NEW c \in Conns, NEW sure \in BOOLEAN,
         conn[c].pc = "checking", ~Gone(conn[c]), conn[c].exec = "stop" => ~sure,
         End(c, Close(Send([conn[c] EXCEPT !.pc = "done", !.sure = sure],
                           Frame("exit", conn[c].code)), "1000")),
         box' = box, ended' = ended
  PROVE  ConnsGood
<1>1. PICK r : r = conn[c]
  OBVIOUS
<1>2. r \in ConnType /\ Consistent(r, c \in streams) /\ Honest(r, box) /\ UsersKill(r, ended)
  BY <1>1, ConnIs
<1>3. PICK h : h = [r EXCEPT !.pc = "done", !.sure = sure]
  OBVIOUS
<1>4. PICK f : f = Frame("exit", r.code)
  OBVIOUS
<1>5. PICK s : s = [h EXCEPT !.down = Append(r.down, f)]
  OBVIOUS
<1>6. PICK t : t = [s EXCEPT !.open = FALSE]
  OBVIOUS
<1>7. h \in ConnType
  <2>1. PICK g : g = [r EXCEPT !.pc = "done"]
    OBVIOUS
  <2>2. g \in ConnType
    BY <1>2, <2>1, Retyped
  <2>3. [g EXCEPT !.sure = sure] \in ConnType
    BY <2>2, Retyped
  <2>4. h = [g EXCEPT !.sure = sure]
    BY <1>2, <1>3, <2>1 DEF ConnType
  <2> QED BY <2>3, <2>4
<1>8. s \in ConnType
  <2>1. f \in Frames
    BY <1>2, <1>4 DEF Frame, Frames, ConnType
  <2>2. Append(r.down, f) \in
          Seq(Frames)
    BY <1>2, <2>1 DEF ConnType
  <2> QED BY <1>5, <1>7, <2>2, Retyped
<1>9. t \in ConnType
  BY <1>6, <1>8, Retyped
<1>10. /\ t.pane = r.pane /\ t.link = r.link /\ t.up = r.up
       /\ t.open = FALSE /\ t.pc = "done" /\ t.closed = r.closed /\ t.kill = r.kill
       /\ t.held = r.held /\ t.stream = r.stream /\ t.exec = r.exec
       /\ t.code = r.code /\ t.looks = r.looks /\ t.sure = sure /\ t.task = r.task
  <2>1. /\ h.pane = r.pane /\ h.link = r.link /\ h.up = r.up
        /\ h.pc = "done" /\ h.closed = r.closed /\ h.kill = r.kill
        /\ h.held = r.held /\ h.stream = r.stream /\ h.exec = r.exec
        /\ h.code = r.code /\ h.looks = r.looks /\ h.sure = sure /\ h.task = r.task
    BY <1>2, <1>3 DEF ConnType
  <2>2. /\ s.pane = h.pane /\ s.link = h.link /\ s.up = h.up
        /\ s.pc = h.pc /\ s.closed = h.closed /\ s.kill = h.kill
        /\ s.held = h.held /\ s.stream = h.stream /\ s.exec = h.exec
        /\ s.code = h.code /\ s.looks = h.looks /\ s.sure = h.sure /\ s.task = h.task
    BY <1>5, <1>7 DEF ConnType
  <2>3. /\ t.pane = s.pane /\ t.link = s.link /\ t.up = s.up /\ t.open = FALSE
        /\ t.pc = s.pc /\ t.closed = s.closed /\ t.kill = s.kill
        /\ t.held = s.held /\ t.stream = s.stream /\ t.exec = s.exec
        /\ t.code = s.code /\ t.looks = s.looks /\ t.sure = s.sure /\ t.task = s.task
    BY <1>6, <1>8 DEF ConnType
  <2> QED BY <2>1, <2>2, <2>3
<1>11. Ending(c, t)
  <2>1. Honest(t, box) /\ UsersKill(t, ended)
    BY <1>2, <1>10 DEF Honest, UsersKill
  <2>2. /\ r.pane \in Panes /\ r.stream # "open" /\ (r.stream = "none" => ~r.held /\ r.exec = "none")
        /\ (r.stream = "ended" => r.exec # "live") /\ (c \in streams => r.held)
    BY <1>1, <1>2 DEF Consistent
  <2> QED BY <1>1, <1>9, <1>10, <2>1, <2>2 DEF Ending
<1>12. Send(h, f) = s
  <2>1. h.open /\ h.down = r.down
    BY <1>1, <1>2, <1>3 DEF Gone, ConnType
  <2> QED BY <1>5, <1>7, <2>1 DEF Send, ConnType
<1>13. Ending(c, Close(s, "1000"))
  BY <1>6, <1>8, <1>11, CloseIsEnding DEF Codes
<1>14. End(c, Close(s, "1000"))
  BY <1>1, <1>3, <1>4, <1>12
<1> QED BY <1>13, <1>14, EndIsGood

\* The stream breaks, or the browser does not drain it.
LEMMA BreaksIsGood ==
  ASSUME IInv, NEW c \in Conns, conn[c].held, ~conn[c].closed,
         End(c, Fail(conn[c], "4502")), box' = box, ended' = ended
  PROVE  ConnsGood
<1>1. PICK r : r = conn[c]
  OBVIOUS
<1>2. r \in ConnType /\ Consistent(r, c \in streams)
  BY <1>1, ConnIs
<1>3. PICK t : t = [r EXCEPT !.open = FALSE]
  OBVIOUS
<1>4. t \in ConnType
  BY <1>2, <1>3, Retyped
<1>5. /\ t.pane = r.pane /\ t.link = r.link /\ t.up = r.up /\ t.down = r.down
      /\ t.open = FALSE /\ t.pc = r.pc /\ t.closed = r.closed /\ t.kill = r.kill
      /\ t.held = r.held /\ t.stream = r.stream /\ t.exec = r.exec
      /\ t.code = r.code /\ t.looks = r.looks /\ t.sure = r.sure /\ t.task = r.task
  BY <1>2, <1>3 DEF ConnType
<1>6. r.pc # "asked"
  BY <1>1, <1>2 DEF Consistent
<1>7. Ending(c, t)
  BY <1>1, <1>4, <1>5, <1>6, GoneIsEnding
<1>8. Ending(c, Close(r, "4502"))
  BY <1>2, <1>3, <1>7, CloseIsEnding DEF Codes
<1> QED BY <1>1, <1>8, EndIsGood DEF Fail

\* The heartbeat finds no pong, or the socket breaks.
LEMMA HeartbeatIsGood ==
  ASSUME IInv, NEW c \in Conns, conn[c].open,
         End(c, [conn[c] EXCEPT !.open = FALSE]), box' = box, ended' = ended
  PROVE  ConnsGood
<1>1. PICK r : r = conn[c]
  OBVIOUS
<1>2. r \in ConnType /\ Consistent(r, c \in streams)
  BY <1>1, ConnIs
<1>3. PICK t : t = [r EXCEPT !.open = FALSE]
  OBVIOUS
<1>4. t \in ConnType
  BY <1>2, <1>3, Retyped
<1>5. /\ t.pane = r.pane /\ t.link = r.link /\ t.up = r.up /\ t.down = r.down
      /\ t.open = FALSE /\ t.pc = r.pc /\ t.closed = r.closed /\ t.kill = r.kill
      /\ t.held = r.held /\ t.stream = r.stream /\ t.exec = r.exec
      /\ t.code = r.code /\ t.looks = r.looks /\ t.sure = r.sure /\ t.task = r.task
  BY <1>2, <1>3 DEF ConnType
<1>6. r.pc # "asked"
  BY <1>1, <1>2 DEF Consistent
<1> QED BY <1>1, <1>3, <1>4, <1>5, <1>6, GoneIsGood

\* The first frame that is on its way to the server, and what is behind it.
LEMMA UpIs ==
  ASSUME IInv, NEW c \in Conns, conn[c].up # <<>>
  PROVE  /\ Tail(conn[c].up) \in Seq({"kill", "4001", "1001"})
         /\ Head(conn[c].up) \in {"kill", "4001", "1001"}
         /\ Head(conn[c].up) \in {"kill", "4001"} => conn[c].pane \in ended
         /\ \A i \in DOMAIN Tail(conn[c].up) : \E j \in DOMAIN conn[c].up :
              Tail(conn[c].up)[i] = conn[c].up[j]
<1>1. PICK u : u = conn[c].up
  OBVIOUS
<1>2. u \in Seq({"kill", "4001", "1001"}) /\ u # <<>> /\ UsersKill(conn[c], ended)
  BY <1>1, ConnIs DEF ConnType
<1>3. Tail(u) \in Seq({"kill", "4001", "1001"}) /\ Head(u) = u[1] /\ 1 \in DOMAIN u
  BY <1>2
<1>4. ASSUME NEW i \in DOMAIN Tail(u) PROVE i + 1 \in DOMAIN u /\ Tail(u)[i] = u[i + 1]
  BY <1>2
<1>5. Head(u) \in {"kill", "4001", "1001"}
  BY <1>2, <1>3
<1>6. Head(u) \in {"kill", "4001"} => conn[c].pane \in ended
  BY <1>1, <1>2, <1>3 DEF UsersKill
<1> QED BY <1>1, <1>3, <1>4, <1>5, <1>6

\* A frame of the browser.
LEMMA ReceiveIsGood ==
  ASSUME IInv, NEW c \in Conns, Receive(c), box' = box, ended' = ended
  PROVE  ConnsGood
<1>1. PICK r : r = conn[c]
  OBVIOUS
<1>2. r \in ConnType /\ Consistent(r, c \in streams) /\ UsersKill(r, ended)
  BY <1>1, ConnIs
<1>3. PICK u : u = Tail(r.up)
  OBVIOUS
<1>4. r.up # <<>> /\ r.link /\ r.pc # "asked"
  BY <1>1 DEF Receive
<1>5. /\ u \in Seq({"kill", "4001", "1001"})
      /\ Head(r.up) \in {"kill", "4001", "1001"}
      /\ Head(r.up) \in {"kill", "4001"} => r.pane \in ended
      /\ \A i \in DOMAIN u : \E j \in DOMAIN r.up : u[i] = r.up[j]
  BY <1>1, <1>3, <1>4, UpIs
<1>6. PICK rest : rest = [r EXCEPT !.up = u]
  OBVIOUS
<1>7. rest \in ConnType
  BY <1>2, <1>5, <1>6, Retyped
<1>8. /\ rest.pane = r.pane /\ rest.link = r.link /\ rest.up = u /\ rest.down = r.down
      /\ rest.open = r.open /\ rest.pc = r.pc /\ rest.closed = r.closed /\ rest.kill = r.kill
      /\ rest.held = r.held /\ rest.stream = r.stream /\ rest.exec = r.exec
      /\ rest.code = r.code /\ rest.looks = r.looks /\ rest.sure = r.sure /\ rest.task = r.task
  BY <1>2, <1>6 DEF ConnType
<1>9. CASE Head(r.up) = "kill"
  <2>1. CASE r.held
    <3>1. PICK k : k = [rest EXCEPT !.kill = TRUE]
      OBVIOUS
    <3>2. k \in ConnType
      BY <1>7, <3>1, Retyped
    <3>3. PICK t : t = [k EXCEPT !.open = FALSE]
      OBVIOUS
    <3>4. t \in ConnType
      BY <3>2, <3>3, Retyped
    <3>5. /\ t.pane = r.pane /\ t.link = r.link /\ t.up = u /\ t.down = r.down
          /\ t.open = FALSE /\ t.pc = r.pc /\ t.closed = r.closed /\ t.kill = TRUE
          /\ t.held = r.held /\ t.stream = r.stream /\ t.exec = r.exec
          /\ t.code = r.code /\ t.looks = r.looks /\ t.sure = r.sure /\ t.task = r.task
      <4>1. /\ k.pane = rest.pane /\ k.link = rest.link /\ k.up = rest.up /\ k.down = rest.down
            /\ k.pc = rest.pc /\ k.closed = rest.closed /\ k.kill = TRUE
            /\ k.held = rest.held /\ k.stream = rest.stream /\ k.exec = rest.exec
            /\ k.code = rest.code /\ k.looks = rest.looks /\ k.sure = rest.sure
            /\ k.task = rest.task
        BY <1>7, <3>1 DEF ConnType
      <4>2. /\ t.pane = k.pane /\ t.link = k.link /\ t.up = k.up /\ t.down = k.down
            /\ t.open = FALSE /\ t.pc = k.pc /\ t.closed = k.closed /\ t.kill = k.kill
            /\ t.held = k.held /\ t.stream = k.stream /\ t.exec = k.exec
            /\ t.code = k.code /\ t.looks = k.looks /\ t.sure = k.sure /\ t.task = k.task
        BY <3>2, <3>3 DEF ConnType
      <4> QED BY <1>8, <4>1, <4>2
    <3>6. Ending(c, t)
      BY <1>1, <1>3, <1>4, <1>5, <1>9, <3>4, <3>5, GoneIsEnding
    <3>7. Ending(c, Close(k, "1000"))
      BY <3>2, <3>3, <3>6, CloseIsEnding DEF Codes
    <3>8. End(c, Close(k, "1000"))
      BY <1>1, <1>3, <1>6, <1>9, <2>1, <3>1 DEF Receive
    <3> QED BY <3>7, <3>8, EndIsGood
  <2>2. CASE ~r.held
    <3>1. Set(c, [conn[c] EXCEPT !.up = u]) /\ UNCHANGED streams
      BY <1>1, <1>3, <1>6, <1>9, <2>2 DEF Receive
    <3>2. conn[c].pane \in Panes
      BY <1>1, <1>2, <1>4 DEF Consistent
    <3>3. \A i \in DOMAIN u : u[i] \in {"kill", "4001"} =>
            \E j \in DOMAIN conn[c].up : conn[c].up[j] \in {"kill", "4001"}
      BY <1>1, <1>5
    <3> QED BY <1>5, <3>1, <3>2, <3>3, UpIsGood
  <2> QED BY <2>1, <2>2
<1>10. CASE Head(r.up) = "4001"
  <2>1. PICK t : t = [rest EXCEPT !.link = FALSE, !.open = FALSE, !.kill = TRUE]
    OBVIOUS
  <2>2. t \in ConnType
    <3>1. PICK g : g = [rest EXCEPT !.link = FALSE]
      OBVIOUS
    <3>2. PICK k : k = [g EXCEPT !.open = FALSE]
      OBVIOUS
    <3>3. g \in ConnType
      BY <1>7, <3>1, Retyped
    <3>4. k \in ConnType
      BY <3>2, <3>3, Retyped
    <3>5. [k EXCEPT !.kill = TRUE] \in ConnType
      BY <3>4, Retyped
    <3>6. t = [k EXCEPT !.kill = TRUE]
      BY <1>7, <2>1, <3>1, <3>2 DEF ConnType
    <3> QED BY <3>5, <3>6
  <2>3. /\ t.pane = rest.pane /\ t.link = FALSE /\ t.up = rest.up /\ t.down = rest.down
        /\ t.open = FALSE /\ t.pc = rest.pc /\ t.closed = rest.closed /\ t.kill = TRUE
        /\ t.held = rest.held /\ t.stream = rest.stream /\ t.exec = rest.exec
        /\ t.code = rest.code /\ t.looks = rest.looks /\ t.sure = rest.sure
        /\ t.task = rest.task
    BY <1>7, <2>1 DEF ConnType
  <2>4. End(c, t)
    BY <1>1, <1>3, <1>6, <1>10, <2>1 DEF Receive
  <2> QED BY <1>1, <1>3, <1>4, <1>5, <1>8, <1>10, <2>2, <2>3, <2>4, GoneIsGood
<1>11. CASE Head(r.up) = "1001"
  <2>1. PICK t : t = [rest EXCEPT !.link = FALSE, !.open = FALSE]
    OBVIOUS
  <2>2. t \in ConnType
    <3>1. PICK g : g = [rest EXCEPT !.link = FALSE]
      OBVIOUS
    <3>2. g \in ConnType
      BY <1>7, <3>1, Retyped
    <3>3. [g EXCEPT !.open = FALSE] \in ConnType
      BY <3>2, Retyped
    <3>4. t = [g EXCEPT !.open = FALSE]
      BY <1>7, <2>1, <3>1 DEF ConnType
    <3> QED BY <3>3, <3>4
  <2>3. /\ t.pane = rest.pane /\ t.link = FALSE /\ t.up = rest.up /\ t.down = rest.down
        /\ t.open = FALSE /\ t.pc = rest.pc /\ t.closed = rest.closed /\ t.kill = rest.kill
        /\ t.held = rest.held /\ t.stream = rest.stream /\ t.exec = rest.exec
        /\ t.code = rest.code /\ t.looks = rest.looks /\ t.sure = rest.sure
        /\ t.task = rest.task
    BY <1>7, <2>1 DEF ConnType
  <2>4. End(c, t)
    BY <1>1, <1>3, <1>6, <1>11, <2>1 DEF Receive
  <2> QED BY <1>1, <1>3, <1>4, <1>8, <2>2, <2>3, <2>4, GoneIsGood
<1> QED BY <1>5, <1>9, <1>10, <1>11

-----------------------------------------------------------------------------
(* Steps of the container and of the server, which concern all connections. *)

\* A connection that a step leaves alone, while the container may change.
LEMMA KeptIsGood ==
  ASSUME IInv, NEW d \in Conns, Honest(conn[d], box'), ended' = ended,
         d \in streams' <=> d \in streams
  PROVE  Good(d, conn[d])
<1>1. /\ conn[d] \in ConnType /\ Consistent(conn[d], d \in streams)
      /\ UsersKill(conn[d], ended)
  BY ConnIs
<1>2. Consistent(conn[d], d \in streams')
  BY <1>1 DEF Consistent
<1> QED BY <1>1, <1>2 DEF Good, Sound

\* Of an exec that runs or has died with its container, another end.
LEMMA EndsIsGood ==
  ASSUME IInv, NEW d \in Conns, NEW why \in {"exit", "stop", "restart"}, NEW q,
         q = [conn[d] EXCEPT !.exec = why],
         \/ conn[d].exec = "live"
         \/ conn[d].exec = "stop" /\ why = "restart",
         why = "stop" => box' # "running",
         streams' = streams, ended' = ended
  PROVE  Good(d, q)
<1>1. PICK r : r = conn[d]
  OBVIOUS
<1>2. r \in ConnType /\ Consistent(r, d \in streams) /\ Honest(r, box) /\ UsersKill(r, ended)
  BY <1>1, ConnIs
<1>3. /\ q.pane = r.pane /\ q.link = r.link /\ q.up = r.up /\ q.down = r.down
      /\ q.open = r.open /\ q.pc = r.pc /\ q.closed = r.closed /\ q.kill = r.kill
      /\ q.held = r.held /\ q.stream = r.stream /\ q.exec = why
      /\ q.code = r.code /\ q.looks = r.looks /\ q.sure = r.sure /\ q.task = r.task
  BY <1>1, <1>2 DEF ConnType
<1>4. q \in ConnType
  BY <1>1, <1>2, Retyped
<1>5. Consistent(q, d \in streams')
  BY <1>1, <1>2, <1>3 DEF Consistent
<1>6. Honest(q, box')
  <2>1. why = "stop" => r.pc \notin {"checking", "waiting"}
    BY <1>1, <1>2 DEF Consistent, ConnType
  <2> QED BY <1>2, <1>3, <2>1 DEF Honest
<1>7. UsersKill(q, ended') /\ (Tells(q) => Tells(r))
  BY <1>2, <1>3 DEF UsersKill, Tells
<1> QED BY <1>1, <1>3, <1>4, <1>5, <1>6, <1>7 DEF Good, Sound

\* The ends of several execs at once.
LEMMA EndExecsIsGood ==
  ASSUME IInv, NEW cs \in SUBSET Conns, NEW why \in {"exit", "stop", "restart"},
         conn' = EndExecs(cs, why), streams' = streams, ended' = ended,
         \A c \in cs : conn[c].exec = "live" \/ (conn[c].exec = "stop" /\ why = "restart"),
         why = "stop" => box' # "running",
         \A c \in Conns \ cs : Honest(conn[c], box')
  PROVE  ConnsGood
<1>1. ASSUME NEW d \in Conns PROVE conn'[d] \in ConnType /\ Good(d, conn'[d])
  <2>1. CASE d \in cs
    <3>1. conn'[d] = [conn[d] EXCEPT !.exec = why]
      BY <2>1 DEF EndExecs
    <3>2. Good(d, [conn[d] EXCEPT !.exec = why])
      BY <2>1, EndsIsGood
    <3> QED BY <3>1, <3>2 DEF Good, Sound
  <2>2. CASE d \notin cs
    <3>1. conn'[d] = conn[d]
      BY <2>2 DEF EndExecs
    <3>2. Good(d, conn[d])
      BY <2>2, KeptIsGood
    <3> QED BY <3>1, <3>2 DEF Good, Sound
  <2> QED BY <2>1, <2>2
<1>2. conn' = [c \in Conns |-> IF c \in cs THEN [conn[c] EXCEPT !.exec = why] ELSE conn[c]]
  BY DEF EndExecs
<1>3. conn' \in [Conns -> ConnType]
  BY <1>1, <1>2
<1> QED BY <1>1, <1>3 DEF ConnsGood

\* The kill of a shell ends the execs that show it, and is over.
LEMMA KillRunsIsGood ==
  ASSUME IInv, NEW c \in Conns, NEW cs \in SUBSET Conns,
         \A d \in cs : conn[d].exec = "live",
         conn' = [EndExecs(cs, "exit") EXCEPT ![c] = Swept([@ EXCEPT !.task = "none"])],
         streams' = streams, box' = box, ended' = ended
  PROVE  ConnsGood
<1>1. PICK f : f = EndExecs(cs, "exit")
  OBVIOUS
<1>2. ASSUME NEW d \in Conns PROVE Good(d, f[d])
  <2>1. CASE d \in cs
    <3>1. f[d] = [conn[d] EXCEPT !.exec = "exit"]
      BY <1>1, <2>1 DEF EndExecs
    <3> QED BY <2>1, <3>1, EndsIsGood
  <2>2. CASE d \notin cs
    <3>1. f[d] = conn[d]
      BY <1>1, <2>2 DEF EndExecs
    <3> QED BY <3>1, ConnIs, KeptIsGood
  <2> QED BY <2>1, <2>2
<1>3. f \in [Conns -> ConnType]
  <2>1. f = [d \in Conns |-> IF d \in cs THEN [conn[d] EXCEPT !.exec = "exit"] ELSE conn[d]]
    BY <1>1 DEF EndExecs
  <2>2. \A d \in Conns : f[d] \in ConnType
    BY <1>2 DEF Good, Sound
  <2> QED BY <2>1, <2>2
<1>4. PICK r : r = f[c]
  OBVIOUS
<1>5. r \in ConnType /\ Good(c, r)
  BY <1>2, <1>4 DEF Good, Sound
<1>6. PICK q : q = [r EXCEPT !.task = "none"]
  OBVIOUS
<1>7. q \in ConnType
  BY <1>5, <1>6, Retyped
<1>8. /\ q.pane = r.pane /\ q.link = r.link /\ q.up = r.up /\ q.down = r.down
      /\ q.open = r.open /\ q.pc = r.pc /\ q.closed = r.closed /\ q.kill = r.kill
      /\ q.held = r.held /\ q.stream = r.stream /\ q.exec = r.exec
      /\ q.code = r.code /\ q.looks = r.looks /\ q.sure = r.sure /\ q.task = "none"
  BY <1>5, <1>6 DEF ConnType
<1>9. Good(c, q)
  <2>1. Consistent(q, c \in streams')
    BY <1>5, <1>8 DEF Good, Sound, Consistent
  <2>2. Honest(q, box') /\ UsersKill(q, ended') /\ (Tells(q) => Tells(r))
    BY <1>5, <1>8 DEF Good, Sound, Honest, UsersKill, Tells
  <2> QED BY <1>5, <1>7, <1>8, <2>1, <2>2 DEF Good, Sound
<1>10. Good(c, Swept(q))
  BY <1>9, SweptIsGood
<1>11. conn' = [f EXCEPT ![c] = Swept(q)]
  BY <1>1, <1>3, <1>4, <1>6
<1>12. Swept(q) \in ConnType
  BY <1>10 DEF Good, Sound
<1>13. conn' \in [Conns -> ConnType] /\ conn'[c] = Swept(q)
       /\ \A d \in Conns \ {c} : conn'[d] = f[d]
  BY <1>3, <1>11, <1>12
<1>14. ASSUME NEW d \in Conns PROVE Good(d, conn'[d])
  <2>1. CASE d = c
    BY <1>10, <1>13, <2>1
  <2>2. CASE d # c
    <3>1. conn'[d] = f[d]
      BY <1>13, <2>2
    <3> QED BY <1>2, <3>1
  <2> QED BY <2>1, <2>2
<1> QED BY <1>13, <1>14 DEF ConnsGood

\* What is left of a connection when its server is no more.
LEMMA OrphanedIsGood ==
  ASSUME IInv, NEW c \in Conns, NEW g \in BOOLEAN,
         box' = box, ended' = ended, streams' = {}
  PROVE  Good(c, Orphaned(conn[c], g))
<1>1. PICK r : r = conn[c]
  OBVIOUS
<1>2. r \in ConnType /\ Consistent(r, c \in streams) /\ Honest(r, box) /\ UsersKill(r, ended)
  BY <1>1, ConnIs
<1>3. PICK t : t = IF g THEN Close(r, "1000") ELSE [r EXCEPT !.link = FALSE]
  OBVIOUS
<1>4. /\ t \in ConnType
      /\ t.pane = r.pane /\ t.up = r.up /\ (t.link => r.link)
      /\ t.down = r.down \/ t.down = Append(r.down, Frame("close", "1000"))
      /\ t.kill = r.kill /\ t.held = r.held /\ t.stream = r.stream /\ t.exec = r.exec
  <2>1. CASE g
    BY <1>2, <1>3, <2>1, CloseIs DEF Codes
  <2>2. CASE ~g
    <3>1. t = [r EXCEPT !.link = FALSE]
      BY <1>3, <2>2
    <3>2. t \in ConnType
      BY <1>2, <3>1, Retyped
    <3>3. /\ t.pane = r.pane /\ t.up = r.up /\ t.link = FALSE /\ t.down = r.down
          /\ t.kill = r.kill /\ t.held = r.held /\ t.stream = r.stream /\ t.exec = r.exec
      BY <1>2, <3>1 DEF ConnType
    <3> QED BY <3>2, <3>3
  <2> QED BY <2>1, <2>2
<1>5. PICK s : s = CloseStream(t)
  OBVIOUS
<1>6. /\ s \in ConnType /\ s.stream # "open" /\ s.exec # "live"
      /\ s.stream = "none" <=> t.stream = "none"
      /\ t.exec # "live" => s.exec = t.exec
      /\ t.exec = "live" => s.exec = "hangup"
      /\ s.pane = t.pane /\ s.link = t.link /\ s.up = t.up /\ s.down = t.down
      /\ s.kill = t.kill /\ s.held = t.held
  BY <1>4, <1>5, CloseStreamIs
<1>7. PICK q : q = [s EXCEPT !.open = FALSE, !.closed = TRUE, !.pc = "done", !.task = "none"]
  OBVIOUS
<1>8. q \in ConnType
  <2>1. PICK s1 : s1 = [s EXCEPT !.open = FALSE]
    OBVIOUS
  <2>2. PICK s2 : s2 = [s1 EXCEPT !.closed = TRUE]
    OBVIOUS
  <2>3. PICK s3 : s3 = [s2 EXCEPT !.pc = "done"]
    OBVIOUS
  <2>4. s1 \in ConnType
    BY <1>6, <2>1, Retyped
  <2>5. s2 \in ConnType
    BY <2>2, <2>4, Retyped
  <2>6. s3 \in ConnType
    BY <2>3, <2>5, Retyped
  <2>7. [s3 EXCEPT !.task = "none"] \in ConnType
    BY <2>6, Retyped
  <2>8. q = [s3 EXCEPT !.task = "none"]
    BY <1>6, <1>7, <2>1, <2>2, <2>3 DEF ConnType
  <2> QED BY <2>7, <2>8
<1>9. /\ q.pane = s.pane /\ q.link = s.link /\ q.up = s.up /\ q.down = s.down
      /\ q.open = FALSE /\ q.pc = "done" /\ q.closed = TRUE /\ q.kill = s.kill
      /\ q.held = s.held /\ q.stream = s.stream /\ q.exec = s.exec /\ q.task = "none"
  BY <1>6, <1>7 DEF ConnType
<1>10. Orphaned(r, g) = q
  BY <1>3, <1>5, <1>7 DEF Orphaned
<1>11. Consistent(q, c \in streams')
  BY <1>2, <1>4, <1>6, <1>9 DEF Consistent
<1>12. Honest(q, box') /\ UsersKill(q, ended')
  BY <1>2, <1>4, <1>6, <1>9 DEF Honest, UsersKill
<1>13. Tells(q) => Tells(r)
  <2>1. CASE t.down = r.down
    BY <1>6, <1>9, <2>1 DEF Tells
  <2>2. CASE t.down = Append(r.down, Frame("close", "1000"))
    <3>1. Frame("close", "1000").type # "exit"
      BY DEF Frame
    <3>2. Tells(t) => Tells(r)
      BY <1>2, <2>2, <3>1, FrameTells
    <3> QED BY <1>6, <1>9, <3>2 DEF Tells
  <2> QED BY <1>4, <2>1, <2>2
<1> QED BY <1>1, <1>4, <1>6, <1>8, <1>9, <1>10, <1>11, <1>12, <1>13 DEF Good, Sound

\* A restart of the server.
LEMMA RestartIsGood ==
  ASSUME IInv, Restart, box' = box, ended' = ended
  PROVE  ConnsGood
<1>1. PICK graceful \in BOOLEAN :
        conn' = [c \in Conns |-> Swept(Orphaned(conn[c], graceful /\ conn[c].open))]
  BY DEF Restart
<1>2. ASSUME NEW d \in Conns PROVE conn'[d] \in ConnType /\ Good(d, conn'[d])
  <2>1. PICK g : g = (graceful /\ conn[d].open)
    OBVIOUS
  <2>2. g \in BOOLEAN
    BY <2>1
  <2>3. Good(d, Orphaned(conn[d], g))
    BY <2>2, OrphanedIsGood DEF Restart
  <2>4. Good(d, Swept(Orphaned(conn[d], g)))
    BY <2>3, SweptIsGood
  <2>5. conn'[d] = Swept(Orphaned(conn[d], g))
    BY <1>1, <2>1
  <2> QED BY <2>4, <2>5 DEF Good, Sound
<1>3. conn' \in [Conns -> ConnType]
  BY <1>1, <1>2
<1> QED BY <1>2, <1>3 DEF ConnsGood

-----------------------------------------------------------------------------
(* The server's steps, one by one.                                         *)

World ==
  /\ box \in {"running", "dying", "stopped", "absent"}
  /\ hasTmux \in BOOLEAN /\ shells \subseteq Panes /\ probe \in BOOLEAN \cup {None}
  /\ streams \subseteq Conns
  /\ trouble \in 0 .. MaxTrouble /\ visits \in 0 .. MaxVisits

\* Trouble is counted within its bound.
LEMMA TroubleIsBounded ==
  ASSUME World, Trouble \/ Untroubled
  PROVE  trouble' \in 0 .. MaxTrouble
BY BridgeAssumption DEF World, Trouble, Untroubled

\* What is not a connection keeps its type when a handler goes on.
LEMMA HandlerWorld ==
  ASSUME World, UNCHANGED <<box, hasTmux, visits>>, Trouble \/ Untroubled,
         shells' \subseteq Panes, probe' \in BOOLEAN \cup {None}, streams' \subseteq Conns
  PROVE  World'
BY TroubleIsBounded DEF World

\* Opening a session.
LEMMA OpeningKeeps ==
  ASSUME IInv, World, NEW c \in Conns, Opening(c), UNCHANGED <<ended, visits>>
  PROVE  World' /\ ConnsGood
<1>1. CASE Accept(c)
  <2>1. World'
    BY <1>1, HandlerWorld DEF Accept, World, worldVars
  <2> QED BY <1>1, <2>1, AcceptIsGood DEF Accept, worldVars
<1>2. CASE NeverArrives(c)
  <2>1. World'
    BY <1>2, HandlerWorld DEF NeverArrives, World, worldVars
  <2> QED BY <1>2, <2>1, NeverArrivesIsGood DEF NeverArrives, worldVars
<1>3. CASE FindContainer(c)
  <2>1. World'
    BY <1>3, HandlerWorld DEF FindContainer, Refuse, End, World, worldVars
  <2>2. RefusalOf(Seen) \in Codes /\ "4502" \in Codes
    BY DEF RefusalOf, Codes
  <2>3. UNCHANGED <<box, ended>> /\ conn[c].pc = "opening"
    BY <1>3 DEF FindContainer, worldVars
  <2>4. CASE Set(c, [conn[c] EXCEPT !.pc = "probing"]) /\ UNCHANGED streams
    BY <2>1, <2>3, <2>4, FindsIsGood
  <2>5. CASE \E code \in Codes : Refuse(c, code)
    BY <2>1, <2>3, <2>5, RefuseIsGood
  <2> QED BY <1>3, <2>2, <2>4, <2>5 DEF FindContainer
<1>4. CASE Probe(c)
  <2>1. PICK t \in BOOLEAN :
          /\ Trouble \/ Untroubled
          /\ probe' = t
          /\ Set(c, [conn[c] EXCEPT !.pc = "starting", !.tmux = t])
    BY <1>4 DEF Probe
  <2>2. World'
    BY <1>4, <2>1, HandlerWorld DEF Probe, World, worldVars
  <2> QED BY <1>4, <2>1, <2>2, ProbeIsGood DEF Probe, worldVars
<1>5. CASE StartExec(c)
  <2>1. UNCHANGED <<box, ended>> /\ conn[c].pc = "starting" /\ conn[c].pane \in Panes
    BY <1>5, ConnIs DEF StartExec, Consistent
  <2>2. World'
    BY <1>5, <2>1, HandlerWorld DEF StartExec, Refuse, End, World
  <2>3. CASE Set(c, [conn[c] EXCEPT !.pc = "resizing", !.stream = "open", !.exec = "live"])
             /\ UNCHANGED streams
    BY <2>1, <2>2, <2>3, StartIsGood
  <2>4. CASE Refuse(c, "4502")
    BY <2>1, <2>2, <2>4, RefuseIsGood DEF Codes
  <2> QED BY <1>5, <2>3, <2>4 DEF StartExec
<1>6. CASE Attach(c)
  <2>1. World'
    BY <1>6, HandlerWorld DEF Attach, World, worldVars
  <2> QED BY <1>6, <2>1, AttachIsGood, DetachIsGood DEF Attach, worldVars
<1> QED BY <1>1, <1>2, <1>3, <1>4, <1>5, <1>6 DEF Opening

\* The end of a stream, and what becomes of its session.
LEMMA ClosingKeeps ==
  ASSUME IInv, World, NEW c \in Conns, Closing(c), UNCHANGED <<ended, visits>>
  PROVE  World' /\ ConnsGood
<1>0. /\ conn[c] \in ConnType /\ Consistent(conn[c], c \in streams) /\ Honest(conn[c], box)
  BY ConnIs
<1>1. CASE StreamEnds(c)
  <2>1. World'
    BY <1>1, HandlerWorld DEF StreamEnds, World, worldVars
  <2>2. PICK p : p = IF conn[c].held /\ ~conn[c].closed THEN "inspecting" ELSE conn[c].pc
    OBVIOUS
  <2>3. p \in {"asked", "opening", "probing", "starting", "resizing", "live",
               "inspecting", "checking", "waiting", "done"}
    BY <1>0, <2>2 DEF ConnType
  <2>4. Set(c, [conn[c] EXCEPT !.stream = "ended", !.pc = p])
    BY <1>0, <1>1, <2>2 DEF StreamEnds, ConnType
  <2> QED BY <1>1, <2>1, <2>2, <2>3, <2>4, StreamEndIsGood DEF StreamEnds, worldVars
<1>2. CASE Inspect(c)
  <2>1. PICK code \in {"0", "137", "null"} :
          /\ \/ code = (IF conn[c].exec \in {"crash", "stop", "restart"} THEN "137" ELSE "0")
                /\ Untroubled
             \/ code = "null" /\ Trouble
          /\ IF Gone(conn[c]) THEN GiveUp(c)
             ELSE /\ Set(c, [conn[c] EXCEPT !.pc = "checking", !.code = code,
                                            !.looks = LookLimit])
                  /\ UNCHANGED streams
    BY <1>2 DEF Inspect
  <2>2. UNCHANGED <<worldVars, probe>> /\ conn[c].pc = "inspecting"
    BY <1>2 DEF Inspect
  <2>3. streams' = streams
    BY <2>1 DEF GiveUp
  <2>4. World'
    BY <2>1, <2>2, <2>3, HandlerWorld DEF World, worldVars
  <2>5. CASE Gone(conn[c])
    BY <2>1, <2>2, <2>4, <2>5, GiveUpIsGood DEF GiveUp, worldVars
  <2>6. CASE ~Gone(conn[c])
    <3>1. LookLimit \in 0 .. LookLimit
      BY BridgeAssumption
    <3>2. conn[c].exec = "stop" => code \in {"137", "null"}
      BY <2>1
    <3> QED BY <2>1, <2>2, <2>4, <2>6, <3>1, <3>2, InspectIsGood DEF worldVars
  <2> QED BY <2>5, <2>6
<1>3. CASE Check(c)
  <2>1. PICK seen \in {"running", "stopped", "absent"}, sure \in BOOLEAN :
          /\ \/ seen = Seen /\ sure /\ Untroubled
             \/ seen = "running" /\ ~sure /\ Trouble
          /\ IF Gone(conn[c]) THEN GiveUp(c)
             ELSE IF seen # "running"
             THEN End(c, Fail([conn[c] EXCEPT !.pc = "done"], RefusalOf(seen)))
             ELSE IF MayLookAgain(conn[c])
             THEN Set(c, [conn[c] EXCEPT !.pc = "waiting", !.sure = sure]) /\ UNCHANGED streams
             ELSE End(c, Close(Send([conn[c] EXCEPT !.pc = "done", !.sure = sure],
                                    Frame("exit", conn[c].code)), "1000"))
    BY <1>3 DEF Check
  <2>2. UNCHANGED <<worldVars, probe>> /\ conn[c].pc = "checking"
    BY <1>3 DEF Check
  <2>3. streams' \subseteq streams
    BY <2>1 DEF GiveUp, End
  <2>4. World'
    BY <2>1, <2>2, <2>3, HandlerWorld DEF World, worldVars
  <2>5. CASE Gone(conn[c])
    BY <2>1, <2>2, <2>4, <2>5, GiveUpIsGood DEF GiveUp, worldVars
  <2>6. CASE ~Gone(conn[c]) /\ seen # "running"
    <3>1. RefusalOf(seen) \in Codes
      BY DEF RefusalOf, Codes
    <3>2. Refuse(c, RefusalOf(seen))
      BY <2>1, <2>6 DEF Refuse
    <3> QED BY <2>2, <2>4, <3>1, <3>2, RefuseIsGood DEF worldVars
  <2>7. CASE ~Gone(conn[c]) /\ seen = "running" /\ MayLookAgain(conn[c])
    BY <2>1, <2>2, <2>4, <2>7, WaitIsGood DEF MayLookAgain, worldVars
  <2>8. CASE ~Gone(conn[c]) /\ seen = "running" /\ ~MayLookAgain(conn[c])
    <3>1. ASSUME conn[c].exec = "stop" PROVE ~sure
      <4>1. conn[c].looks = 0
        BY <1>0, <2>2, <2>8, <3>1 DEF Honest, MayLookAgain, LooksLikeContainerStop, ConnType
      <4>2. box \notin {"running", "dying"}
        BY <1>0, <2>2, <3>1, <4>1 DEF Honest
      <4> QED BY <2>1, <2>8, <4>2 DEF Seen
    <3>2. End(c, Close(Send([conn[c] EXCEPT !.pc = "done", !.sure = sure],
                            Frame("exit", conn[c].code)), "1000"))
      BY <2>1, <2>8
    <3> QED BY <2>2, <2>4, <2>8, <3>1, <3>2, ExitIsGood DEF worldVars
  <2> QED BY <2>5, <2>6, <2>7, <2>8
<1>4. CASE LookAgain(c)
  <2>1. UNCHANGED <<worldVars, probe, streams>> /\ conn[c].pc = "waiting"
    BY <1>4 DEF LookAgain, GiveUp
  <2>2. World'
    BY <1>4, <2>1, HandlerWorld DEF LookAgain, World, worldVars
  <2>3. CASE Gone(conn[c])
    BY <1>4, <2>1, <2>2, <2>3, GiveUpIsGood DEF LookAgain, GiveUp, worldVars
  <2>4. CASE ~Gone(conn[c])
    <3>1. PICK n : n = conn[c].looks - 1
      OBVIOUS
    <3>2. conn[c].looks \in 0 .. LookLimit /\ conn[c].looks > 0
      BY <1>0, <2>1 DEF Honest, ConnType
    <3>3. n \in 0 .. LookLimit
      BY <3>1, <3>2, BridgeAssumption
    <3>4. Set(c, [conn[c] EXCEPT !.pc = "checking", !.looks = n])
      BY <1>0, <1>4, <2>4, <3>1 DEF LookAgain, ConnType
    <3>5. conn[c].looks = 1 => box \notin {"running", "dying"} \/ conn[c].exec # "stop"
      BY <1>0, <1>4, <2>4 DEF LookAgain, Honest
    <3> QED BY <2>1, <2>2, <3>1, <3>3, <3>4, <3>5, LookIsGood DEF worldVars
  <2> QED BY <2>3, <2>4
<1> QED BY <1>1, <1>2, <1>3, <1>4 DEF Closing

\* The frames of the browser, the heartbeat and a stream that breaks.
LEMMA ListeningKeeps ==
  ASSUME IInv, World, NEW c \in Conns, Listening(c) \/ Breaks(c), UNCHANGED <<ended, visits>>
  PROVE  World' /\ ConnsGood
<1>1. CASE Receive(c)
  <2>1. streams' \subseteq streams
    BY <1>1, UpIs DEF Receive, End
  <2>2. World'
    BY <1>1, <2>1, HandlerWorld DEF Receive, World, worldVars
  <2> QED BY <1>1, <2>2, ReceiveIsGood DEF Receive, worldVars
<1>2. CASE HeartbeatTimeout(c)
  <2>1. World'
    BY <1>2, HandlerWorld DEF HeartbeatTimeout, End, World, worldVars
  <2> QED BY <1>2, <2>1, HeartbeatIsGood DEF HeartbeatTimeout, worldVars
<1>3. CASE Breaks(c)
  <2>1. World'
    BY <1>3, HandlerWorld DEF Breaks, End, World, worldVars
  <2> QED BY <1>3, <2>1, BreaksIsGood DEF Breaks, worldVars
<1> QED BY <1>1, <1>2, <1>3 DEF Listening

\* killTmuxSession.
LEMMA KillingKeeps ==
  ASSUME IInv, World, NEW c \in Conns, Killing(c), UNCHANGED <<ended, visits>>
  PROVE  World' /\ ConnsGood
<1>1. CASE KillFinds(c)
  <2>1. World'
    BY <1>1, HandlerWorld DEF KillFinds, World, worldVars
  <2>2. PICK t \in {"none", "found"} : Set(c, [conn[c] EXCEPT !.task = t])
    <3>1. CASE Set(c, [conn[c] EXCEPT !.task = IF Seen = "running" THEN "found" ELSE "none"])
      <4>1. PICK t : t = IF Seen = "running" THEN "found" ELSE "none"
        OBVIOUS
      <4>2. t \in {"none", "found"} /\ Set(c, [conn[c] EXCEPT !.task = t])
        BY <3>1, <4>1
      <4> QED BY <4>2
    <3>2. CASE Set(c, [conn[c] EXCEPT !.task = "none"])
      BY <3>2
    <3> QED BY <1>1, <3>1, <3>2 DEF KillFinds
  <2> QED BY <1>1, <2>1, <2>2, KillStepIsGood DEF KillFinds, worldVars
<1>2. CASE KillRuns(c)
  <2>1. World'
    BY <1>2, HandlerWorld DEF KillRuns, World
  <2>2. CASE conn' = [EndExecs(Execs(conn[c].pane), "exit") EXCEPT
                        ![c] = Swept([@ EXCEPT !.task = "none"])]
    <3>1. PICK cs : cs = Execs(conn[c].pane)
      OBVIOUS
    <3>2. cs \in SUBSET Conns /\ \A d \in cs : conn[d].exec = "live"
      BY <3>1 DEF Execs
    <3> QED BY <1>2, <2>1, <2>2, <3>1, <3>2, KillRunsIsGood DEF KillRuns
  <2>3. CASE Set(c, [conn[c] EXCEPT !.task = "none"])
    BY <1>2, <2>1, <2>3, KillStepIsGood DEF KillRuns
  <2> QED BY <1>2, <2>2, <2>3 DEF KillRuns
<1> QED BY <1>1, <1>2 DEF Killing

\* What happens to a connection and to a shell.
LEMMA FateKeeps ==
  ASSUME IInv, World, UNCHANGED <<ended, visits>>,
         \/ \E c \in Conns : ExecExits(c) \/ LoseLink(c)
         \/ \E p \in Panes : ShellExits(p)
  PROVE  World' /\ ConnsGood
<1>1. ASSUME NEW c \in Conns, ExecExits(c) PROVE World' /\ ConnsGood
  <2>1. World'
    BY <1>1, HandlerWorld DEF ExecExits, World, worldVars
  <2> QED BY <1>1, <2>1, ExecEndsIsGood DEF ExecExits, worldVars
<1>2. ASSUME NEW c \in Conns, LoseLink(c) PROVE World' /\ ConnsGood
  <2>1. World'
    BY <1>2, HandlerWorld DEF LoseLink, World, worldVars
  <2> QED BY <1>2, <2>1, LoseIsGood DEF LoseLink, worldVars
<1>3. ASSUME NEW p \in Panes, ShellExits(p) PROVE World' /\ ConnsGood
  <2>1. World'
    BY <1>3, HandlerWorld DEF ShellExits, World
  <2>2. PICK cs : cs = Execs(p)
    OBVIOUS
  <2>3. cs \in SUBSET Conns /\ \A d \in cs : conn[d].exec = "live"
    BY <2>2 DEF Execs
  <2>4. \A d \in Conns : Honest(conn[d], box')
    BY <1>3, ConnIs DEF ShellExits
  <2> QED BY <1>3, <2>1, <2>2, <2>3, <2>4, EndExecsIsGood DEF ShellExits
<1> QED BY <1>1, <1>2, <1>3

\* The container stops, goes and comes back, and the server restarts.
LEMMA BoxKeeps ==
  ASSUME IInv, World, StopBox \/ StopLands \/ RemoveBox \/ StartBox \/ Restart,
         UNCHANGED <<ended, visits>>
  PROVE  World' /\ ConnsGood
<1>0. trouble' \in 0 .. MaxTrouble
  BY TroubleIsBounded DEF StopBox, StopLands, RemoveBox, StartBox, Restart
<1>1. PICK live : live = {c \in Conns : conn[c].exec = "live"}
  OBVIOUS
<1>2. live \in SUBSET Conns
  BY <1>1
<1>3. CASE StopBox
  <2>1. World'
    BY <1>0, <1>3 DEF StopBox, World
  <2>2. \A c \in Conns \ live : Honest(conn[c], box')
    BY <1>1, <1>3, ConnIs DEF StopBox, Honest
  <2> QED BY <1>1, <1>2, <1>3, <2>1, <2>2, EndExecsIsGood DEF StopBox, AllDie
<1>4. CASE RemoveBox
  <2>1. World'
    BY <1>0, <1>4 DEF RemoveBox, World
  <2>2. \A c \in Conns \ live : Honest(conn[c], box')
    BY <1>4, ConnIs DEF RemoveBox, Honest
  <2> QED BY <1>1, <1>2, <1>4, <2>1, <2>2, EndExecsIsGood DEF RemoveBox, AllDie
<1>5. CASE StartBox
  <2>1. World'
    BY <1>0, <1>5 DEF StartBox, World
  <2>2. PICK cs : cs = {c \in Conns : conn[c].exec = "stop"}
    OBVIOUS
  <2>3. \A c \in Conns \ cs : Honest(conn[c], box')
    BY <1>5, <2>2, ConnIs DEF Honest
  <2>4. cs \in SUBSET Conns /\ \A c \in cs : conn[c].exec = "stop"
    BY <2>2
  <2> QED BY <1>5, <2>1, <2>2, <2>3, <2>4, EndExecsIsGood DEF StartBox, Restarted
<1>6. CASE StopLands
  <2>1. World'
    BY <1>0, <1>6 DEF StopLands, World
  <2>2. \A c \in Conns : Good(c, conn[c])
    <3>1. ASSUME NEW c \in Conns PROVE Honest(conn[c], box')
      BY <1>6, ConnIs DEF StopLands, Honest
    <3> QED BY <1>6, <3>1, KeptIsGood DEF StopLands
  <2> QED BY <1>6, <2>1, <2>2, ConnIs DEF StopLands, ConnsGood, IInv, TypeOK
<1>7. CASE Restart
  <2>1. World'
    BY <1>0, <1>7 DEF Restart, World, worldVars
  <2> QED BY <1>7, <2>1, RestartIsGood DEF Restart, worldVars
<1> QED BY <1>3, <1>4, <1>5, <1>6, <1>7

\* Whatever the server does, or what happens to it.
LEMMA BridgeKeeps ==
  ASSUME IInv, World, BridgeNext, UNCHANGED <<ended, visits>>
  PROVE  World' /\ ConnsGood
BY OpeningKeeps, ClosingKeeps, ListeningKeeps, KillingKeeps, FateKeeps, BoxKeeps
   DEF BridgeNext, Serve

-----------------------------------------------------------------------------
(* The panes of the browser.                                               *)

\* panes have their type, and none shows the connection of another
PanesGood ==
  /\ pane' \in [Panes -> PaneType]
  /\ \A p \in Panes : pane'[p].ws # None => conn'[pane'[p].ws].pane \in {p, None}

\* What holds of a pane before a step.
LEMMA PaneIs ==
  ASSUME IInv, NEW p \in Panes
  PROVE  /\ pane[p] \in PaneType /\ pane \in [Panes -> PaneType]
         /\ pane[p].ws # None => pane[p].ws \in Conns /\ conn[pane[p].ws].pane \in {p, None}
BY DEF IInv, TypeOK, PaneType

\* A field of its type leaves a pane one.
LEMMA PaneRetyped ==
  ASSUME NEW r \in PaneType
  PROVE  /\ \A x \in {"connecting", "open", "closed", "reconnecting", "fatal"} :
              [r EXCEPT !.status = x] \in PaneType
         /\ \A x \in Conns \cup {None} : [r EXCEPT !.ws = x] \in PaneType
         /\ \A x \in BOOLEAN : [r EXCEPT !.up = x] \in PaneType
         /\ \A x \in BOOLEAN : [r EXCEPT !.dial = x] \in PaneType
         /\ \A x \in BOOLEAN : [r EXCEPT !.awaitEnter = x] \in PaneType
         /\ \A x \in BOOLEAN : [r EXCEPT !.signal = x] \in PaneType
         /\ \A x \in {"none", "retry", "start", "retryStart"} : [r EXCEPT !.note = x] \in PaneType
         /\ \A x \in BOOLEAN : [r EXCEPT !.starting = x] \in PaneType
         /\ \A x \in SUBSET {"exit", "signal", "auth"} : [r EXCEPT !.asks = x] \in PaneType
<1>1. \A x \in {"connecting", "open", "closed", "reconnecting", "fatal"} :
        [r EXCEPT !.status = x] \in PaneType
  BY DEF PaneType
<1>2. \A x \in Conns \cup {None} : [r EXCEPT !.ws = x] \in PaneType
  BY DEF PaneType
<1>3. \A x \in BOOLEAN : /\ [r EXCEPT !.up = x] \in PaneType
                         /\ [r EXCEPT !.dial = x] \in PaneType
                         /\ [r EXCEPT !.awaitEnter = x] \in PaneType
                         /\ [r EXCEPT !.signal = x] \in PaneType
                         /\ [r EXCEPT !.starting = x] \in PaneType
  BY DEF PaneType
<1>4. \A x \in {"none", "retry", "start", "retryStart"} : [r EXCEPT !.note = x] \in PaneType
  BY DEF PaneType
<1>5. \A x \in SUBSET {"exit", "signal", "auth"} : [r EXCEPT !.asks = x] \in PaneType
  BY DEF PaneType
<1> QED BY <1>1, <1>2, <1>3, <1>4, <1>5

\* _scheduleReconnect and _showNotRunningNote leave a pane its socket.
LEMMA ScheduleIs ==
  ASSUME NEW r \in PaneType, NEW note \in {"none", "retry", "start", "retryStart"}
  PROVE  /\ Schedule(r, note) \in PaneType /\ Schedule(r, note).ws = r.ws
         /\ ShowNotRunning(r) \in PaneType /\ ShowNotRunning(r).ws = r.ws
<1>1. [r EXCEPT !.status = "reconnecting", !.dial = TRUE, !.note = note] \in PaneType
  <2>1. PICK s : s = [r EXCEPT !.status = "reconnecting"]
    OBVIOUS
  <2>2. PICK t : t = [s EXCEPT !.dial = TRUE]
    OBVIOUS
  <2>3. s \in PaneType
    BY <2>1, PaneRetyped
  <2>4. t \in PaneType
    BY <2>2, <2>3, PaneRetyped
  <2>5. [t EXCEPT !.note = note] \in PaneType
    BY <2>4, PaneRetyped
  <2>6. [r EXCEPT !.status = "reconnecting", !.dial = TRUE, !.note = note] = [t EXCEPT !.note = note]
    BY <2>1, <2>2 DEF PaneType
  <2> QED BY <2>5, <2>6
<1>2. [r EXCEPT !.status = "reconnecting", !.dial = TRUE, !.note = note].ws = r.ws
  BY DEF PaneType
<1>3. Schedule(r, note) \in PaneType /\ Schedule(r, note).ws = r.ws
  BY <1>1, <1>2 DEF Schedule
<1>4. PICK s : s = [r EXCEPT !.signal = FALSE]
  OBVIOUS
<1>5. s \in PaneType /\ s.ws = r.ws
  BY <1>4 DEF PaneType
<1>6. [s EXCEPT !.note = "start"] \in PaneType /\ [s EXCEPT !.note = "start"].ws = r.ws
  BY <1>5 DEF PaneType
<1>7. ShowNotRunning(r) = [s EXCEPT !.note = "start"]
  BY <1>4 DEF ShowNotRunning, PaneType
<1> QED BY <1>3, <1>6, <1>7

\* A pane that is closed waits for Enter, and asks.
LEMMA ClosedIs ==
  ASSUME NEW r \in PaneType, NEW q \in {"exit", "signal"}, NEW t,
         t = [r EXCEPT !.status = "closed", !.awaitEnter = TRUE, !.asks = @ \cup {q}]
  PROVE  t \in PaneType /\ t.ws = r.ws
<1>1. PICK a : a = [r EXCEPT !.status = "closed"]
  OBVIOUS
<1>2. PICK b : b = [a EXCEPT !.awaitEnter = TRUE]
  OBVIOUS
<1>3. PICK x : x = r.asks \cup {q}
  OBVIOUS
<1>4. x \in SUBSET {"exit", "signal", "auth"}
  BY <1>3 DEF PaneType
<1>5. a \in PaneType
  BY <1>1, PaneRetyped
<1>6. b \in PaneType
  BY <1>2, <1>5, PaneRetyped
<1>7. [b EXCEPT !.asks = x] \in PaneType
  BY <1>4, <1>6, PaneRetyped
<1>8. t = [b EXCEPT !.asks = x]
  BY <1>1, <1>2, <1>3 DEF PaneType
<1>9. t.ws = r.ws
  BY DEF PaneType
<1> QED BY <1>7, <1>8, <1>9

\* _onClose leaves a pane without the socket that was closed.
LEMMA OnCloseIs ==
  ASSUME NEW r \in PaneType, NEW code \in Codes \cup {"1006"}
  PROVE  OnClose(r, code) \in PaneType /\ OnClose(r, code).ws = r.ws
<1>1. CASE code = "1000" /\ r.signal
  <2>1. PICK s : s = ShowNotRunning(r)
    OBVIOUS
  <2>2. s \in PaneType /\ s.ws = r.ws
    BY <2>1, ScheduleIs
  <2>3. OnClose(r, code) = [s EXCEPT !.status = "closed", !.awaitEnter = TRUE,
                                     !.asks = @ \cup {"signal"}]
    BY <1>1, <2>1 DEF OnClose
  <2> QED BY <2>2, <2>3, ClosedIs
<1>2. CASE code = "1000" /\ ~r.signal
  <2>1. PICK s : s = [r EXCEPT !.note = "none"]
    OBVIOUS
  <2>2. s \in PaneType /\ s.ws = r.ws
    BY <2>1 DEF PaneType
  <2>3. OnClose(r, code) = [r EXCEPT !.status = "closed", !.awaitEnter = TRUE, !.note = "none",
                                     !.asks = @ \cup {"exit"}]
    BY <1>2 DEF OnClose
  <2>4. OnClose(r, code) = [s EXCEPT !.status = "closed", !.awaitEnter = TRUE,
                                     !.asks = @ \cup {"exit"}]
    BY <2>1, <2>3 DEF PaneType
  <2> QED BY <2>2, <2>4, ClosedIs
<1>3. CASE code = "4404"
  BY <1>3 DEF OnClose, PaneType
<1>4. CASE code = "4409"
  <2>1. PICK s : s = [r EXCEPT !.signal = FALSE]
    OBVIOUS
  <2>2. s \in PaneType /\ s.ws = r.ws
    BY <2>1 DEF PaneType
  <2>3. OnClose(r, code) = Schedule(s, "retryStart")
    BY <1>4, <2>1 DEF OnClose
  <2> QED BY <2>2, <2>3, ScheduleIs
<1>5. CASE code \in {"4502", "1006"}
  <2>1. OnClose(r, code) = IF r.up THEN Schedule(r, "retry")
                                   ELSE [r EXCEPT !.asks = @ \cup {"auth"}]
    BY <1>5 DEF OnClose
  <2>2. [r EXCEPT !.asks = @ \cup {"auth"}] \in PaneType
        /\ [r EXCEPT !.asks = @ \cup {"auth"}].ws = r.ws
    BY DEF PaneType
  <2> QED BY <2>1, <2>2, ScheduleIs
<1> QED BY <1>1, <1>2, <1>3, <1>4, <1>5 DEF Codes

\* The answers of the API leave a pane its socket.
LEMMA HeedIs ==
  ASSUME NEW r \in PaneType, NEW q \in {"exit", "signal", "auth"}, NEW answer
  PROVE  Heed(r, q, answer) \in PaneType /\ Heed(r, q, answer).ws = r.ws
BY ScheduleIs DEF Heed

\* A pane that a step changes, and that keeps its socket or gives it up.
LEMMA SetPaneIsGood ==
  ASSUME IInv, NEW p \in Panes, NEW r \in PaneType, SetPane(p, r),
         r.ws = pane[p].ws \/ r.ws = None,
         \A d \in Conns : conn'[d].pane \in {conn[d].pane, None}
  PROVE  PanesGood
<1>1. pane \in [Panes -> PaneType] /\ pane' = [pane EXCEPT ![p] = r]
  BY PaneIs DEF SetPane
<1>2. pane' \in [Panes -> PaneType]
  BY <1>1
<1>3. ASSUME NEW q \in Panes, pane'[q].ws # None
      PROVE  conn'[pane'[q].ws].pane \in {q, None}
  <2>1. pane'[q].ws = pane[q].ws
    BY <1>1, <1>3
  <2> QED BY <1>3, <2>1, PaneIs
<1> QED BY <1>2, <1>3 DEF PanesGood

\* What is good is sound, and keeps to its pane.
LEMMA GoodIsSound ==
  ASSUME ConnsGood
  PROVE  ConnsSound /\ \A d \in Conns : conn'[d].pane \in {conn[d].pane, None}
BY DEF ConnsGood, ConnsSound, Good

\* No connection changes.
LEMMA StillIsGood ==
  ASSUME IInv, conn' = conn, streams' = streams, box' = box, ended \subseteq ended'
  PROVE  ConnsGood
<1>1. conn \in [Conns -> ConnType]
  BY DEF IInv, TypeOK
<1>2. \A d \in Conns : Good(d, conn[d])
  BY OthersAreGood
<1> QED BY <1>1, <1>2 DEF ConnsGood

\* connect: a free slot becomes the pane's.
LEMMA DialIsGood ==
  ASSUME IInv, NEW p \in Panes, NEW c \in Conns, NEW r \in PaneType, r.ws = pane[p].ws,
         NEW conns \in [Conns -> ConnType],
         \A d \in Conns : Good(d, conns[d]) /\ conns[d].pane = conn[d].pane,
         Dial(p, c, r, conns), streams' = streams, box' \in {box, "running"}
  PROVE  ConnsSound /\ PanesGood
<1>1. CASE r.gone \/ r.ws # None
  <2>1. SetPane(p, [r EXCEPT !.dial = FALSE]) /\ conn' = conns
    BY <1>1 DEF Dial
  <2>2. ConnsGood
    BY <2>1 DEF ConnsGood
  <2>3. [r EXCEPT !.dial = FALSE] \in PaneType /\ [r EXCEPT !.dial = FALSE].ws = r.ws
    BY DEF PaneType
  <2> QED BY <2>1, <2>2, <2>3, GoodIsSound, SetPaneIsGood
<1>2. CASE ~(r.gone \/ r.ws # None)
  <2>1. PICK s : s = [r EXCEPT !.ws = c, !.up = FALSE, !.dial = FALSE, !.status = "connecting",
                               !.awaitEnter = FALSE, !.signal = FALSE, !.note = "none"]
    OBVIOUS
  <2>2. s \in PaneType /\ s.ws = c
    BY <2>1 DEF PaneType
  <2>3. c \in Free /\ conn' = [conns EXCEPT ![c] = Dialed(p)] /\ SetPane(p, s)
    BY <1>2, <2>1 DEF Dial
  <2>4. conn[c] = NoConn /\ \A q \in Panes : pane[q].ws # c
    BY <2>3 DEF Free
  <2>5. PICK n : n = Dialed(p)
    OBVIOUS
  <2>6. n \in ConnType
    <3>1. PICK k : k = [NoConn EXCEPT !.pane = p]
      OBVIOUS
    <3>2. PICK l : l = [k EXCEPT !.link = TRUE]
      OBVIOUS
    <3>3. PICK a : a = [l EXCEPT !.pc = "asked"]
      OBVIOUS
    <3>4. k \in ConnType
      BY <3>1, NoConnIs, Retyped
    <3>5. l \in ConnType
      BY <3>2, <3>4, Retyped
    <3>6. a \in ConnType
      BY <3>3, <3>5, Retyped
    <3>7. [a EXCEPT !.closed = FALSE] \in ConnType
      BY <3>6, Retyped
    <3>8. n = [a EXCEPT !.closed = FALSE]
      BY <2>5, <3>1, <3>2, <3>3, NoConnIs DEF Dialed, ConnType
    <3> QED BY <3>7, <3>8
  <2>7. Sound(c, n)
    <3>1. c \notin streams'
      BY <2>4, ConnIs, NoConnIs DEF Consistent, NoConn
    <3>2. Consistent(n, FALSE)
      BY <2>5 DEF Consistent, Dialed, NoConn
    <3>3. Consistent(n, c \in streams')
      BY <3>1, <3>2 DEF Consistent
    <3>4. Honest(n, box') /\ UsersKill(n, ended') /\ ~Tells(n)
      BY <2>5 DEF Honest, UsersKill, Tells, Dialed, NoConn
    <3> QED BY <2>6, <3>3, <3>4 DEF Sound
  <2>8. conn'[c] = n /\ \A d \in Conns \ {c} : conn'[d] = conns[d]
    BY <2>3, <2>5
  <2>9. conn' \in [Conns -> ConnType]
    BY <2>3, <2>5, <2>6
  <2>10. ConnsSound
    BY <2>7, <2>8, <2>9 DEF ConnsSound, Good
  <2>11. pane \in [Panes -> PaneType] /\ pane' = [pane EXCEPT ![p] = s]
    BY <2>3, PaneIs DEF SetPane
  <2>12. ASSUME NEW q \in Panes, pane'[q].ws # None
         PROVE  conn'[pane'[q].ws].pane \in {q, None}
    <3>1. CASE q = p
      <4>1. n.pane = p
        BY <2>5 DEF Dialed, NoConn
      <4> QED BY <2>2, <2>8, <2>11, <3>1, <4>1
    <3>2. CASE q # p
      <4>1. pane'[q] = pane[q] /\ pane[q].ws # c /\ pane[q].ws \in Conns
        BY <2>4, <2>11, <2>12, <3>2, PaneIs
      <4>2. conn'[pane[q].ws].pane = conn[pane[q].ws].pane
        BY <2>8, <4>1
      <4> QED BY <2>12, <4>1, <4>2, PaneIs
    <3> QED BY <3>1, <3>2
  <2>13. pane' \in [Panes -> PaneType]
    BY <2>2, <2>11
  <2> QED BY <2>10, <2>12, <2>13 DEF PanesGood
<1> QED BY <1>1, <1>2

\* What dispose sends: the connection gets it, or is let go of.
LEMMA HangUpIsGood ==
  ASSUME IInv, NEW p \in Panes, NEW frames \in {<<"kill", "4001">>, <<"1001">>},
         conn' = HangUp(pane[p], frames), streams' = streams, box' = box,
         ended \subseteq ended', frames = <<"1001">> \/ p \in ended'
  PROVE  ConnsGood
<1>1. CASE pane[p].ws = None
  BY <1>1, StillIsGood DEF HangUp
<1>2. CASE pane[p].ws # None
  <2>1. PICK c : c = pane[p].ws
    OBVIOUS
  <2>2. c \in Conns /\ conn[c].pane \in {p, None} /\ conn \in [Conns -> ConnType]
    BY <1>2, <2>1, PaneIs, ConnIs
  <2>3. CASE ~pane[p].up
    <3>1. Set(c, [conn[c] EXCEPT !.link = FALSE])
      BY <1>2, <2>1, <2>2, <2>3 DEF HangUp, Set
    <3> QED BY <2>2, <3>1, LoseIsGood
  <2>4. CASE pane[p].up
    <3>1. Set(c, [conn[c] EXCEPT !.up = frames])
      BY <1>2, <2>1, <2>2, <2>4 DEF HangUp, Set
    <3>2. frames \in Seq({"kill", "4001", "1001"})
      <4>1. <<"kill", "4001">> \in Seq({"kill", "4001", "1001"})
        OBVIOUS
      <4>2. <<"1001">> \in Seq({"kill", "4001", "1001"})
        OBVIOUS
      <4> QED BY <4>1, <4>2
    <3>3. CASE conn[c].pane = p
      <4>1. \A i \in DOMAIN frames : frames[i] \in {"kill", "4001"} => conn[c].pane \in ended'
        BY <3>3
      <4> QED BY <2>2, <3>1, <3>2, <3>3, <4>1, UpIsGood
    <3>4. CASE conn[c].pane = None
      <4>1. PICK r : r = conn[c]
        OBVIOUS
      <4>2. r \in ConnType /\ Consistent(r, c \in streams) /\ UsersKill(r, ended)
            /\ ended \subseteq Panes
        BY <2>2, <4>1, ConnIs
      <4>3. None \notin Panes
        BY BridgeAssumption
      <4>4. Finished(r) /\ c \notin streams
        BY <3>4, <4>1, <4>2, <4>3 DEF Finished, Consistent, UsersKill
      <4>5. PICK q : q = [r EXCEPT !.up = frames]
        OBVIOUS
      <4>6. Finished(q) /\ Finished(NoConn)
        BY <4>2, <4>4, <4>5 DEF Finished, ConnType, NoConn
      <4>7. Set(c, NoConn)
        BY <3>1, <4>1, <4>5, <4>6 DEF Set, Swept
      <4>8. Good(c, NoConn)
        <5>1. Consistent(NoConn, c \in streams')
          BY <4>4, NoConnIs DEF Consistent
        <5> QED BY <5>1, NoConnIs DEF Good, Sound, Tells
      <4> QED BY <2>2, <4>7, <4>8, OneIsGood
    <3> QED BY <2>2, <3>3, <3>4
  <2> QED BY <2>3, <2>4
<1> QED BY <1>1, <1>2

\* The first frame that is on its way to the browser, and what is behind it.
LEMMA DownIs ==
  ASSUME IInv, NEW c \in Conns, conn[c].down # <<>>
  PROVE  /\ Tail(conn[c].down) \in Seq(Frames) /\ Head(conn[c].down) \in Frames
         /\ \A i \in DOMAIN Tail(conn[c].down) : \E j \in DOMAIN conn[c].down :
              Tail(conn[c].down)[i] = conn[c].down[j]
<1>1. PICK u : u = conn[c].down
  OBVIOUS
<1>2. u \in Seq(Frames) /\ u # <<>>
  BY <1>1, ConnIs DEF ConnType
<1>3. Tail(u) \in Seq(Frames) /\ Head(u) \in Frames
  BY <1>2
<1>4. ASSUME NEW i \in DOMAIN Tail(u) PROVE i + 1 \in DOMAIN u /\ Tail(u)[i] = u[i + 1]
  BY <1>2
<1> QED BY <1>1, <1>3, <1>4

\* onmessage and onclose.
LEMMA ReadKeeps ==
  ASSUME IInv, World, NEW p \in Panes, Read(p)
  PROVE  World' /\ ConnsSound /\ PanesGood
<1>1. PICK r : r = pane[p]
  OBVIOUS
<1>2. PICK c : c = r.ws
  OBVIOUS
<1>3. r \in PaneType /\ c \in Conns /\ conn[c] \in ConnType /\ conn[c].down # <<>>
  BY <1>1, <1>2, PaneIs, ConnIs DEF Read
<1>4. PICK f : f = Head(conn[c].down)
  OBVIOUS
<1>5. f \in Frames
  BY <1>3, <1>4, DownIs
<1>6. UNCHANGED <<streams, box, ended>>
  BY DEF Read, worldVars, history
<1>7. World'
  BY HandlerWorld DEF Read, World, worldVars, history
<1>8. CASE f.type \in {"ready", "exit"}
  <2>1. PICK s : s = IF f.type = "ready"
                     THEN [r EXCEPT !.status = "open", !.signal = FALSE, !.note = "none"]
                     ELSE [r EXCEPT !.signal = f.code = "137"]
    OBVIOUS
  <2>2. s \in PaneType /\ s.ws = r.ws
    <3>1. CASE f.type = "ready"
      <4>1. PICK a : a = [r EXCEPT !.status = "open"]
        OBVIOUS
      <4>2. PICK b : b = [a EXCEPT !.signal = FALSE]
        OBVIOUS
      <4>3. a \in PaneType
        BY <1>3, <4>1, PaneRetyped
      <4>4. b \in PaneType
        BY <4>2, <4>3, PaneRetyped
      <4>5. [b EXCEPT !.note = "none"] \in PaneType
        BY <4>4, PaneRetyped
      <4>6. s = [b EXCEPT !.note = "none"]
        BY <1>3, <2>1, <3>1, <4>1, <4>2 DEF PaneType
      <4>7. s.ws = r.ws
        BY <1>3, <2>1, <3>1 DEF PaneType
      <4> QED BY <4>5, <4>6, <4>7
    <3>2. CASE f.type # "ready"
      <4>1. PICK b \in BOOLEAN : b <=> f.code = "137"
        OBVIOUS
      <4>2. s = [r EXCEPT !.signal = b]
        BY <2>1, <3>2, <4>1, Zenon
      <4> QED BY <1>3, <4>2 DEF PaneType
    <3> QED BY <3>1, <3>2
  <2>3. SetPane(p, s)
    BY <1>1, <1>2, <1>4, <1>8, <2>1 DEF Read
  <2>4. Set(c, [conn[c] EXCEPT !.down = Tail(@)])
    BY <1>1, <1>2, <1>4, <1>8 DEF Read
  <2>5. PICK u : u = Tail(conn[c].down)
    OBVIOUS
  <2>6. Set(c, [conn[c] EXCEPT !.down = u])
    BY <1>3, <2>4, <2>5 DEF ConnType
  <2>7. u \in Seq(Frames)
        /\ \A i \in DOMAIN u : \E j \in DOMAIN conn[c].down : u[i] = conn[c].down[j]
    BY <1>3, <2>5, DownIs
  <2>8. ConnsGood
    BY <1>3, <1>6, <2>6, <2>7, DownIsGood
  <2> QED BY <1>1, <1>7, <2>2, <2>3, <2>8, GoodIsSound, SetPaneIsGood
<1>9. CASE f.type = "close"
  <2>1. PICK s : s = [r EXCEPT !.ws = None]
    OBVIOUS
  <2>2. s \in PaneType /\ s.ws = None
    BY <1>3, <2>1 DEF PaneType
  <2>3. f.code \in Codes
    BY <1>5, <1>9 DEF Frames
  <2>4. OnClose(s, f.code) \in PaneType /\ OnClose(s, f.code).ws = None
    BY <2>2, <2>3, OnCloseIs
  <2>5. SetPane(p, OnClose(s, f.code))
    BY <1>1, <1>2, <1>4, <1>9, <2>1 DEF Read
  <2>6. Set(c, [conn[c] EXCEPT !.down = <<>>, !.link = FALSE])
    BY <1>1, <1>2, <1>4, <1>9 DEF Read
  <2>7. <<>> \in Seq(Frames)
    OBVIOUS
  <2>8. ConnsGood
    BY <1>3, <1>6, <2>6, <2>7, HangsUpIsGood
  <2> QED BY <1>1, <1>7, <2>4, <2>5, <2>8, GoodIsSound, SetPaneIsGood
<1> QED BY <1>5, <1>8, <1>9 DEF Frames

\* onclose of a socket that broke.
LEMMA LostKeeps ==
  ASSUME IInv, World, NEW p \in Panes, Lost(p)
  PROVE  World' /\ ConnsSound /\ PanesGood
<1>1. PICK s : s = [pane[p] EXCEPT !.ws = None]
  OBVIOUS
<1>2. s \in PaneType /\ s.ws = None
  BY <1>1, PaneIs DEF PaneType
<1>3. OnClose(s, "1006") \in PaneType /\ OnClose(s, "1006").ws = None
  BY <1>2, OnCloseIs
<1>4. SetPane(p, OnClose(s, "1006")) /\ UNCHANGED <<bridgeVars, history>>
  BY <1>1 DEF Lost
<1>5. World' /\ ConnsGood
  BY <1>4, StillIsGood DEF World, bridgeVars, history
<1> QED BY <1>3, <1>4, <1>5, GoodIsSound, SetPaneIsGood

\* connect, by a timer or by the user.
LEMMA ConnectKeeps ==
  ASSUME IInv, World, NEW p \in Panes, NEW c \in Conns, Connect(p, c) \/ UserConnects(p, c)
  PROVE  World' /\ ConnsSound /\ PanesGood
<1>1. Dial(p, c, pane[p], conn) /\ UNCHANGED <<worldVars, probe, streams, history>> /\ Untroubled
  BY DEF Connect, UserConnects
<1>2. World'
  BY <1>1, HandlerWorld DEF World, worldVars, history
<1>3. \A d \in Conns : Good(d, conn[d])
  BY <1>1, OthersAreGood DEF worldVars, history
<1>4. pane[p] \in PaneType /\ conn \in [Conns -> ConnType]
  BY PaneIs, ConnIs
<1>5. box' = box /\ streams' = streams
  BY <1>1 DEF worldVars
<1> QED BY <1>1, <1>2, <1>3, <1>4, <1>5, DialIsGood

\* The API's answer to POST start.
LEMMA StartAnsweredKeeps ==
  ASSUME IInv, World, NEW p \in Panes, NEW c \in Conns, StartAnswered(p, c)
  PROVE  World' /\ ConnsSound /\ PanesGood
<1>1. PICK r : r = [pane[p] EXCEPT !.starting = FALSE]
  OBVIOUS
<1>2. r \in PaneType /\ r.ws = pane[p].ws /\ conn \in [Conns -> ConnType]
  BY <1>1, PaneIs, ConnIs DEF PaneType
<1>3. UNCHANGED <<hasTmux, shells, probe, streams, ended, visits>>
  BY DEF StartAnswered, history
<1>4. trouble' \in 0 .. MaxTrouble
  BY TroubleIsBounded DEF StartAnswered
<1>5. CASE /\ box \in {"running", "stopped"} /\ box' = "running"
           /\ Dial(p, c, r, IF box = "stopped" THEN Restarted ELSE conn)
  <2>1. World'
    BY <1>3, <1>4, <1>5 DEF World
  <2>2. CASE box = "stopped"
    <3>1. PICK f : f = Restarted
      OBVIOUS
    <3>2. f = [d \in Conns |-> IF d \in {e \in Conns : conn[e].exec = "stop"}
                               THEN [conn[d] EXCEPT !.exec = "restart"] ELSE conn[d]]
      BY <3>1 DEF Restarted, EndExecs
    <3>3. ASSUME NEW d \in Conns
          PROVE  Good(d, f[d]) /\ f[d].pane = conn[d].pane /\ f[d] \in ConnType
      <4>1. CASE conn[d].exec = "stop"
        <5>1. f[d] = [conn[d] EXCEPT !.exec = "restart"]
          BY <3>2, <4>1
        <5>2. Good(d, f[d])
          BY <1>3, <4>1, <5>1, EndsIsGood
        <5> QED BY <5>1, <5>2, ConnIs DEF Good, Sound, ConnType
      <4>2. CASE conn[d].exec # "stop"
        <5>1. f[d] = conn[d]
          BY <3>2, <4>2
        <5>2. Honest(conn[d], box')
          BY <4>2, ConnIs DEF Honest
        <5>3. Good(d, conn[d])
          BY <1>3, <5>2, KeptIsGood
        <5> QED BY <5>1, <5>3 DEF Good, Sound
      <4> QED BY <4>1, <4>2
    <3>4. f \in [Conns -> ConnType]
      BY <3>2, <3>3
    <3>5. Dial(p, c, r, f)
      BY <1>5, <2>2, <3>1
    <3> QED BY <1>2, <1>3, <1>5, <2>1, <3>3, <3>4, <3>5, DialIsGood
  <2>3. CASE box = "running"
    <3>1. \A d \in Conns : Good(d, conn[d])
      BY <1>3, <1>5, <2>3, OthersAreGood
    <3>2. Dial(p, c, r, conn)
      BY <1>5, <2>3
    <3> QED BY <1>2, <1>3, <1>5, <2>1, <3>1, <3>2, DialIsGood
  <2> QED BY <1>5, <2>2, <2>3
<1>6. CASE SetPane(p, Schedule(r, "retryStart")) /\ UNCHANGED <<box, conn>>
  <2>1. World' /\ ConnsGood
    BY <1>3, <1>4, <1>6, StillIsGood DEF World
  <2>2. Schedule(r, "retryStart") \in PaneType /\ Schedule(r, "retryStart").ws = pane[p].ws
    BY <1>2, ScheduleIs
  <2> QED BY <1>6, <2>1, <2>2, GoodIsSound, SetPaneIsGood
<1> QED BY <1>1, <1>5, <1>6 DEF StartAnswered

\* onopen, the answers to questions, and the button that starts the container.
LEMMA PaneKeeps ==
  ASSUME IInv, World, NEW p \in Panes, Opened(p) \/ Answered(p) \/ AskStart(p)
  PROVE  World' /\ ConnsSound /\ PanesGood
<1>0. pane[p] \in PaneType
  BY PaneIs
<1>1. World' /\ ConnsGood
  <2>1. /\ UNCHANGED <<worldVars, probe, streams, conn, history>>
        /\ Trouble \/ Untroubled
    BY DEF Opened, Answered, AskStart, bridgeVars, worldVars, Untroubled
  <2> QED BY <2>1, HandlerWorld, StillIsGood DEF World, worldVars, history
<1>2. CASE Opened(p)
  <2>1. [pane[p] EXCEPT !.up = TRUE] \in PaneType /\ [pane[p] EXCEPT !.up = TRUE].ws = pane[p].ws
    BY <1>0 DEF PaneType
  <2> QED BY <1>1, <1>2, <2>1, GoodIsSound, SetPaneIsGood DEF Opened
<1>3. CASE Answered(p)
  <2>1. PICK q \in pane[p].asks, answer \in {"running", "stopped", "unknown"} :
          SetPane(p, Heed([pane[p] EXCEPT !.asks = @ \ {q}], q, answer))
    BY <1>3 DEF Answered
  <2>2. PICK s : s = [pane[p] EXCEPT !.asks = @ \ {q}]
    OBVIOUS
  <2>3. s \in PaneType /\ s.ws = pane[p].ws /\ q \in {"exit", "signal", "auth"}
    <3>1. PICK x : x = pane[p].asks \ {q}
      OBVIOUS
    <3>2. x \in SUBSET {"exit", "signal", "auth"} /\ q \in {"exit", "signal", "auth"}
      BY <1>0, <3>1 DEF PaneType
    <3>3. s = [pane[p] EXCEPT !.asks = x]
      BY <1>0, <2>2, <3>1 DEF PaneType
    <3>4. s \in PaneType
      BY <1>0, <3>2, <3>3, PaneRetyped
    <3> QED BY <1>0, <3>2, <3>3, <3>4 DEF PaneType
  <2>4. PICK h : h = Heed(s, q, answer)
    OBVIOUS
  <2>5. h \in PaneType /\ h.ws = pane[p].ws
    BY <2>3, <2>4, HeedIs
  <2> QED BY <1>1, <2>1, <2>2, <2>4, <2>5, GoodIsSound, SetPaneIsGood
<1>4. CASE AskStart(p)
  <2>1. PICK a : a = [pane[p] EXCEPT !.starting = TRUE]
    OBVIOUS
  <2>2. PICK b : b = [a EXCEPT !.signal = FALSE]
    OBVIOUS
  <2>3. PICK s : s = [pane[p] EXCEPT !.starting = TRUE, !.signal = FALSE, !.note = "none"]
    OBVIOUS
  <2>4. a \in PaneType
    BY <1>0, <2>1, PaneRetyped
  <2>5. b \in PaneType
    BY <2>2, <2>4, PaneRetyped
  <2>6. [b EXCEPT !.note = "none"] \in PaneType
    BY <2>5, PaneRetyped
  <2>7. s = [b EXCEPT !.note = "none"] /\ s.ws = pane[p].ws
    BY <1>0, <2>1, <2>2, <2>3 DEF PaneType
  <2>8. SetPane(p, s)
    BY <1>4, <2>3 DEF AskStart
  <2> QED BY <1>1, <2>6, <2>7, <2>8, GoodIsSound, SetPaneIsGood
<1> QED BY <1>2, <1>3, <1>4

\* A pane that is built anew is one.
LEMMA NewPaneIs ==
  /\ NewPane \in PaneType /\ NewPane.ws = None
  /\ \A starting \in BOOLEAN : \A calm \in 0 .. MaxTrouble + 1 : \A r :
       r = [NewPane EXCEPT !.status = "closed", !.gone = TRUE, !.dial = FALSE,
                           !.starting = starting, !.calm = calm]
         => r \in PaneType /\ r.ws = None
<1>1. NewPane \in PaneType /\ NewPane.ws = None
  BY BridgeAssumption DEF NewPane, PaneType
<1>2. ASSUME NEW starting \in BOOLEAN, NEW calm \in 0 .. MaxTrouble + 1, NEW r,
             r = [NewPane EXCEPT !.status = "closed", !.gone = TRUE, !.dial = FALSE,
                                 !.starting = starting, !.calm = calm]
      PROVE  r \in PaneType /\ r.ws = None
  <2>1. r = [status |-> "closed", gone |-> TRUE, ws |-> None, up |-> FALSE, dial |-> FALSE,
             awaitEnter |-> FALSE, signal |-> FALSE, note |-> "none", starting |-> starting,
             asks |-> {}, calm |-> calm]
    BY <1>2 DEF NewPane
  <2> QED BY <2>1 DEF PaneType
<1> QED BY <1>1, <1>2

\* What the user does to a pane.
LEMMA UserKeeps ==
  ASSUME IInv, World, NEW p \in Panes, ClosePane(p) \/ Leave(p) \/ Reopen(p)
  PROVE  World' /\ ConnsSound /\ PanesGood
<1>0. pane[p] \in PaneType
  BY PaneIs
<1>1. CASE ClosePane(p)
  <2>1. UNCHANGED <<worldVars, probe, streams, visits, trouble>>
    BY <1>1 DEF ClosePane, Untroubled
  <2>2. World'
    BY <2>1, HandlerWorld DEF World, worldVars, Untroubled
  <2>3. ConnsGood
    <3>1. conn' = HangUp(pane[p], <<"kill", "4001">>) /\ ended' = ended \cup {p}
      BY <1>1 DEF ClosePane
    <3> QED BY <2>1, <3>1, HangUpIsGood DEF worldVars
  <2>4. PICK calm : calm = IF Calm(p) THEN trouble + 1 ELSE 0
    OBVIOUS
  <2>5. calm \in 0 .. MaxTrouble + 1 /\ pane[p].starting \in BOOLEAN
    BY <1>0, <2>4, BridgeAssumption DEF World, PaneType
  <2>6. PICK s : s = [NewPane EXCEPT !.status = "closed", !.gone = TRUE, !.dial = FALSE,
                                     !.starting = pane[p].starting, !.calm = calm]
    OBVIOUS
  <2>7. s \in PaneType /\ s.ws = None
    BY <2>5, <2>6, NewPaneIs
  <2>8. SetPane(p, s)
    BY <1>1, <2>4, <2>6 DEF ClosePane
  <2> QED BY <2>2, <2>3, <2>7, <2>8, GoodIsSound, SetPaneIsGood
<1>2. CASE Leave(p)
  <2>1. UNCHANGED <<worldVars, probe, streams, ended, trouble>> /\ NewVisit
    BY <1>2 DEF Leave, Untroubled
  <2>2. World'
    BY <2>1, PaneAssumption DEF World, worldVars, NewVisit
  <2>3. ConnsGood
    BY <1>2, <2>1, HangUpIsGood DEF Leave, worldVars
  <2>4. SetPane(p, NewPane)
    BY <1>2 DEF Leave
  <2> QED BY <2>2, <2>3, <2>4, NewPaneIs, GoodIsSound, SetPaneIsGood
<1>3. CASE Reopen(p)
  <2>1. UNCHANGED <<bridgeVars, ended>> /\ NewVisit /\ SetPane(p, NewPane)
    BY <1>3 DEF Reopen
  <2>2. World'
    BY <2>1, PaneAssumption DEF World, bridgeVars, NewVisit
  <2>3. ConnsGood
    BY <2>1, StillIsGood DEF bridgeVars
  <2> QED BY <2>1, <2>2, <2>3, NewPaneIs, GoodIsSound, SetPaneIsGood
<1> QED BY <1>1, <1>2, <1>3

-----------------------------------------------------------------------------
(* The invariant, and what it implies.                                     *)

\* Every step leaves connections sound and panes good.
LEMMA StepKeeps ==
  ASSUME IInv, Next
  PROVE  World' /\ ConnsSound /\ PanesGood /\ ended' \subseteq Panes
<1>1. World /\ ended \subseteq Panes
  BY DEF IInv, TypeOK, World
<1>2. CASE BridgeStep
  <2>1. World' /\ ConnsGood
    BY <1>1, <1>2, BridgeKeeps DEF BridgeStep, history
  <2>2. PanesGood
    <3>1. pane' = pane
      BY <1>2 DEF BridgeStep
    <3>2. \A d \in Conns : conn'[d].pane \in {conn[d].pane, None}
      BY <2>1, GoodIsSound
    <3>3. ASSUME NEW p \in Panes, pane[p].ws # None
          PROVE  conn'[pane[p].ws].pane \in {p, None}
      BY <3>2, <3>3, PaneIs
    <3>4. pane \in [Panes -> PaneType]
      BY DEF IInv, TypeOK
    <3> QED BY <3>1, <3>3, <3>4 DEF PanesGood
  <2> QED BY <1>1, <1>2, <2>1, <2>2, GoodIsSound DEF BridgeStep, history
<1>3. ASSUME NEW p \in Panes, Run(p) \/ UserNext(p)
      PROVE  World' /\ ConnsSound /\ PanesGood /\ ended' \subseteq Panes
  <2>1. ended' \subseteq Panes
    BY <1>1, <1>3 DEF Run, UserNext, Connect, StartAnswered, Opened, Read, Lost, Answered,
                      UserConnects, AskStart, ClosePane, Leave, Reopen, history
  <2>2. CASE Run(p)
    BY <1>1, <2>1, <2>2, ConnectKeeps, StartAnsweredKeeps, ReadKeeps, LostKeeps, PaneKeeps
       DEF Run
  <2>3. CASE UserNext(p)
    BY <1>1, <2>1, <2>3, ConnectKeeps, PaneKeeps, UserKeeps DEF UserNext
  <2> QED BY <1>3, <2>2, <2>3
<1> QED BY <1>2, <1>3 DEF Next

\* The invariant is inductive.
LEMMA StepInv == IInv /\ [Next]_vars => IInv'
<1> SUFFICES ASSUME IInv, [Next]_vars PROVE IInv'
  OBVIOUS
<1>1. CASE Next
  <2>1. World' /\ ConnsSound /\ PanesGood /\ ended' \subseteq Panes
    BY <1>1, StepKeeps
  <2>2. ASSUME NEW c \in Conns
        PROVE  /\ Consistent(conn'[c], c \in streams') /\ Honest(conn'[c], box')
               /\ UsersKill(conn'[c], ended')
               /\ ~conn'[c].closed => conn'[c].pane \in Panes
    <3>1. Sound(c, conn'[c])
      BY <2>1 DEF ConnsSound
    <3> QED BY <3>1 DEF Sound, Consistent
  <2>3. TypeOK'
    BY <2>1, <2>2 DEF TypeOK, World, ConnsSound, PanesGood
  <2> QED BY <2>1, <2>2, <2>3 DEF IInv, PanesGood
<1>2. CASE UNCHANGED vars
  BY <1>2 DEF vars, bridgeVars, IInv, TypeOK
<1> QED BY <1>1, <1>2

\* It holds at first.
LEMMA InitInv == Init => IInv
<1> SUFFICES ASSUME Init PROVE IInv
  OBVIOUS
<1>1. conn = [c \in Conns |-> NoConn] /\ streams = {} /\ ended = {}
  BY DEF Init, BridgeInit
<1>2. pane = [p \in Panes |-> NewPane]
  BY DEF Init
<1>3. ASSUME NEW c \in Conns
      PROVE  /\ Consistent(conn[c], c \in streams) /\ Honest(conn[c], box)
             /\ UsersKill(conn[c], ended)
  <2>1. conn[c] = NoConn /\ c \notin streams
    BY <1>1
  <2>2. Consistent(NoConn, c \in streams)
    BY <2>1, NoConnIs DEF Consistent
  <2> QED BY <2>1, <2>2, NoConnIs
<1>4. conn \in [Conns -> ConnType] /\ \A c \in Conns : conn[c].closed
  BY <1>1, NoConnIs DEF NoConn
<1>5. pane \in [Panes -> PaneType] /\ \A p \in Panes : pane[p].ws = None
  BY <1>2, NewPaneIs
<1>6. TypeOK
  BY <1>1, <1>4, <1>5, BridgeAssumption, PaneAssumption DEF Init, BridgeInit, TypeOK
<1> QED BY <1>3, <1>5, <1>6 DEF IInv

\* The inductive invariant holds in every state of every run.
LEMMA Invariance == Spec => []IInv
<1>1. Init => IInv
  BY InitInv
<1>2. IInv /\ [Next]_vars => IInv'
  BY StepInv
<1> QED BY <1>1, <1>2, PTL DEF Spec

\* What the handlers, the container and the panes of session.js keep in their
\* variables has its type, and a connection that is being handled has a pane.
THEOREM SessionsAreTyped == Spec => []TypeOK
<1>1. IInv => TypeOK
  BY DEF IInv
<1> QED BY <1>1, Invariance, PTL

\* A handler leaves nothing behind, wherever the browser, the network or the
\* server's restart cuts it short: its exec is not attached to anything, and
\* SessionService.streams does not list it.
THEOREM HandlersLeaveNothing == Spec => []NothingLeaks
<1>1. IInv => NothingLeaks
  <2> SUFFICES ASSUME IInv, NEW c \in Conns
               PROVE  /\ conn[c].pc = "done" => conn[c].stream # "open" /\ conn[c].exec # "live"
                      /\ c \in streams => conn[c].held /\ ~conn[c].closed
    BY DEF NothingLeaks
  <2> QED BY ConnIs DEF Consistent, ConnType
<1> QED BY <1>1, Invariance, PTL

\* killTmuxSession runs only for panes that the user has closed.
THEOREM ShellsEndByTheUser == Spec => []OnlyTheUserKills
<1>1. IInv => OnlyTheUserKills
  BY DEF IInv, UsersKill, OnlyTheUserKills
<1> QED BY <1>1, Invariance, PTL

\* onStreamClosed tells of no exit when the exec died with its container,
\* unless the engine did not answer the last question about it.
THEOREM ExitsAreHonest == Spec => ExitIsHonest
<1>1. IInv /\ [Next]_vars =>
        [\A c \in Conns : ~Told(c) /\ Told(c)' /\ conn[c].exec = "stop" => ~conn[c].sure']_vars
  <2> SUFFICES ASSUME IInv, Next, NEW c \in Conns,
                      ~Told(c), Told(c)', conn[c].exec = "stop"
               PROVE  ~conn'[c].sure
    BY DEF vars
  <2>1. Sound(c, conn'[c])
    BY StepKeeps DEF ConnsSound
  <2> QED BY <2>1 DEF Sound, Told, Tells
<1> QED BY <1>1, Invariance, PTL DEF Spec, ExitIsHonest
=============================================================================
