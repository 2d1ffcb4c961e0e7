------------------------------ MODULE Transport -------------------------------
(***************************************************************************)
(* server/src/backends/portainer.ts: the HTTP requests of one instance of  *)
(* PortainerBackend, over a keep-alive agent.                              *)
(*                                                                         *)
(* When the connection of a host is changed, close() detaches the agent;   *)
(* jobs that still hold the instance go on, and the agent is destroyed,    *)
(* with all its sockets, once nothing is in flight.  What is in flight is  *)
(* a counter: the events of each request have to add up.                   *)
(*                                                                         *)
(* Most calls are one request, be it a list or a build whose response is   *)
(* read for minutes; the wait for a container to stop, a start and an exec *)
(* are several.                                                            *)
(***************************************************************************)
EXTENDS Naturals, FiniteSets

CONSTANTS
  Users,        \* functions that hold the instance at a time, numbers
  Slots,        \* requests at a time, numbers
  MaxAttempts,  \* maxAttempts of waitContainer
  MaxAsked,     \* bound: calls
  MaxCuts       \* bound: connections that fail, are cut or time out, and refusals

ASSUME TransportAssumption ==
  /\ Users \subseteq Nat
  /\ Slots \subseteq Nat /\ IsFiniteSet(Slots)

VARIABLES
  agent,      \* the number of the agent that is in use, 0 for none
  made,       \* how many agents were made
  inflight, draining, destroyed,
  req,        \* what is in each slot
  user,       \* what each function is about
  exit,       \* the container it waits for: "running", or the code it exited with
  closed,     \* was close() called: once, by the HostManager
  asked, cuts

agentVars == <<agent, made, inflight, draining, destroyed>>
transportVars == <<agentVars, req, user, exit, closed, asked, cuts>>

NoReq  == [phase |-> "none", agent |-> 0, of |-> "nobody", released |-> FALSE]
NoUser == [op |-> "none", step |-> "none", attempt |-> 1, says |-> "nothing"]

TransportInit ==
  /\ agent = 0 /\ made = 0 /\ inflight = 0 /\ draining = {} /\ destroyed = {}
  /\ req = [r \in Slots |-> NoReq]
  /\ user = [u \in Users |-> NoUser]
  /\ exit = [u \in Users |-> "running"]
  /\ closed = FALSE /\ asked = 0 /\ cuts = 0

Free(r)     == req[r].phase = "none"
InUse(r)    == req[r].phase \in {"sent", "open"}
Waiting(u)  == \E r \in Slots : InUse(r) /\ req[r].of = u
Severed     == cuts < MaxCuts /\ cuts' = cuts + 1
AtCall(u, s) == user[u].step = s

\* the request of each step of a call, and what comes after it
FirstStep == [single |-> "only", stream |-> "stream", wait |-> "wait", start |-> "start",
              exec |-> "create"]
Steps == {"none", "only", "stream", "deaf", "wait", "look", "start", "restart",
          "create", "run", "inspect"}
Says(u, what) == user' = [user EXCEPT ![u] = [@ EXCEPT !.op = "none", !.says = what]]
Then(u, step) == user' = [user EXCEPT ![u].step = step]

-----------------------------------------------------------------------------
(* Requests. *)

Ask(u, op) ==
  /\ user[u].op = "none" /\ \A v \in Users : user[v].op = "none" => u <= v
  /\ asked < MaxAsked
  /\ asked' = asked + 1
  /\ user' = [user EXCEPT ![u] = [NoUser EXCEPT !.op = op, !.step = FirstStep[op]]]
  /\ exit' = IF op = "wait" THEN [exit EXCEPT ![u] = "running"] ELSE exit
  /\ UNCHANGED <<agentVars, req, closed, cuts>>

GetAgent == IF agent = 0 THEN made + 1 ELSE agent

Send(u, r) ==
  LET next == GetAgent IN
  /\ user[u].op # "none" /\ ~AtCall(u, "deaf") /\ ~Waiting(u)
  /\ Free(r) /\ \A q \in Slots : Free(q) => r <= q
  /\ agent' = next /\ made' = IF next > made THEN next ELSE made
  /\ inflight' = inflight + 1
  /\ req' = [req EXCEPT ![r] = [phase |-> "sent", agent |-> next, of |-> u, released |-> FALSE]]
  /\ UNCHANGED <<draining, destroyed, user, exit, closed, asked, cuts>>

\* mutant: the request is released by its 'error' and by its 'close'
ReleaseTwice(r) ==
  /\ inflight' = IF inflight = 0 THEN 0 ELSE inflight - 1
  /\ IF inflight > 1 THEN UNCHANGED <<draining, destroyed>>
     ELSE draining' = {} /\ destroyed' = destroyed \cup draining

\* endRequest, once per request: drops the parked agents when nothing is in flight
Release(r) ==
  IF req[r].released THEN UNCHANGED <<inflight, draining, destroyed>>
  ELSE /\ inflight' = IF inflight = 0 THEN 0 ELSE inflight - 1
       /\ IF inflight > 1 THEN UNCHANGED <<draining, destroyed>>
          ELSE draining' = {} /\ destroyed' = destroyed \cup draining

\* the response begins
Respond(r) ==
  /\ req[r].phase = "sent"
  /\ req' = [req EXCEPT ![r].phase = "open"]
  /\ UNCHANGED <<agentVars, user, exit, closed, asked, cuts>>

\* 'close', of the response or of a request that has none
Close(r) ==
  /\ req[r].phase \in {"ended", "failed"}
  /\ Release(r)
  /\ req' = [req EXCEPT ![r] = NoReq]
  /\ UNCHANGED <<agent, made, user, exit, closed, asked, cuts>>

-----------------------------------------------------------------------------
(* What a call makes of its requests. *)

\* re-issues the wait, unless it was the last time
WaitAgain(u) ==
  IF user[u].attempt = MaxAttempts THEN Says(u, "error")
  ELSE user' = [user EXCEPT ![u].step = "wait", ![u].attempt = @ + 1]

\* exitStatusIfStopped, when the engine answers
Looks(u) == IF exit[u] = "running" THEN WaitAgain(u) ELSE Says(u, exit[u])

WaitAnswers(u) ==
  \/ AtCall(u, "wait") /\ exit[u] # "running" /\ Says(u, exit[u])
  \/ AtCall(u, "look") /\ Looks(u)

\* Portainer's proxy may refuse a start, which is then a restart
StartAnswers(u) ==
  \/ AtCall(u, "start") /\ (Says(u, "done") \/ Then(u, "restart"))
  \/ AtCall(u, "restart") /\ Says(u, "done")

ExecAnswers(u) ==
  \/ AtCall(u, "create") /\ Then(u, "run")
  \/ AtCall(u, "run") /\ Then(u, "inspect")
  \/ AtCall(u, "inspect") /\ Says(u, "done")

\* builds, pulls and archives
StreamAnswers(u) == AtCall(u, "stream") /\ Says(u, "done")

\* request(), of all the others
SingleAnswers(u) == AtCall(u, "only") /\ Says(u, "done")

\* the whole response was read
Answers(u) ==
  WaitAnswers(u) \/ StartAnswers(u) \/ ExecAnswers(u) \/ StreamAnswers(u) \/ SingleAnswers(u)

\* the engine refuses: an error, but for a look, after which the wait goes on, and for
\* the exit code of an exec, which is 0 then
Refused(u) ==
  \/ AtCall(u, "look") /\ WaitAgain(u)
  \/ AtCall(u, "inspect") /\ Says(u, "done")
  \/ ~AtCall(u, "look") /\ ~AtCall(u, "inspect") /\ Says(u, "error")

\* the request fails, or times out, before there is a response
Unsent(u) ==
  \/ AtCall(u, "wait") /\ Then(u, "look")
  \/ ~AtCall(u, "wait") /\ Refused(u)

\* the connection is cut inside the response.  Where the proxy ends it cleanly, it
\* reads as a short answer: of a wait, that nothing is known
Truncated(u) ==
  \/ Refused(u)
  \/ AtCall(u, "wait") /\ Then(u, "look")
  \/ AtCall(u, "run") /\ Then(u, "inspect")

Fail(r) ==
  LET u == req[r].of IN
  /\ req[r].phase = "sent" /\ Severed
  /\ Unsent(u)
  /\ Release(r)
  /\ req' = [req EXCEPT ![r].phase = "failed", ![r].released = TRUE]
  /\ UNCHANGED <<agent, made, exit, closed, asked>>

\* the signal of a job that is cancelled destroys its request.  Who reads the stream of a
\* build or a pull hears nothing of that, see ImageJobs; who reads an error does
Abort(r) ==
  LET u == req[r].of IN
  /\ InUse(r) /\ AtCall(u, "stream")
  /\ IF req[r].phase = "sent"
     THEN /\ Says(u, "error") /\ Release(r)
          /\ req' = [req EXCEPT ![r].phase = "failed", ![r].released = TRUE]
     ELSE /\ Then(u, "deaf") \/ Says(u, "error")
          /\ req' = [req EXCEPT ![r].phase = "ended"]
          /\ UNCHANGED <<inflight, draining, destroyed>>
  /\ UNCHANGED <<agent, made, exit, closed, asked, cuts>>

\* after an answer the response is closed
End(r) ==
  LET u == req[r].of IN
  /\ req[r].phase = "open"
  /\ \/ Answers(u) /\ UNCHANGED cuts
     \/ Refused(u) /\ Severed
     \/ Truncated(u) /\ Severed
  /\ req' = [req EXCEPT ![r].phase = "ended"]
  /\ UNCHANGED <<agentVars, exit, closed, asked>>

-----------------------------------------------------------------------------

\* the command in the container of a wait ends
Exit(u) ==
  /\ user[u].op = "wait" /\ exit[u] = "running"
  /\ \E code \in {"0", "1"} : exit' = [exit EXCEPT ![u] = code]
  /\ UNCHANGED <<agentVars, req, user, closed, asked, cuts>>

\* close(): the agent of an instance that is in use is parked
ClosePool ==
  /\ ~closed /\ closed' = TRUE
  /\ agent' = 0
  /\ IF agent = 0 THEN UNCHANGED <<draining, destroyed>>
     ELSE IF inflight = 0 THEN destroyed' = destroyed \cup {agent} /\ UNCHANGED draining
     ELSE draining' = draining \cup {agent} /\ UNCHANGED destroyed
  /\ UNCHANGED <<made, inflight, req, user, exit, asked, cuts>>

TransportNext ==
  \/ \E u \in Users, op \in DOMAIN FirstStep : Ask(u, op)
  \/ \E u \in Users, r \in Slots : Send(u, r)
  \/ \E r \in Slots : Respond(r) \/ Close(r) \/ Fail(r) \/ Abort(r) \/ End(r)
  \/ \E u \in Users : Exit(u)
  \/ ClosePool

TransportSpec == TransportInit /\ [][TransportNext]_transportVars

-----------------------------------------------------------------------------
(* Properties. *)

TransportTypeOK ==
  /\ made \in Nat /\ agent \in 0 .. made /\ inflight \in Nat
  /\ draining \subseteq 1 .. made /\ destroyed \subseteq 1 .. made
  /\ req \in [Slots -> [phase : {"none", "sent", "open", "ended", "failed"},
                        agent : 0 .. made, of : Users \cup {"nobody"}, released : BOOLEAN]]
  /\ user \in [Users -> [op : DOMAIN FirstStep \cup {"none"}, step : Steps,
                         attempt : Nat, says : {"nothing", "done", "error", "0", "1"}]]
  /\ exit \in [Users -> {"running", "0", "1"}]

\* An agent is not destroyed as long as a request is in flight on it: a change of the
\* host's connection cuts no build, no exec and no wait.  And it is not parked for
\* ever: once nothing is in flight there is none.
NoneCut ==
  /\ \A r \in Slots : InUse(r) => req[r].agent \notin destroyed
  /\ (\A r \in Slots : Free(r)) => draining = {}

\* The exit code of a wait is that of a container that has stopped, however often the
\* connection was cut, and answered by whom.
WaitsAreTrue ==
  \A u \in Users : user[u].op = "none" /\ user[u].step \in {"wait", "look"} =>
    user[u].says \in {exit[u], "error"} /\ user[u].says # "running"

TransportHolds == NoneCut /\ WaitsAreTrue
=============================================================================
