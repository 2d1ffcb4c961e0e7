--------------------------- MODULE TransportProofs ---------------------------
(* The agent of a Portainer host is never destroyed under a request, and is *)
(* not parked for ever; the exit code of a wait is a true one.              *)
(*                                                                          *)
(* The counter says how many requests are held, so it is 0 only when there  *)
(* is none; and who holds an agent holds the one in use or a parked one,    *)
(* none of which is destroyed yet.                                          *)
EXTENDS Transport, FiniteSetTheorems, TLAPS

\* The requests that were counted and are not released.
Held == {r \in Slots : req[r].phase # "none" /\ ~req[r].released}

Counted ==
  /\ inflight = Cardinality(Held)
  /\ draining # {} => inflight > 0
  /\ \A r \in Slots : req[r].phase \in {"sent", "open", "ended"} => ~req[r].released

Alive ==
  /\ \A r \in Held : req[r].agent \in ({agent} \ {0}) \cup draining
  /\ (({agent} \ {0}) \cup draining) \cap destroyed = {}
  /\ agent \notin draining

\* A request in use belongs to a call that goes on, which has no other.
Owned ==
  \A r \in Slots : InUse(r) =>
    /\ req[r].of \in Users /\ user[req[r].of].op # "none"
    /\ \A q \in Slots : InUse(q) /\ req[q].of = req[r].of => q = r

IInv == TransportTypeOK /\ Counted /\ Alive /\ Owned /\ WaitsAreTrue

\* There are finitely many sockets.
LEMMA HeldFinite == IsFiniteSet(Held) /\ Cardinality(Held) \in Nat
  BY FS_Subset, FS_CardinalityType, TransportAssumption DEF Held

\* When nothing is counted nothing is held.
LEMMA NoneHeld ==
  ASSUME Counted
  PROVE  /\ inflight = 0 <=> Held = {}
         /\ \A r \in Held : inflight = 1 => Held = {r}
<1>1. inflight = 0 <=> Held = {}
  BY HeldFinite, FS_EmptySet DEF Counted
<1>2. ASSUME NEW r \in Held, inflight = 1 PROVE Held = {r}
  <2>1. PICK x : Held = {x}
    BY <1>2, HeldFinite, FS_Singleton DEF Counted
  <2> QED BY <2>1, <1>2
<1> QED BY <1>1, <1>2

-----------------------------------------------------------------------------
(* What becomes of a call.  Answers and failures touch one user.            *)

\* What a step may make of a user: a call that ended, or one that went on.
Progress(u) ==
  \/ \E what \in {"done", "error"} : Says(u, what) /\ (what = "done" => user[u].step \notin {"wait", "look"})
  \/ exit[u] # "running" /\ Says(u, exit[u])
  \/ \E step \in Steps : Then(u, step)
  \/ user' = [user EXCEPT ![u].step = "wait", ![u].attempt = @ + 1]

\* A user whose call is refused goes on, or says it failed.
LEMMA RefusedProgress ==
  ASSUME NEW u, Refused(u) PROVE Progress(u)
  BY DEF Refused, WaitAgain, AtCall, Progress, Says, Then

\* An answer takes a user to its next step, or to its result.
LEMMA AnswerProgress ==
  ASSUME NEW u, Answers(u) PROVE Progress(u)
<1>1. CASE WaitAnswers(u)
  BY <1>1 DEF WaitAnswers, Looks, WaitAgain, AtCall, Progress
<1>2. CASE StartAnswers(u)
  BY <1>2 DEF StartAnswers, AtCall, Progress, Steps
<1>3. CASE ExecAnswers(u)
  BY <1>3 DEF ExecAnswers, AtCall, Progress, Steps
<1>4. CASE StreamAnswers(u) \/ SingleAnswers(u)
  BY <1>4 DEF StreamAnswers, SingleAnswers, AtCall, Progress
<1> QED BY <1>1, <1>2, <1>3, <1>4 DEF Answers

\* A call whose request is cut is like one that is refused.
LEMMA CutProgress ==
  ASSUME NEW u, Unsent(u) \/ Truncated(u) PROVE Progress(u)
  BY RefusedProgress DEF Unsent, Truncated, Progress, Steps

\* The types of users, and that waits are true, are kept.
UsersTyped ==
  user \in [Users -> [op : DOMAIN FirstStep \cup {"none"}, step : Steps,
                      attempt : Nat, says : {"nothing", "done", "error", "0", "1"}]]

\* Progress of one user keeps the types of all, and what they say true.
LEMMA ProgressKeeps ==
  ASSUME UsersTyped, exit \in [Users -> {"running", "0", "1"}], WaitsAreTrue,
         NEW u \in Users, user[u].op # "none", Progress(u), exit' = exit
  PROVE  UsersTyped' /\ WaitsAreTrue'
<1>0. user[u].op \in DOMAIN FirstStep \cup {"none"} /\ exit[u] \in {"running", "0", "1"}
  BY DEF UsersTyped
<1>1. CASE \E what \in {"done", "error"} :
             Says(u, what) /\ (what = "done" => user[u].step \notin {"wait", "look"})
  <2>1. PICK what \in {"done", "error"} :
             Says(u, what) /\ (what = "done" => user[u].step \notin {"wait", "look"})
    BY <1>1
  <2>2. UsersTyped'
    BY <2>1 DEF Says, UsersTyped
  <2>3. WaitsAreTrue'
    BY <2>1 DEF Says, UsersTyped, WaitsAreTrue
  <2> QED BY <2>2, <2>3
<1>2. CASE exit[u] # "running" /\ Says(u, exit[u])
  <2>1. UsersTyped'
    BY <1>0, <1>2 DEF Says, UsersTyped
  <2>2. WaitsAreTrue'
    BY <1>2 DEF Says, UsersTyped, WaitsAreTrue
  <2> QED BY <2>1, <2>2
<1>3. CASE \E step \in Steps : Then(u, step)
  <2>1. PICK step \in Steps : Then(u, step)
    BY <1>3
  <2>2. UsersTyped'
    BY <2>1 DEF Then, UsersTyped
  <2>3. WaitsAreTrue'
    BY <2>1 DEF Then, UsersTyped, WaitsAreTrue
  <2> QED BY <2>2, <2>3
<1>4. CASE user' = [user EXCEPT ![u].step = "wait", ![u].attempt = @ + 1]
  <2>1. UsersTyped'
    BY <1>4 DEF UsersTyped, Steps
  <2>2. WaitsAreTrue'
    BY <1>4 DEF UsersTyped, WaitsAreTrue
  <2> QED BY <2>1, <2>2
<1> QED BY <1>1, <1>2, <1>3, <1>4 DEF Progress

-----------------------------------------------------------------------------
(* What becomes of a request.                                               *)

RequestsTyped ==
  /\ made \in Nat /\ agent \in 0 .. made /\ inflight \in Nat
  /\ draining \subseteq 1 .. made /\ destroyed \subseteq 1 .. made
  /\ req \in [Slots -> [phase : {"none", "sent", "open", "ended", "failed"},
                        agent : 0 .. made, of : Users \cup {"nobody"}, released : BOOLEAN]]

\* Who is released leaves the counter and the agents right, and gives nobody a request.
LEMMA ReleaseKeeps ==
  ASSUME RequestsTyped, Counted, Alive, NEW r \in Slots, req[r].phase # "none", Release(r),
         NEW new \in [phase : {"none", "ended", "failed"}, agent : 0 .. made,
                      of : Users \cup {"nobody"}, released : BOOLEAN],
         new.phase = "none" \/ new.released, new.phase = "ended" => ~new.released,
         req' = [req EXCEPT ![r] = new], UNCHANGED <<agent, made>>
  PROVE  RequestsTyped' /\ Counted' /\ Alive'
<1>1. Held' = Held \ {r}
  BY DEF RequestsTyped, Held
<1>2. \A q \in Held' : q \in Held /\ req'[q] = req[q]
  BY <1>1 DEF RequestsTyped, Held
<1>3. CASE req[r].released
  <2>1. r \notin Held /\ Held' = Held /\ UNCHANGED <<inflight, draining, destroyed>>
    BY <1>1, <1>3 DEF Held, Release
  <2>2. RequestsTyped'
    BY <2>1 DEF RequestsTyped
  <2>3. Counted'
    BY <2>1 DEF Counted, RequestsTyped
  <2>4. Alive'
    BY <2>1, <1>2 DEF Alive
  <2> QED BY <2>2, <2>3, <2>4
<1>4. CASE ~req[r].released
  <2>1. /\ r \in Held
        /\ inflight' = IF inflight = 0 THEN 0 ELSE inflight - 1
        /\ IF inflight > 1 THEN UNCHANGED <<draining, destroyed>>
           ELSE draining' = {} /\ destroyed' = destroyed \cup draining
    BY <1>4 DEF Held, Release
  <2>2. inflight \in Nat /\ inflight > 0
    BY <2>1, NoneHeld DEF RequestsTyped
  <2>3. inflight' = Cardinality(Held') /\ inflight' \in Nat
    <3>1. Cardinality(Held \ {r}) = Cardinality(Held) - 1
      BY <2>1, HeldFinite, FS_RemoveElement
    <3> QED BY <1>1, <2>1, <2>2, <3>1 DEF Counted
  <2>4. RequestsTyped'
    BY <2>1, <2>2, <2>3 DEF RequestsTyped
  <2>5. Counted'
    BY <2>1, <2>2, <2>3 DEF Counted, RequestsTyped
  <2>6. Alive'
    <3>1. CASE inflight > 1
      BY <2>1, <3>1, <1>2 DEF Alive
    <3>2. CASE inflight = 1
      <4>1. Held' = {} /\ draining' = {} /\ destroyed' = destroyed \cup draining
        BY <1>1, <2>1, <3>2, NoneHeld
      <4> QED BY <4>1 DEF Alive
    <3> QED BY <2>2, <3>1, <3>2
  <2> QED BY <2>4, <2>5, <2>6
<1> QED BY <1>3, <1>4

\* A step that moves a request on, and takes nothing from the counter.
LEMMA MoveKeeps ==
  ASSUME RequestsTyped, Counted, Alive, NEW r \in Slots, InUse(r),
         NEW phase \in {"open", "ended"}, req' = [req EXCEPT ![r].phase = phase],
         UNCHANGED agentVars
  PROVE  RequestsTyped' /\ Counted' /\ Alive'
<1>1. ~req[r].released /\ UNCHANGED <<agent, made, inflight, draining, destroyed>>
  BY DEF Counted, InUse, agentVars
<1>2. Held' = Held /\ \A q \in Slots : req'[q].agent = req[q].agent
  BY <1>1 DEF RequestsTyped, Held, InUse
<1>3. RequestsTyped'
  BY <1>1 DEF RequestsTyped
<1>4. Counted'
  BY <1>1, <1>2 DEF Counted, RequestsTyped
<1>5. Alive'
  BY <1>1, <1>2 DEF Alive, Held
<1> QED BY <1>3, <1>4, <1>5

\* A request takes an idle socket, or a new one within the limit.
LEMMA SendKeeps ==
  ASSUME IInv, NEW u \in Users, NEW r \in Slots, Send(u, r)
  PROVE  RequestsTyped' /\ Counted' /\ Alive'
<1> DEFINE new == [phase |-> "sent", agent |-> GetAgent, of |-> u, released |-> FALSE]
<1>1. /\ req' = [req EXCEPT ![r] = new]
      /\ agent' = GetAgent /\ made' = (IF GetAgent > made THEN GetAgent ELSE made)
      /\ inflight' = inflight + 1 /\ UNCHANGED <<draining, destroyed>>
      /\ req[r].phase = "none"
  BY DEF Send, Free
<1>2. /\ made \in Nat /\ agent \in 0 .. made /\ inflight \in Nat
      /\ draining \subseteq 1 .. made /\ destroyed \subseteq 1 .. made
      /\ req \in [Slots -> [phase : {"none", "sent", "open", "ended", "failed"},
                            agent : 0 .. made, of : Users \cup {"nobody"}, released : BOOLEAN]]
  BY DEF IInv, TransportTypeOK
<1>3. /\ GetAgent \in 1 .. made' /\ made' \in Nat /\ made <= made'
      /\ GetAgent \notin destroyed /\ GetAgent \notin draining
      /\ agent # 0 => GetAgent = agent
  BY <1>1, <1>2 DEF GetAgent, IInv, Alive
<1> HIDE DEF new
<1>4. Held' = Held \cup {r} /\ r \notin Held /\ \A q \in Held : q # r /\ req'[q] = req[q]
  BY <1>1, <1>2 DEF Held, new
<1>5. RequestsTyped'
  BY <1>1, <1>2, <1>3 DEF RequestsTyped, new
<1>6. Counted'
  <2>1. inflight' = Cardinality(Held')
    BY <1>1, <1>4, HeldFinite, FS_AddElement DEF IInv, Counted
  <2> QED BY <2>1, <1>1, <1>2 DEF IInv, Counted, new
<1>7. Alive'
  <2>1. req'[r].agent = GetAgent /\ GetAgent # 0
    BY <1>1, <1>2, <1>3 DEF new
  <2> QED BY <2>1, <1>1, <1>3, <1>4 DEF IInv, Alive
<1> QED BY <1>5, <1>6, <1>7

\* A pool that closes ends its idle sockets.
LEMMA ClosePoolKeeps ==
  ASSUME IInv, ClosePool
  PROVE  RequestsTyped' /\ Counted' /\ Alive'
<1>1. /\ made \in Nat /\ agent \in 0 .. made /\ inflight \in Nat /\ RequestsTyped
  BY DEF IInv, TransportTypeOK, RequestsTyped
<1>2. agent' = 0 /\ UNCHANGED <<made, inflight, req>> /\ Held' = Held
  BY DEF ClosePool, Held
<1>3. CASE agent = 0
  <2>1. UNCHANGED <<draining, destroyed>>
    BY <1>3 DEF ClosePool
  <2> QED BY <1>1, <1>2, <1>3, <2>1 DEF RequestsTyped, IInv, Counted, Alive
<1>4. CASE agent # 0 /\ inflight = 0
  <2>1. destroyed' = destroyed \cup {agent} /\ UNCHANGED draining /\ Held = {} /\ draining = {}
    BY <1>1, <1>4, NoneHeld DEF ClosePool, IInv, Counted
  <2> QED BY <1>1, <1>2, <1>4, <2>1 DEF RequestsTyped, IInv, Counted, Alive
<1>5. CASE agent # 0 /\ inflight # 0
  <2>1. draining' = draining \cup {agent} /\ UNCHANGED destroyed
    BY <1>5 DEF ClosePool
  <2>2. RequestsTyped'
    BY <1>1, <1>2, <1>5, <2>1 DEF RequestsTyped
  <2>3. Counted'
    BY <1>1, <1>2, <1>5 DEF IInv, Counted
  <2>4. Alive'
    BY <1>1, <1>2, <1>5, <2>1 DEF RequestsTyped, IInv, Alive
  <2> QED BY <2>2, <2>3, <2>4
<1> QED BY <1>3, <1>4, <1>5

-----------------------------------------------------------------------------
(* The step.                                                                *)

\* A request that a step does not put in use has its owner as before, unless
\* the step ends that call: then the request is no longer in use.
LEMMA OwnedKeeps ==
  ASSUME Owned, RequestsTyped, UsersTyped,
         \A r \in Slots : InUse(r)' => InUse(r) /\ req'[r].of = req[r].of,
         \A r \in Slots : InUse(r)' => user'[req[r].of].op = user[req[r].of].op
  PROVE  Owned'
  BY DEF Owned, InUse

\* A request that leaves its call is the only one the call had.
LEMMA LeaveKeeps ==
  ASSUME Owned, RequestsTyped, UsersTyped, exit \in [Users -> {"running", "0", "1"}], WaitsAreTrue,
         NEW r \in Slots, InUse(r), Progress(req[r].of), exit' = exit,
         NEW new, new.phase \notin {"sent", "open"}, req' = [req EXCEPT ![r] = new]
  PROVE  Owned' /\ UsersTyped' /\ WaitsAreTrue'
<1> DEFINE u == req[r].of
<1>1. u \in Users /\ user[u].op # "none"
  BY DEF Owned
<1>2. UsersTyped' /\ WaitsAreTrue'
  BY <1>1, ProgressKeeps
<1>3. \A v \in Users \ {u} : user'[v] = user[v]
  BY DEF Progress, Says, Then, UsersTyped
<1>4. \A q \in Slots : InUse(q)' => q # r /\ InUse(q) /\ req'[q] = req[q]
  BY DEF InUse, RequestsTyped
<1>5. \A q \in Slots : InUse(q)' => req[q].of \in Users \ {u}
  BY <1>4 DEF Owned
<1>6. Owned'
  BY <1>3, <1>4, <1>5 DEF Owned, InUse
<1> QED BY <1>2, <1>6

\* Every step keeps the invariant.
LEMMA TransportStep ==
  ASSUME IInv, [TransportNext]_transportVars
  PROVE  IInv'
<1> DEFINE Users3 == UsersTyped /\ exit \in [Users -> {"running", "0", "1"}] /\ WaitsAreTrue
<1>0. RequestsTyped /\ Counted /\ Alive /\ Owned /\ Users3
  BY DEF IInv, TransportTypeOK, RequestsTyped, UsersTyped
<1>1. SUFFICES RequestsTyped' /\ Counted' /\ Alive' /\ Owned' /\ Users3'
  BY DEF IInv, TransportTypeOK, RequestsTyped, UsersTyped
<1>2. ASSUME NEW u \in Users, NEW op \in DOMAIN FirstStep, Ask(u, op)
      PROVE  RequestsTyped' /\ Counted' /\ Alive' /\ Owned' /\ Users3'
  <2>1. /\ UNCHANGED <<agent, made, inflight, draining, destroyed, req>>
        /\ user' = [user EXCEPT ![u] = [NoUser EXCEPT !.op = op, !.step = FirstStep[op]]]
        /\ exit' = (IF op = "wait" THEN [exit EXCEPT ![u] = "running"] ELSE exit)
        /\ user[u].op = "none"
    BY <1>2 DEF Ask, agentVars
  <2>2. op # "none" /\ FirstStep[op] \in Steps
        /\ (FirstStep[op] \in {"wait", "look"} => op = "wait")
    BY DEF FirstStep, Steps
  <2>3. RequestsTyped' /\ Counted' /\ Alive'
    BY <1>0, <2>1 DEF RequestsTyped, Counted, Alive, Held
  <2>4. Owned'
    BY <1>0, <2>1 DEF Owned, InUse, UsersTyped
  <2>5. UsersTyped' /\ exit' \in [Users -> {"running", "0", "1"}]
    BY <1>0, <2>1, <2>2 DEF UsersTyped, NoUser
  <2>6. WaitsAreTrue'
    BY <1>0, <2>1, <2>2 DEF UsersTyped, NoUser, WaitsAreTrue
  <2> QED BY <2>3, <2>4, <2>5, <2>6
<1>3. ASSUME NEW u \in Users, NEW r \in Slots, Send(u, r)
      PROVE  RequestsTyped' /\ Counted' /\ Alive' /\ Owned' /\ Users3'
  <2>1. RequestsTyped' /\ Counted' /\ Alive'
    BY <1>3, SendKeeps
  <2>2. UNCHANGED <<user, exit>> /\ user[u].op # "none" /\ ~Waiting(u)
    BY <1>3 DEF Send
  <2>3. Owned'
    BY <1>0, <1>3, <2>2 DEF Owned, Send, Waiting, InUse, RequestsTyped
  <2>4. Users3'
    BY <1>0, <2>2 DEF UsersTyped, WaitsAreTrue
  <2> QED BY <2>1, <2>3, <2>4
<1>4. ASSUME NEW r \in Slots, Respond(r)
      PROVE  RequestsTyped' /\ Counted' /\ Alive' /\ Owned' /\ Users3'
  <2>1. /\ req[r].phase = "sent" /\ req' = [req EXCEPT ![r].phase = "open"]
        /\ UNCHANGED <<agentVars, user, exit>>
    BY <1>4 DEF Respond
  <2>2. RequestsTyped' /\ Counted' /\ Alive'
    BY <1>0, <2>1, MoveKeeps DEF InUse
  <2>3. Owned'
    BY <1>0, <2>1, OwnedKeeps DEF InUse, RequestsTyped
  <2>4. Users3'
    BY <1>0, <2>1 DEF UsersTyped, WaitsAreTrue
  <2> QED BY <2>2, <2>3, <2>4
<1>5. ASSUME NEW r \in Slots, Close(r)
      PROVE  RequestsTyped' /\ Counted' /\ Alive' /\ Owned' /\ Users3'
  <2>1. /\ req[r].phase \in {"ended", "failed"} /\ req' = [req EXCEPT ![r] = NoReq]
        /\ Release(r) /\ UNCHANGED <<agent, made, user, exit>>
    BY <1>5 DEF Close
  <2>2. NoReq \in [phase : {"none", "ended", "failed"}, agent : 0 .. made,
                   of : Users \cup {"nobody"}, released : BOOLEAN] /\ NoReq.phase = "none"
    BY <1>0 DEF NoReq, RequestsTyped
  <2>3. RequestsTyped' /\ Counted' /\ Alive'
    BY <1>0, <2>1, <2>2, ReleaseKeeps
  <2>4. Owned'
    BY <1>0, <2>1, OwnedKeeps DEF InUse, RequestsTyped, NoReq
  <2>5. Users3'
    BY <1>0, <2>1 DEF UsersTyped, WaitsAreTrue
  <2> QED BY <2>3, <2>4, <2>5
<1>6. ASSUME NEW r \in Slots, Fail(r)
      PROVE  RequestsTyped' /\ Counted' /\ Alive' /\ Owned' /\ Users3'
  <2> DEFINE new == [req[r] EXCEPT !.phase = "failed", !.released = TRUE]
  <2>1. /\ InUse(r) /\ req[r].phase # "none" /\ Unsent(req[r].of) /\ Release(r)
        /\ req' = [req EXCEPT ![r] = new] /\ UNCHANGED <<agent, made, exit>>
    BY <1>6 DEF Fail, InUse
  <2>2. /\ new \in [phase : {"none", "ended", "failed"}, agent : 0 .. made,
                     of : Users \cup {"nobody"}, released : BOOLEAN]
        /\ new.phase = "failed" /\ new.released
    BY <1>0 DEF RequestsTyped
  <2> HIDE DEF new
  <2>3. RequestsTyped' /\ Counted' /\ Alive'
    BY <1>0, <2>1, <2>2, ReleaseKeeps
  <2>4. Owned' /\ Users3'
    BY <1>0, <2>1, <2>2, CutProgress, LeaveKeeps
  <2> QED BY <2>3, <2>4
<1>7. ASSUME NEW r \in Slots, Abort(r)
      PROVE  RequestsTyped' /\ Counted' /\ Alive' /\ Owned' /\ Users3'
  <2>1. /\ InUse(r) /\ UNCHANGED <<agent, made, exit>> /\ Progress(req[r].of)
    BY <1>7 DEF Abort, Progress, Steps
  <2>2. CASE req[r].phase = "sent"
    <3> DEFINE new == [req[r] EXCEPT !.phase = "failed", !.released = TRUE]
    <3>1. Release(r) /\ req' = [req EXCEPT ![r] = new]
      BY <1>7, <2>2 DEF Abort
    <3>2. /\ new \in [phase : {"none", "ended", "failed"}, agent : 0 .. made,
                       of : Users \cup {"nobody"}, released : BOOLEAN]
          /\ new.phase = "failed" /\ new.released
      BY <1>0 DEF RequestsTyped
    <3> HIDE DEF new
    <3>3. RequestsTyped' /\ Counted' /\ Alive'
      BY <1>0, <2>1, <2>2, <3>1, <3>2, ReleaseKeeps
    <3>4. Owned' /\ Users3'
      BY <1>0, <2>1, <3>1, <3>2, LeaveKeeps
    <3> QED BY <3>3, <3>4
  <2>3. CASE req[r].phase # "sent"
    <3> DEFINE new == [req[r] EXCEPT !.phase = "ended"]
    <3>1. /\ req' = [req EXCEPT ![r].phase = "ended"] /\ UNCHANGED agentVars
          /\ req' = [req EXCEPT ![r] = new] /\ new.phase = "ended"
      BY <1>0, <1>7, <2>3 DEF Abort, agentVars, RequestsTyped
    <3>2. RequestsTyped' /\ Counted' /\ Alive'
      BY <1>0, <2>1, <3>1, MoveKeeps
    <3> HIDE DEF new
    <3>3. Owned' /\ Users3'
      BY <1>0, <2>1, <3>1, LeaveKeeps
    <3> QED BY <3>2, <3>3
  <2> QED BY <2>2, <2>3
<1>8. ASSUME NEW r \in Slots, End(r)
      PROVE  RequestsTyped' /\ Counted' /\ Alive' /\ Owned' /\ Users3'
  <2> DEFINE new == [req[r] EXCEPT !.phase = "ended"]
  <2>1. /\ InUse(r) /\ UNCHANGED agentVars /\ exit' = exit
        /\ Answers(req[r].of) \/ Refused(req[r].of) \/ Truncated(req[r].of)
        /\ req' = [req EXCEPT ![r].phase = "ended"]
        /\ req' = [req EXCEPT ![r] = new] /\ new.phase = "ended"
    BY <1>0, <1>8 DEF End, InUse, RequestsTyped
  <2> HIDE DEF new
  <2>2. Progress(req[r].of)
    BY <2>1, AnswerProgress, RefusedProgress, CutProgress
  <2>3. RequestsTyped' /\ Counted' /\ Alive'
    BY <1>0, <2>1, MoveKeeps
  <2>4. Owned' /\ Users3'
    BY <1>0, <2>1, <2>2, LeaveKeeps
  <2> QED BY <2>3, <2>4
<1>9. ASSUME NEW u \in Users, Exit(u)
      PROVE  RequestsTyped' /\ Counted' /\ Alive' /\ Owned' /\ Users3'
  <2>1. /\ user[u].op = "wait" /\ \E code \in {"0", "1"} : exit' = [exit EXCEPT ![u] = code]
        /\ UNCHANGED <<agent, made, inflight, draining, destroyed, req, user>>
    BY <1>9 DEF Exit, agentVars
  <2>2. RequestsTyped' /\ Counted' /\ Alive' /\ Owned' /\ UsersTyped'
    BY <1>0, <2>1 DEF RequestsTyped, Counted, Alive, Held, Owned, InUse, UsersTyped
  <2>3. exit' \in [Users -> {"running", "0", "1"}] /\ WaitsAreTrue'
    BY <1>0, <2>1 DEF UsersTyped, WaitsAreTrue
  <2> QED BY <2>2, <2>3
<1>10. ASSUME ClosePool
       PROVE  RequestsTyped' /\ Counted' /\ Alive' /\ Owned' /\ Users3'
  <2>1. UNCHANGED <<req, user, exit>>
    BY <1>10 DEF ClosePool
  <2> QED BY <1>0, <1>10, <2>1, ClosePoolKeeps DEF Owned, InUse, UsersTyped, WaitsAreTrue
<1>11. ASSUME UNCHANGED transportVars
       PROVE  RequestsTyped' /\ Counted' /\ Alive' /\ Owned' /\ Users3'
  BY <1>0, <1>11 DEF transportVars, agentVars, RequestsTyped, Counted, Alive, Held, Owned, InUse,
     UsersTyped, WaitsAreTrue
<1> QED
  BY <1>2, <1>3, <1>4, <1>5, <1>6, <1>7, <1>8, <1>9, <1>10, <1>11 DEF TransportNext

\* An empty pool is in order.
LEMMA TransportStart == TransportInit => IInv
<1> SUFFICES ASSUME TransportInit PROVE IInv
  OBVIOUS
<1>1. TransportTypeOK /\ Owned /\ WaitsAreTrue /\ Held = {}
  BY TransportAssumption
     DEF TransportInit, TransportTypeOK, Owned, InUse, WaitsAreTrue, NoReq, NoUser, Steps, Held
<1>2. Counted /\ Alive
  BY <1>1, FS_EmptySet DEF TransportInit, NoReq, Counted, Alive
<1> QED BY <1>1, <1>2 DEF IInv

\* So the invariant always holds.
LEMMA Inductive == TransportSpec => []IInv
  BY TransportStart, TransportStep, PTL DEF TransportSpec

\* However often the connection of the host is changed, cut or refused, and whoever is
\* at work on it: no request loses its agent, no agent is left parked, and a wait says
\* what its container said (backends/portainer.ts: send, endRequest, close, waitContainer).
THEOREM TransportIsSound == TransportSpec => []TransportHolds
<1>1. IInv => NoneCut
  <2> SUFFICES ASSUME IInv PROVE NoneCut
    OBVIOUS
  <2>1. \A r \in Slots : InUse(r) => r \in Held
    BY DEF IInv, Counted, InUse, Held
  <2>2. \A r \in Slots : InUse(r) => req[r].agent \notin destroyed
    BY <2>1 DEF IInv, Alive
  <2>3. ASSUME \A r \in Slots : Free(r) PROVE draining = {}
    BY <2>3, NoneHeld DEF IInv, TransportTypeOK, Counted, Free, Held
  <2> QED BY <2>2, <2>3 DEF NoneCut
<1>2. IInv => TransportHolds
  BY <1>1 DEF IInv, TransportHolds
<1> QED
  BY <1>2, Inductive, PTL
=============================================================================
