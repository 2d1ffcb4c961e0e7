------------------------ MODULE ContainerServiceProofs ------------------------
(***************************************************************************)
(* For every number of hosts, names, requests and preparations, and with   *)
(* any number of calls, faults and restarts: the types of ContainerService,*)
(* the exclusion of preparations, what is known when a teardown starts, the*)
(* workspaces, and what calls leave behind when one thing at most failed,  *)
(* by induction over its steps.                                            *)
(*                                                                         *)
(* TypeOK is not inductive: storing the definition a task captured keeps   *)
(* config well typed only if the task has captured one, and touching the   *)
(* container of a task only if the task has a host and a name.  Shape says *)
(* which local variables a task has set at which await.                    *)
(*                                                                         *)
(* ReplaceOnlyWhenReady is not inductive either: the task that starts a    *)
(* teardown has seen its image and its tools before it, over several       *)
(* awaits.  FitsIn carries that along, and holds on because images and     *)
(* tools only ever come to a host.                                         *)
(***************************************************************************)
EXTENDS ContainerService, TLAPS

HoldsDefinition ==
  {"checkName", "checkHost", "store", "prepare", "awaitJobs", "resolveImage",
   "listVolumes", "createVolume", "createContainer", "startNew", "storeNew",
   "removeNew", "dropFresh", "findPrevious", "stopPrevious", "removePrevious",
   "storeReplaced", "startReplaced", "startExisting", "checkAdopt",
   "storeAdopted"}

Shape(k) ==
  /\ k.pc # "idle" => k.name \in Names /\ k.mode \in Modes
  /\ k.pc \notin {"idle", "locate", "forget"} => k.host \in Hosts
  /\ k.pc \in HoldsDefinition => k.cfg \in Definition
  /\ k.pc = "loadConfig" /\ k.id # 0 => k.cfg \in Definition

Shaped == \A t \in Tasks : Shape(task[t])

IInv == TypeOK /\ Shaped

\* how a step of task t may leave the tasks and the preparations map
Moves(t) ==
  \E r \in TaskRecord :
    /\ Shape(r)
    /\ r.pc # "idle"
    /\ r.name = task[t].name
    /\ task' = [task EXCEPT ![t] = r]
    /\ UNCHANGED preparations

TaskStep(t) ==
  /\ ~At(t, "idle")
  /\ \/ Moves(t)
     \/ Finish(t)
     \/ task[t].pc \in {"store", "prepare"} /\ \E m \in Modes : Prepare(t, m)

-----------------------------------------------------------------------------
\* A task that continues at an await for which it has what Shape asks moves.
LEMMA ContinueMoves ==
  ASSUME IInv, NEW t \in Tasks, NEW p \in PCs \ {"idle"}, ~At(t, "idle"),
         Shape([task[t] EXCEPT !.pc = p]), Continue(t, p)
  PROVE  Moves(t)
<1> DEFINE r == [task[t] EXCEPT !.pc = p]
<1>1. task[t] \in TaskRecord /\ task \in [Tasks -> TaskRecord]
  BY DEF IInv, TypeOK
<1>2. r \in TaskRecord /\ r.pc = p /\ r.name = task[t].name
  BY <1>1 DEF TaskRecord
<1>3. task' = [task EXCEPT ![t] = r] /\ UNCHANGED preparations
  BY <1>1 DEF Continue
<1> QED
  BY <1>2, <1>3 DEF Moves

\* A record in place of the task's own is a move when it is well shaped.
LEMMA RecordMoves ==
  ASSUME NEW t \in Tasks, NEW r \in TaskRecord, Shape(r), r.pc # "idle",
         r.name = task[t].name, task' = [task EXCEPT ![t] = r],
         UNCHANGED preparations
  PROVE  Moves(t)
BY DEF Moves

\* A task that holds its definition keeps it while it continues.
LEMMA HeldContinue ==
  ASSUME IInv, NEW t \in Tasks, task[t].pc \in HoldsDefinition,
         NEW p \in HoldsDefinition, Continue(t, p)
  PROVE  Moves(t)
<1>1. task[t] \in TaskRecord /\ Shape(task[t])
  BY DEF IInv, TypeOK, Shaped
<1>2. Shape([task[t] EXCEPT !.pc = p]) /\ ~At(t, "idle") /\ p \in PCs \ {"idle"}
  BY <1>1 DEF Shape, HoldsDefinition, TaskRecord, At, PCs
<1> QED
  BY <1>2, ContinueMoves

\* A task that has its host may continue where no definition is needed.
LEMMA HostContinue ==
  ASSUME IInv, NEW t \in Tasks, task[t].pc \notin {"idle", "locate", "forget"},
         NEW p \in {"removeContainer", "dropVolume", "forget"}, Continue(t, p)
  PROVE  Moves(t)
<1>1. task[t] \in TaskRecord /\ Shape(task[t])
  BY DEF IInv, TypeOK, Shaped
<1>2. Shape([task[t] EXCEPT !.pc = p]) /\ ~At(t, "idle") /\ p \in PCs \ {"idle"}
  BY <1>1 DEF Shape, HoldsDefinition, TaskRecord, At, PCs
<1> QED
  BY <1>2, ContinueMoves

\* A start that knows its definition goes on to an await that needs it.
LEMMA GateHeld ==
  ASSUME NEW u, NEW r
  PROVE  Gate(u, r) \in HoldsDefinition /\ Ready(r) \in HoldsDefinition
<1>1. Ready(r) \in {"resolveImage", "findPrevious", "startExisting"}
  <2>1. CASE r.mode = "create"
    BY <2>1 DEF Ready
  <2>2. CASE r.mode = "replace"
    BY <2>2 DEF Ready
  <2>3. CASE r.mode # "create" /\ r.mode # "replace"
    BY <2>3 DEF Ready
  <2> QED
    BY <2>1, <2>2, <2>3
<1>2. Gate(u, r) \in {Ready(r), "checkHost"}
  BY DEF Gate
<1> QED
  BY <1>1, <1>2 DEF HoldsDefinition

\* Back from loadConfig a task goes on with the definition it adopted.
LEMMA AdoptedMoves ==
  ASSUME IInv, NEW t \in Tasks, task[t].pc \in {"checkAdopt", "storeAdopted"},
         GoOrFinish(t, Adopted(t, task[t]))
  PROVE  Moves(t) \/ Finish(t)
<1> DEFINE k == task[t]
           go == [k EXCEPT !.pc = Gate(t, k)]
           again == [k EXCEPT !.pc = "checkHost",
                       !.cfg.ver = IF k.input = None THEN @ ELSE k.input]
<1>0. k \in TaskRecord /\ Shape(k)
  BY DEF IInv, TypeOK, Shaped
<1>1. k.host \in Hosts /\ k.cfg \in Definition /\ k.input \in Versions \cup {None}
      /\ k.name \in Names /\ k.mode \in Modes
  BY <1>0 DEF Shape, HoldsDefinition, TaskRecord
<1>2. Gate(t, k) \in HoldsDefinition
  BY GateHeld
<1>3. go \in TaskRecord /\ Shape(go) /\ go.pc # "idle" /\ go.name = k.name
  BY <1>0, <1>1, <1>2 DEF Shape, HoldsDefinition, TaskRecord, PCs
<1> DEFINE edited == [k.cfg EXCEPT !.ver = IF k.input = None THEN @ ELSE k.input]
<1>4. edited \in Definition
  BY <1>1 DEF Definition
<1>5. again = [k EXCEPT !.pc = "checkHost", !.cfg = edited]
  BY <1>0 DEF TaskRecord
<1>6. again \in TaskRecord /\ Shape(again) /\ again.pc # "idle" /\ again.name = k.name
  BY <1>0, <1>1, <1>4, <1>5 DEF Shape, HoldsDefinition, TaskRecord, PCs
<1>7. CASE Adopted(t, k) = go
  BY <1>3, <1>7, RecordMoves DEF GoOrFinish
<1>8. CASE Adopted(t, k) = again
  BY <1>6, <1>8, RecordMoves DEF GoOrFinish
<1>9. CASE Adopted(t, k).pc = "idle"
  BY <1>9 DEF GoOrFinish
<1> QED
  <2>1. \/ Adopted(t, k) = go
        \/ Adopted(t, k) = again
        \/ Adopted(t, k) = [k EXCEPT !.pc = "idle"]
    BY DEF Adopted
  <2>2. [k EXCEPT !.pc = "idle"].pc = "idle"
    BY <1>0 DEF TaskRecord
  <2> QED
    BY <1>7, <1>8, <1>9, <2>1, <2>2

-----------------------------------------------------------------------------
\* Whatever its outcome, a step of a task moves it, ends it, or hands it to a
\* preparation; a moved task keeps its name and is well shaped.
LEMMA StepTasks ==
  ASSUME IInv, NEW t \in Tasks, Step(t)
  PROVE  TaskStep(t)
<1> DEFINE k == task[t]
<1>0. k \in TaskRecord /\ Shape(k) /\ task \in [Tasks -> TaskRecord]
  BY DEF IInv, TypeOK, Shaped
<1>1. CASE CheckName(t)
  BY <1>1, HeldContinue DEF CheckName, At, HoldsDefinition, TaskStep
<1>2. CASE CheckHost(t)
  <2>1. PICK need \in SUBSET Needs, p \in {"resolveImage", "findPrevious", "startExisting", "prepare", "store"} :
          task' = [task EXCEPT ![t].need = need, ![t].pc = p]
    BY <1>2 DEF CheckHost, StepsNeeded, StepsMisread, Needs, Ready
  <2> DEFINE r == [k EXCEPT !.need = need, !.pc = p]
  <2>2. r \in TaskRecord /\ Shape(r) /\ r.pc # "idle" /\ r.name = k.name
    BY <1>2, <1>0, <2>1 DEF CheckHost, At, Shape, HoldsDefinition, TaskRecord, PCs
  <2>3. task' = [task EXCEPT ![t] = r] /\ UNCHANGED preparations
    BY <1>2, <1>0, <2>1 DEF CheckHost
  <2> QED
    BY <1>2, <2>2, <2>3, RecordMoves DEF CheckHost, At, TaskStep
<1>3. CASE StoreAndPrepare(t)
  <2>1. k.mode \in Modes
    BY <1>3, <1>0 DEF StoreAndPrepare, At, Shape
  <2> QED
    BY <1>3, <2>1 DEF StoreAndPrepare, At, TaskStep
<1>4. CASE StartPreparing(t)
  BY <1>4 DEF StartPreparing, At, TaskStep, Modes
<1>5. CASE AwaitBuild(t)
  <2> DEFINE r == [k EXCEPT !.need = @ \ {"image"}]
  <2>1. r \in TaskRecord /\ Shape(r) /\ r.pc # "idle" /\ r.name = k.name
    BY <1>5, <1>0 DEF AwaitBuild, At, Shape, HoldsDefinition, TaskRecord, PCs
  <2>2. task' = [task EXCEPT ![t].need = @ \ {"image"}] => task' = [task EXCEPT ![t] = r]
    BY <1>0
  <2> QED
    BY <1>5, <2>1, <2>2, RecordMoves DEF AwaitBuild, At, TaskStep
<1>6. CASE AwaitSync(t)
  <2> DEFINE done == [k EXCEPT !.need = {}]
             go == [done EXCEPT !.pc = Ready(k)]
             again == [done EXCEPT !.pc = "locate", !.host = LocateFrom(k.name)]
  <2>1. k.name \in Names /\ k.host \in Hosts /\ k.cfg \in Definition /\ ~At(t, "idle")
    BY <1>6, <1>0 DEF AwaitSync, At, Shape, HoldsDefinition
  <2>2. go \in TaskRecord /\ Shape(go) /\ go.pc # "idle" /\ go.name = k.name
    BY <1>6, <1>0, <2>1 DEF AwaitSync, At, Shape, HoldsDefinition, TaskRecord, PCs, Ready
  <2>3. LocateFrom(k.name) \in Hosts \cup {None}
    BY <2>1 DEF IInv, TypeOK, LocateFrom, Definition
  <2>4. again \in TaskRecord /\ Shape(again) /\ again.pc # "idle" /\ again.name = k.name
    BY <1>6, <1>0, <2>1, <2>3 DEF AwaitSync, At, Shape, HoldsDefinition, TaskRecord, PCs
  <2>5. \/ Finish(t)
        \/ UNCHANGED preparations /\ task' = [task EXCEPT ![t] = go]
        \/ UNCHANGED preparations /\ task' = [task EXCEPT ![t] = again]
    BY <1>6 DEF AwaitSync
  <2> QED
    BY <2>1, <2>2, <2>4, <2>5, RecordMoves DEF TaskStep
<1>7. CASE ResolveImage(t)
  BY <1>7, HeldContinue DEF ResolveImage, At, HoldsDefinition, TaskStep
<1>8. CASE ListVolumes(t)
  <2>1. PICK f \in BOOLEAN, i \in Nat :
          task' = [task EXCEPT ![t].pc = "createVolume", ![t].fresh = f, ![t].since = i]
    BY <1>8 DEF ListVolumes, IInv, TypeOK
  <2> DEFINE r == [k EXCEPT !.pc = "createVolume", !.fresh = f, !.since = i]
  <2>2. r \in TaskRecord /\ Shape(r) /\ r.pc # "idle" /\ r.name = k.name
    BY <1>8, <1>0, <2>1 DEF ListVolumes, At, Shape, HoldsDefinition, TaskRecord, PCs
  <2>3. task' = [task EXCEPT ![t] = r] /\ UNCHANGED preparations
    BY <1>8, <1>0, <2>1 DEF ListVolumes
  <2> QED
    BY <1>8, <2>2, <2>3, RecordMoves DEF ListVolumes, At, TaskStep
<1>9. CASE CreateVolume(t)
  BY <1>9, HeldContinue DEF CreateVolume, At, HoldsDefinition, TaskStep
<1>10. CASE CreateContainer(t)
  <2> DEFINE r == [k EXCEPT !.id = nextId, !.pc = AfterCreate(t)]
  <2>1. At(t, "createContainer") /\ k.pc \in HoldsDefinition
    BY <1>10 DEF CreateContainer, At, HoldsDefinition
  <2>2. r \in TaskRecord /\ Shape(r) /\ r.pc # "idle" /\ r.name = k.name
    BY <1>0, <2>1 DEF At, Shape, HoldsDefinition, TaskRecord, PCs, AfterCreate, IInv, TypeOK
  <2>3. CASE Continue(t, "dropFresh")
    BY <2>1, <2>3, HeldContinue DEF TaskStep, At, HoldsDefinition
  <2>4. CASE task' = [task EXCEPT ![t] = r] /\ UNCHANGED preparations
    BY <2>1, <2>2, <2>4, RecordMoves DEF TaskStep, At
  <2> QED
    BY <1>10, <1>0, <2>3, <2>4 DEF CreateContainer
<1>11. CASE StartNew(t)
  BY <1>11, HeldContinue DEF StartNew, At, HoldsDefinition, TaskStep
<1>12. CASE StoreNew(t)
  BY <1>12, HeldContinue DEF StoreNew, At, HoldsDefinition, TaskStep
<1>13. CASE RemoveNew(t)
  BY <1>13, HeldContinue DEF RemoveNew, At, HoldsDefinition, TaskStep
<1>14. CASE DropFresh(t)
  BY <1>14 DEF DropFresh, At, TaskStep
<1>15. CASE FindPrevious(t)
  <2> DEFINE r(i, on, p) == [k EXCEPT !.pc = p, !.id = i, !.on = on]
  <2>1. Live(t) \in Container \cup {None} /\ ~At(t, "idle")
    BY <1>15, <1>0 DEF FindPrevious, At, Shape, Live, IInv, TypeOK
  <2>2. ASSUME NEW i \in Nat, NEW on \in BOOLEAN,
               NEW p \in {"resolveImage", "stopPrevious", "removePrevious"}
        PROVE  r(i, on, p) \in TaskRecord /\ Shape(r(i, on, p))
               /\ r(i, on, p).pc # "idle" /\ r(i, on, p).name = k.name
    BY <1>15, <1>0 DEF FindPrevious, At, Shape, HoldsDefinition, TaskRecord, PCs
  <2>3. CASE Finish(t)
    BY <2>1, <2>3 DEF TaskStep
  <2>4. CASE /\ UNCHANGED preparations
             /\ \E i \in Nat, on \in BOOLEAN,
                   p \in {"resolveImage", "stopPrevious", "removePrevious"} :
                  task' = [task EXCEPT ![t] = r(i, on, p)]
    BY <2>1, <2>2, <2>4, RecordMoves DEF TaskStep
  <2>5. CASE /\ Live(t) # None
             /\ task' = [task EXCEPT ![t].id = Live(t).id,
                      ![t].on = Live(t).state = "running",
                      ![t].pc = IF Live(t).state = "running" THEN "stopPrevious"
                                                              ELSE "removePrevious"]
             /\ UNCHANGED preparations
    <3> DEFINE on == Live(t).state = "running"
               p == IF on THEN "stopPrevious" ELSE "removePrevious"
    <3>1. Live(t).id \in Nat /\ on \in BOOLEAN
      BY <2>1, <2>5 DEF Container
    <3>2. task' = [task EXCEPT ![t] = r(Live(t).id, on, p)]
      BY <1>0, <2>5
    <3> QED
      BY <2>4, <2>5, <3>1, <3>2
  <2>6. CASE /\ task' = [task EXCEPT ![t].pc = "resolveImage", ![t].id = 0, ![t].on = FALSE]
             /\ UNCHANGED preparations
    <3>1. task' = [task EXCEPT ![t] = r(0, FALSE, "resolveImage")]
      BY <1>0, <2>6
    <3> QED
      BY <2>4, <2>6, <3>1
  <2> QED
    BY <1>15, <2>3, <2>5, <2>6 DEF FindPrevious
<1>16. CASE StopPrevious(t)
  BY <1>16, HeldContinue DEF StopPrevious, At, HoldsDefinition, TaskStep
<1>17. CASE RemovePrevious(t)
  BY <1>17, HeldContinue DEF RemovePrevious, At, HoldsDefinition, TaskStep
<1>18. CASE StoreReplaced(t)
  BY <1>18, HeldContinue DEF StoreReplaced, At, HoldsDefinition, TaskStep
<1>19. CASE StartReplaced(t)
  BY <1>19 DEF StartReplaced, At, TaskStep
<1>20. CASE Locate(t)
  <2>1. At(t, "locate") /\ k.name \in Names /\ ~At(t, "idle") /\ k.mode \in Modes
    BY <1>20, <1>0 DEF Locate, At, Shape
  <2>2. ASSUME NEW r \in TaskRecord, Shape(r), r.name = k.name, GoOrFinish(t, r)
        PROVE  TaskStep(t)
    BY <2>1, <2>2, RecordMoves DEF GoOrFinish, TaskStep
  <2>3. ASSUME NEW h \in Hosts, engine[h][k.name] # None,
               GoOrFinish(t, [[k EXCEPT !.host = h, !.id = engine[h][k.name].id,
                                 !.on = engine[h][k.name].state = "running",
                                 !.cfg = [host |-> h, ver |-> engine[h][k.name].ver]]
                 EXCEPT !.pc = AfterLocate([k EXCEPT !.host = h, !.id = engine[h][k.name].id,
                                 !.on = engine[h][k.name].state = "running",
                                 !.cfg = [host |-> h, ver |-> engine[h][k.name].ver]])])
        PROVE  TaskStep(t)
    <3> DEFINE c == engine[h][k.name]
               found == [k EXCEPT !.host = h, !.id = c.id, !.on = c.state = "running",
                                  !.cfg = [host |-> h, ver |-> c.ver]]
               r == [found EXCEPT !.pc = AfterLocate(found)]
    <3>1. c \in Container
      BY <2>1, <2>3 DEF IInv, TypeOK
    <3>2. AfterLocate(found) \in PCs \ {"locate"}
      BY DEF AfterLocate, PCs
    <3>3. c.id \in Nat /\ c.ver \in Versions /\ (c.state = "running") \in BOOLEAN
      BY <3>1 DEF Container
    <3>4. [host |-> h, ver |-> c.ver] \in Definition
      BY <3>3 DEF Definition
    <3>5. r \in TaskRecord /\ r.name = k.name
      BY <1>0, <3>2, <3>3, <3>4 DEF TaskRecord
    <3>6. r.host = h /\ r.cfg \in Definition /\ r.mode = k.mode
      BY <1>0, <3>4 DEF TaskRecord
    <3>7. Shape(r)
      BY <2>1, <3>5, <3>6 DEF Shape
    <3> QED
      BY <2>2, <2>3, <3>5, <3>7
  <2>4. ASSUME k.host # None,
               GoOrFinish(t, [k EXCEPT !.id = 0, !.on = FALSE,
                                !.pc = AfterLocate([k EXCEPT !.id = 0, !.on = FALSE])])
        PROVE  TaskStep(t)
    <3> DEFINE r == [k EXCEPT !.id = 0, !.on = FALSE,
                              !.pc = AfterLocate([k EXCEPT !.id = 0, !.on = FALSE])]
    <3>1. AfterLocate([k EXCEPT !.id = 0, !.on = FALSE]) \in
            {"idle", "loadConfig", "dropVolume", "forget"}
      BY <1>0, <2>1 DEF AfterLocate, TaskRecord, Modes
    <3>2. r \in TaskRecord /\ r.name = k.name /\ r.id = 0 /\ r.host \in Hosts /\ r.mode = k.mode
      BY <1>0, <2>4, <3>1 DEF TaskRecord, PCs
    <3>3. Shape(r)
      BY <1>0, <2>1, <3>1, <3>2 DEF Shape, HoldsDefinition, TaskRecord
    <3> QED
      BY <2>2, <2>4, <3>2, <3>3
  <2>5. hosts \subseteq Hosts /\ (k.host # None => k.host \in Hosts)
    BY <1>0 DEF IInv, TypeOK, TaskRecord
  <2> QED
    BY <1>20, <2>1, <2>3, <2>4, <2>5 DEF Locate, TaskStep
<1>21. CASE LoadConfig(t)
  <2>1. ~At(t, "idle") /\ k.name \in Names /\ k.host \in Hosts /\ k.mode \in Modes
        /\ (k.id # 0 => k.cfg \in Definition)
    BY <1>21, <1>0 DEF LoadConfig, At, Shape
  <2>2. config[k.name] \in Definition \cup {None}
    BY <2>1 DEF IInv, TypeOK
  <2>3. Gate(t, k) \in HoldsDefinition
    BY GateHeld
  <2> DEFINE stored == [k EXCEPT !.cfg = config[k.name], !.pc = Gate(t, k)]
             orphan == [k EXCEPT !.pc = "checkAdopt"]
             again == [k EXCEPT !.pc = "locate", !.host = None]
  <2>4. config[k.name] # None => stored \in TaskRecord /\ Shape(stored)
                              /\ stored.pc # "idle" /\ stored.name = k.name
    BY <1>0, <2>1, <2>2, <2>3 DEF Shape, HoldsDefinition, TaskRecord, PCs
  <2>5. k.id # 0 => orphan \in TaskRecord /\ Shape(orphan)
                 /\ orphan.pc # "idle" /\ orphan.name = k.name
    BY <1>0, <2>1 DEF Shape, HoldsDefinition, TaskRecord, PCs
  <2>6. again \in TaskRecord /\ Shape(again) /\ again.pc # "idle" /\ again.name = k.name
    BY <1>0, <2>1 DEF Shape, HoldsDefinition, TaskRecord, PCs
  <2>7. /\ UNCHANGED preparations
        /\ \/ config[k.name] # None /\ task' = [task EXCEPT ![t] = stored]
           \/ k.id # 0 /\ task' = [task EXCEPT ![t] = orphan]
           \/ task' = [task EXCEPT ![t] = again]
    BY <1>21 DEF LoadConfig
  <2> QED
    BY <2>1, <2>4, <2>5, <2>6, <2>7, RecordMoves DEF TaskStep
<1>22. CASE CheckAdopt(t)
  <2>1. At(t, "checkAdopt") /\ ~At(t, "idle") /\ k.pc \in HoldsDefinition
    BY <1>22 DEF CheckAdopt, At, HoldsDefinition
  <2>2. CASE GoOrFinish(t, Adopted(t, k))
    BY <2>1, <2>2, AdoptedMoves DEF At, TaskStep
  <2>3. CASE Continue(t, "storeAdopted")
    BY <2>1, <2>3, HeldContinue DEF TaskStep, HoldsDefinition
  <2> QED
    BY <1>22, <2>2, <2>3 DEF CheckAdopt
<1>23. CASE StoreAdopted(t)
  <2>1. At(t, "storeAdopted") /\ ~At(t, "idle") /\ k.pc \in HoldsDefinition
    BY <1>23 DEF StoreAdopted, At, HoldsDefinition
  <2>2. CASE GoOrFinish(t, Adopted(t, k))
    BY <2>1, <2>2, AdoptedMoves DEF At, TaskStep
  <2>3. CASE Finish(t)
    BY <2>1, <2>3 DEF TaskStep
  <2> QED
    BY <1>23, <2>2, <2>3 DEF StoreAdopted
<1>24. CASE StartExisting(t)
  BY <1>24 DEF StartExisting, At, TaskStep
<1>25. CASE StopContainer(t)
  BY <1>25 DEF StopContainer, At, TaskStep
<1>26. CASE RestartContainer(t)
  BY <1>26 DEF RestartContainer, At, TaskStep
<1>27. CASE StopToRemove(t)
  BY <1>27, HostContinue DEF StopToRemove, At, TaskStep
<1>28. CASE RemoveContainer(t)
  BY <1>28, HostContinue DEF RemoveContainer, At, TaskStep
<1>29. CASE DropVolume(t)
  BY <1>29, HostContinue DEF DropVolume, At, TaskStep
<1>30. CASE Forget(t)
  BY <1>30 DEF Forget, At, TaskStep
<1> QED
  BY <1>1, <1>2, <1>3, <1>4, <1>5, <1>6, <1>7, <1>8, <1>9, <1>10, <1>11, <1>12, <1>13, <1>14, <1>15, <1>16, <1>17, <1>18, <1>19, <1>20, <1>21, <1>22, <1>23, <1>24, <1>25, <1>26, <1>27, <1>28, <1>29, <1>30 DEF Step

-----------------------------------------------------------------------------
\* TypeOK without the tasks and the preparations map.
DataOK ==
  /\ config \in [Names -> Definition \cup {None}]
  /\ hosts \subseteq Hosts
  /\ engine \in [Hosts -> [Names -> Container \cup {None}]]
  /\ volume \in [Hosts -> [Names -> Nat \cup {None}]]
  /\ built \in [Hosts -> SUBSET Images]
  /\ synced \in [Hosts -> BOOLEAN]
  /\ nextId \in Nat /\ calls \in Nat /\ faults \in Nat /\ crashes \in Nat

\* A task past its first await may set the container of its name on its host.
LEMMA SetLiveTyped ==
  ASSUME IInv, NEW t \in Tasks, task[t].pc \notin {"idle", "locate", "forget"},
         NEW c \in Container \cup {None}, SetLive(t, c)
  PROVE  engine' \in [Hosts -> [Names -> Container \cup {None}]]
<1>1. task[t].host \in Hosts /\ task[t].name \in Names
  BY DEF IInv, Shaped, Shape
<1> QED
  BY <1>1 DEF SetLive, IInv, TypeOK

\* and the workspace volume of that name
LEMMA SetVolumeTyped ==
  ASSUME IInv, NEW t \in Tasks, task[t].pc \notin {"idle", "locate", "forget"},
         NEW v \in Nat \cup {None}, SetVolume(t, v)
  PROVE  volume' \in [Hosts -> [Names -> Nat \cup {None}]]
<1>1. task[t].host \in Hosts /\ task[t].name \in Names
  BY DEF IInv, Shaped, Shape
<1> QED
  BY <1>1 DEF SetVolume, IInv, TypeOK

\* What such a task sees is a container and a volume, or none.
LEMMA SeenTyped ==
  ASSUME IInv, NEW t \in Tasks, task[t].pc \notin {"idle", "locate", "forget"}
  PROVE  Live(t) \in Container \cup {None} /\ Volume(t) \in Nat \cup {None}
<1>1. task[t].host \in Hosts /\ task[t].name \in Names
  BY DEF IInv, Shaped, Shape
<1> QED
  BY <1>1 DEF Live, Volume, IInv, TypeOK

\* Starting a container leaves a container, and its volume.
LEMMA RunLiveTyped ==
  ASSUME IInv, NEW t \in Tasks, task[t].pc \notin {"idle", "locate", "forget"},
         StillThere(t), RunLive(t)
  PROVE  /\ engine' \in [Hosts -> [Names -> Container \cup {None}]]
         /\ volume' \in [Hosts -> [Names -> Nat \cup {None}]]
         /\ UNCHANGED nextId
<1>1. Live(t) \in Container /\ Volume(t) \in Nat \cup {None}
  BY SeenTyped DEF StillThere
<1>2. [Live(t) EXCEPT !.state = "running"] \in Container
  BY <1>1 DEF Container
<1>3. (IF Volume(t) = 0 THEN Live(t).id ELSE Volume(t)) \in Nat \cup {None}
  BY <1>1 DEF Container
<1> QED
  BY <1>2, <1>3, SetLiveTyped, SetVolumeTyped DEF RunLive

\* Stopping or removing one leaves a container, or none.
LEMMA StopLiveTyped ==
  ASSUME IInv, NEW t \in Tasks, task[t].pc \notin {"idle", "locate", "forget"},
         StopLive(t) \/ RemoveLive(t)
  PROVE  engine' \in [Hosts -> [Names -> Container \cup {None}]]
<1>1. Live(t) # None => [Live(t) EXCEPT !.state = "exited"] \in Container
  BY SeenTyped DEF Container
<1> QED
  BY <1>1, SetLiveTyped DEF StopLive, RemoveLive, StillThere, IInv, TypeOK

\* A task that holds its definition may store it.
LEMMA PutConfigTyped ==
  ASSUME IInv, NEW t \in Tasks, task[t].pc \in HoldsDefinition, PutConfig(t)
  PROVE  config' \in [Names -> Definition \cup {None}]
<1>1. task[t].name \in Names /\ task[t].cfg \in Definition
  BY DEF IInv, Shaped, Shape, HoldsDefinition
<1> QED
  BY <1>1 DEF PutConfig, IInv, TypeOK

\* A step of a task keeps stored definitions, engines and bounds well typed.
LEMMA StepData ==
  ASSUME IInv, NEW t \in Tasks, Step(t)
  PROVE  DataOK'
<1> DEFINE k == task[t]
<1>0. k \in TaskRecord /\ Shape(k) /\ DataOK
  BY DEF IInv, TypeOK, Shaped, DataOK
<1>f. Fine \/ Fault => faults' \in Nat
  BY <1>0 DEF DataOK, Fine, Fault
<1>1. CASE CheckName(t)
  BY <1>0, <1>f, <1>1 DEF CheckName, DataOK, engineVars, hostVars, boundVars
<1>2. CASE CheckHost(t)
  BY <1>0, <1>f, <1>2 DEF CheckHost, DataOK, engineVars, hostVars, boundVars
<1>3. CASE StoreAndPrepare(t)
  BY <1>0, <1>f, <1>3, PutConfigTyped DEF StoreAndPrepare, At, HoldsDefinition, DataOK, engineVars, hostVars, boundVars
<1>4. CASE StartPreparing(t)
  BY <1>0, <1>f, <1>4 DEF StartPreparing, DataOK, engineVars, hostVars, boundVars
<1>5. CASE AwaitBuild(t)
  <2>1. k.cfg \in Definition /\ ImageOf[k.cfg.ver] \in Images
    BY <1>0, <1>5, ConstantsAssumption DEF AwaitBuild, At, Shape, HoldsDefinition, Definition
  <2> QED
    BY <1>0, <1>f, <1>5, <2>1 DEF AwaitBuild, DataOK, engineVars, boundVars
<1>6. CASE AwaitSync(t)
  BY <1>0, <1>f, <1>6 DEF AwaitSync, DataOK, engineVars, boundVars
<1>7. CASE ResolveImage(t)
  <2>1. k.cfg \in Definition /\ ImageOf[k.cfg.ver] \in Images
    BY <1>0, <1>7, ConstantsAssumption DEF ResolveImage, At, Shape, HoldsDefinition, Definition
  <2> QED
    BY <1>0, <1>f, <1>7, <2>1 DEF ResolveImage, DataOK, engineVars, boundVars
<1>8. CASE ListVolumes(t)
  BY <1>0, <1>f, <1>8 DEF ListVolumes, DataOK, engineVars, hostVars, boundVars
<1>9. CASE CreateVolume(t)
  BY <1>0, <1>f, <1>9, SetVolumeTyped DEF CreateVolume, At, VolumeEnsured, DataOK, engineVars, hostVars, boundVars
<1>10. CASE CreateContainer(t)
  <2>1. k.cfg.ver \in Versions /\ nextId \in Nat
    BY <1>0, <1>10 DEF CreateContainer, At, Shape, HoldsDefinition, Definition, DataOK
  <2>2. [id |-> nextId, ver |-> k.cfg.ver, state |-> "created"] \in Container
    BY <2>1 DEF Container
  <2>3. VolumeEnsured(t) => volume' \in [Hosts -> [Names -> Nat \cup {None}]]
    BY <1>0, <1>10, SetVolumeTyped DEF CreateContainer, At, VolumeEnsured, DataOK
  <2>4. SetLive(t, [id |-> nextId, ver |-> k.cfg.ver, state |-> "created"])
          => engine' \in [Hosts -> [Names -> Container \cup {None}]]
    BY <1>10, <2>2, SetLiveTyped DEF CreateContainer, At
  <2> QED
    BY <1>0, <1>f, <1>10, <2>1, <2>3, <2>4 DEF CreateContainer, DataOK, engineVars, hostVars, boundVars
<1>11. CASE StartNew(t)
  BY <1>0, <1>f, <1>11, RunLiveTyped DEF StartNew, At, DataOK, engineVars, hostVars, boundVars
<1>12. CASE StoreNew(t)
  BY <1>0, <1>f, <1>12, PutConfigTyped DEF StoreNew, At, HoldsDefinition, DataOK, engineVars, hostVars, boundVars
<1>13. CASE RemoveNew(t)
  BY <1>0, <1>f, <1>13, SetLiveTyped DEF RemoveNew, At, DataOK, engineVars, hostVars, boundVars
<1>14. CASE DropFresh(t)
  BY <1>0, <1>f, <1>14, SetVolumeTyped DEF DropFresh, At, DataOK, engineVars, hostVars, boundVars
<1>15. CASE FindPrevious(t)
  BY <1>0, <1>f, <1>15 DEF FindPrevious, DataOK, engineVars, hostVars, boundVars
<1>16. CASE StopPrevious(t)
  BY <1>0, <1>f, <1>16, StopLiveTyped DEF StopPrevious, At, DataOK, engineVars, hostVars, boundVars
<1>17. CASE RemovePrevious(t)
  BY <1>0, <1>f, <1>17, StopLiveTyped DEF RemovePrevious, At, DataOK, engineVars, hostVars, boundVars
<1>18. CASE StoreReplaced(t)
  BY <1>0, <1>f, <1>18, PutConfigTyped DEF StoreReplaced, At, HoldsDefinition, DataOK, engineVars, hostVars, boundVars
<1>19. CASE StartReplaced(t)
  BY <1>0, <1>f, <1>19, RunLiveTyped DEF StartReplaced, At, DataOK, engineVars, hostVars, boundVars
<1>20. CASE Locate(t)
  BY <1>0, <1>f, <1>20 DEF Locate, DataOK, engineVars, hostVars, boundVars
<1>21. CASE LoadConfig(t)
  BY <1>0, <1>f, <1>21 DEF LoadConfig, DataOK, engineVars, hostVars, boundVars
<1>22. CASE CheckAdopt(t)
  BY <1>0, <1>f, <1>22 DEF CheckAdopt, DataOK, engineVars, hostVars, boundVars
<1>23. CASE StoreAdopted(t)
  BY <1>0, <1>f, <1>23, PutConfigTyped DEF StoreAdopted, At, HoldsDefinition, DataOK, engineVars, hostVars, boundVars
<1>24. CASE StartExisting(t)
  BY <1>0, <1>f, <1>24, RunLiveTyped DEF StartExisting, At, DataOK, engineVars, hostVars, boundVars
<1>25. CASE StopContainer(t)
  BY <1>0, <1>f, <1>25, StopLiveTyped DEF StopContainer, At, DataOK, engineVars, hostVars, boundVars
<1>26. CASE RestartContainer(t)
  BY <1>0, <1>f, <1>26, RunLiveTyped DEF RestartContainer, At, DataOK, engineVars, hostVars, boundVars
<1>27. CASE StopToRemove(t)
  BY <1>0, <1>f, <1>27, StopLiveTyped DEF StopToRemove, At, DataOK, engineVars, hostVars, boundVars
<1>28. CASE RemoveContainer(t)
  BY <1>0, <1>f, <1>28, StopLiveTyped DEF RemoveContainer, At, DataOK, engineVars, hostVars, boundVars
<1>29. CASE DropVolume(t)
  BY <1>0, <1>f, <1>29, SetVolumeTyped DEF DropVolume, At, DataOK, engineVars, hostVars, boundVars
<1>30. CASE Forget(t)
  BY <1>0, <1>f, <1>30 DEF Forget, At, Shape, DataOK, engineVars, hostVars, boundVars
<1> QED
  BY <1>1, <1>2, <1>3, <1>4, <1>5, <1>6, <1>7, <1>8, <1>9, <1>10, <1>11, <1>12, <1>13, <1>14, <1>15, <1>16, <1>17, <1>18, <1>19, <1>20, <1>21, <1>22, <1>23, <1>24, <1>25, <1>26, <1>27, <1>28, <1>29, <1>30 DEF Step

-----------------------------------------------------------------------------
\* Ending a task, or handing it to a preparation, keeps every task well shaped.
LEMMA TaskStepTyped ==
  ASSUME IInv, NEW t \in Tasks, TaskStep(t)
  PROVE  /\ task' \in [Tasks -> TaskRecord]
         /\ Shaped'
         /\ preparations' \subseteq Names
<1>0. Idle \in TaskRecord /\ Shape(Idle) /\ task \in [Tasks -> TaskRecord]
      /\ preparations \subseteq Names
  BY DEF Idle, TaskRecord, Shape, HoldsDefinition, PCs, IInv, TypeOK
<1>1. CASE Moves(t)
  BY <1>0, <1>1 DEF Moves, Shaped, IInv
<1>2. CASE Finish(t)
  BY <1>0, <1>2 DEF Finish, Shaped, IInv
<1>3. ASSUME NEW m \in Modes, Prepare(t, m), task[t].pc \in {"store", "prepare"},
             task[t].name \notin preparations
      PROVE  /\ task' \in [Tasks -> TaskRecord]
             /\ Shaped'
             /\ preparations' \subseteq Names
  <2> DEFINE k == task[t]
             r == [Idle EXCEPT !.pc = "awaitJobs", !.mode = m, !.name = k.name,
                     !.host = k.host, !.cfg = k.cfg, !.need = k.need]
  <2>1. PICK w \in Runners : /\ preparations' = preparations \cup {k.name}
                             /\ task' = [task EXCEPT ![t] = Idle, ![w] = r]
    BY <1>3 DEF Prepare
  <2>2. k \in TaskRecord /\ Shape(k) /\ w \in Tasks
    BY DEF IInv, TypeOK, Shaped, Tasks
  <2>3. k.name \in Names /\ k.host \in Hosts /\ k.cfg \in Definition
    BY <1>3, <2>2 DEF Shape, HoldsDefinition
  <2>4. r \in TaskRecord /\ Shape(r)
    BY <2>2, <2>3 DEF Idle, TaskRecord, Shape, HoldsDefinition, PCs
  <2> QED
    BY <1>0, <2>1, <2>2, <2>3, <2>4 DEF Shaped, IInv
<1>4. ASSUME NEW m \in Modes, Prepare(t, m), task[t].name \in preparations
      PROVE  Finish(t)
  BY <1>4 DEF Prepare
<1> QED
  BY <1>1, <1>2, <1>3, <1>4 DEF TaskStep

\* A call that is accepted puts a well shaped record in its slot.
LEMMA CallTyped ==
  ASSUME IInv, NEW t \in Tasks, NEW kind, NEW k \in TaskRecord, Shape(k),
         Call(t, kind, k)
  PROVE  IInv'
<1>1. task' = [task EXCEPT ![t] = k] /\ calls' = calls + 1
      /\ UNCHANGED <<config, preparations, engineVars, hostVars, faults, crashes>>
  BY DEF Call
<1>2. task' \in [Tasks -> TaskRecord] /\ Shaped'
  BY <1>1 DEF Shaped, IInv, TypeOK
<1> QED
  BY <1>1, <1>2 DEF IInv, TypeOK, engineVars, hostVars

\* A call of the API starts from typed records.
LEMMA ApiTyped ==
  ASSUME IInv, NEW t \in Requests, Api(t)
  PROVE  IInv'
<1>0. t \in Tasks /\ \A n \in Names : config[n] \in Definition \cup {None}
  BY DEF Tasks, IInv, TypeOK
<1>1. ASSUME NEW n \in Names, NEW h \in Hosts, NEW v \in Versions, CallCreate(t, n, h, v)
      PROVE  IInv'
  <2> DEFINE k == [Idle EXCEPT !.pc = "checkName", !.mode = "create", !.name = n,
                     !.host = h, !.cfg = [host |-> h, ver |-> v]]
  <2>1. [host |-> h, ver |-> v] \in Definition
    BY DEF Definition
  <2>2. k \in TaskRecord /\ Shape(k)
    BY <2>1 DEF Idle, TaskRecord, Shape, HoldsDefinition, PCs, Modes
  <2> QED
    BY <1>0, <1>1, <2>2, CallTyped DEF CallCreate
<1>2. ASSUME NEW n \in Names, NEW v \in Versions \cup {None}, CallReplace(t, n, v)
      PROVE  IInv'
  <2> DEFINE cfg == IF v = None THEN config[n] ELSE [config[n] EXCEPT !.ver = v]
             k == [Idle EXCEPT !.pc = "checkHost", !.mode = "replace", !.name = n,
                     !.host = config[n].host, !.input = v, !.cfg = cfg]
  <2>1. config[n].host \in Hosts /\ cfg \in Definition
    BY <1>0, <1>2 DEF CallReplace, Definition
  <2>2. k \in TaskRecord /\ Shape(k)
    BY <2>1 DEF Idle, TaskRecord, Shape, HoldsDefinition, PCs, Modes
  <2> QED
    BY <1>0, <1>2, <2>2, CallTyped DEF CallReplace
<1>3. ASSUME NEW n \in Names, NEW mode \in Modes, NEW v \in Versions \cup {None},
             NEW vols \in BOOLEAN, CallLocated(t, n, mode, v, vols)
      PROVE  IInv'
  <2> DEFINE k == [Idle EXCEPT !.pc = "locate", !.mode = mode, !.name = n,
                     !.host = LocateFrom(n), !.input = v, !.vols = vols]
  <2>1. LocateFrom(n) \in Hosts \cup {None}
    BY <1>0 DEF LocateFrom, Definition
  <2>2. k \in TaskRecord /\ Shape(k)
    BY <2>1 DEF Idle, TaskRecord, Shape, HoldsDefinition, PCs, Modes
  <2> QED
    BY <1>0, <1>3, <2>2, CallTyped DEF CallLocated
<1>4. ASSUME NEW n \in Names, CallRemoveDangling(t, n)
      PROVE  IInv'
  <2> DEFINE k == [Idle EXCEPT !.pc = "forget", !.mode = "remove", !.name = n]
  <2>1. k \in TaskRecord /\ Shape(k)
    BY DEF Idle, TaskRecord, Shape, HoldsDefinition, PCs, Modes
  <2> QED
    BY <1>0, <1>4, <2>1, CallTyped DEF CallRemoveDangling
<1>5. ASSUME NEW n \in Names, NEW h \in Hosts, CallReconcile(t, n, h)
      PROVE  IInv'
  <2> DEFINE k == [Idle EXCEPT !.pc = "checkAdopt", !.mode = "adopt", !.name = n,
                     !.host = h, !.cfg = [host |-> h, ver |-> engine[h][n].ver]]
  <2>1. [host |-> h, ver |-> engine[h][n].ver] \in Definition
    BY <1>5 DEF CallReconcile, Definition, Container, IInv, TypeOK
  <2>2. k \in TaskRecord /\ Shape(k)
    BY <2>1 DEF Idle, TaskRecord, Shape, HoldsDefinition, PCs, Modes
  <2> QED
    BY <1>0, <1>5, <2>2, CallTyped DEF CallReconcile
<1> QED
  BY <1>1, <1>2, <1>3, <1>4, <1>5 DEF Api, Modes

-----------------------------------------------------------------------------
\* IInv holds at boot and every step keeps it.
LEMMA Inductive ==
  /\ Init => IInv
  /\ IInv /\ [Next]_vars => IInv'
<1>1. Init => IInv
  <2> SUFFICES ASSUME Init PROVE IInv
    OBVIOUS
  <2>1. Idle \in TaskRecord /\ Shape(Idle)
    BY DEF Idle, TaskRecord, Shape, HoldsDefinition, PCs
  <2> QED
    BY <2>1 DEF Init, IInv, TypeOK, Shaped
<1>2. ASSUME IInv, NEW t \in Tasks, Step(t)
      PROVE  IInv'
  <2>1. TaskStep(t) /\ DataOK'
    BY <1>2, StepTasks, StepData
  <2> QED
    BY <1>2, <2>1, TaskStepTyped DEF IInv, TypeOK, DataOK
<1>3. ASSUME IInv, NEW h \in Hosts, DeleteHost(h)
      PROVE  IInv'
  BY <1>3 DEF IInv, TypeOK, Shaped, DeleteHost, engineVars, boundVars
<1>4. ASSUME IInv, Restart
      PROVE  IInv'
  <2>1. Idle \in TaskRecord /\ Shape(Idle)
    BY DEF Idle, TaskRecord, Shape, HoldsDefinition, PCs
  <2> QED
    BY <1>4, <2>1 DEF IInv, TypeOK, Shaped, Restart, engineVars, hostVars
<1>5. ASSUME IInv, UNCHANGED vars
      PROVE  IInv'
  BY <1>5 DEF IInv, TypeOK, Shaped, vars
<1>6. IInv /\ [Next]_vars => IInv'
  BY <1>2, <1>3, <1>4, <1>5, ApiTyped DEF Next, Rest
<1> QED
  BY <1>1, <1>6

\* Every variable keeps its type: whatever calls interleave, fail or are cut
\* off by a restart, what is stored is a definition a user submitted, never the
\* body of a request or the unset local of a task.
THEOREM Typing == Spec => []TypeOK
<1>1. IInv => TypeOK
  BY DEF IInv
<1> QED
  BY <1>1, Inductive, PTL DEF Spec

-----------------------------------------------------------------------------
\* What a step does to the preparations map: nothing, unless a task ends or
\* hands over; a runner that ends takes its name out.
LEMMA StepExclusive ==
  ASSUME IInv, PreparationExclusive, NEW t \in Tasks, TaskStep(t)
  PROVE  PreparationExclusive'
<1> DEFINE k == task[t]
<1>0. task \in [Tasks -> TaskRecord] /\ Requests \cap Runners = {}
      /\ Tasks = Requests \cup Runners /\ k.pc # "idle" /\ Runners \subseteq Tasks
  BY ConstantsAssumption DEF IInv, TypeOK, Tasks, TaskStep, At
<1>1. CASE Moves(t)
  <2>1. PICK r \in TaskRecord : /\ r.pc # "idle" /\ r.name = k.name
                                /\ task' = [task EXCEPT ![t] = r]
                                /\ preparations' = preparations
    BY <1>1 DEF Moves
  <2>2. \A w \in Runners : task'[w].name = task[w].name /\ (At(w, "idle")' <=> At(w, "idle"))
    BY <1>0, <2>1 DEF At
  <2> QED
    BY <2>1, <2>2 DEF PreparationExclusive
<1>2. CASE Finish(t)
  <2>1. \A w \in Runners : w # t => task'[w] = task[w]
    BY <1>0, <1>2 DEF Finish
  <2>2. task'[t].pc = "idle"
    BY <1>0, <1>2 DEF Finish, Idle
  <2>3. CASE t \in Runners
    <3>1. preparations' = preparations \ {k.name}
      BY <1>2, <2>3 DEF Finish
    <3>2. \A w \in Runners : w # t /\ task[w].pc # "idle" => task[w].name # k.name
      BY <1>0, <2>3 DEF PreparationExclusive, At
    <3> QED
      BY <1>0, <2>1, <2>2, <2>3, <3>1, <3>2 DEF PreparationExclusive, At
  <2>4. CASE t \notin Runners
    BY <1>0, <1>2, <2>1, <2>4 DEF Finish, PreparationExclusive, At
  <2> QED
    BY <2>3, <2>4
<1>3. ASSUME NEW m \in Modes, Prepare(t, m), ~Finish(t)
      PROVE  PreparationExclusive'
  <2>1. k.name \notin preparations
    BY <1>3 DEF Prepare
  <2>2. t \notin Runners
    BY <1>0, <2>1 DEF PreparationExclusive, At
  <2> DEFINE r == [Idle EXCEPT !.pc = "awaitJobs", !.mode = m, !.name = k.name,
                     !.host = k.host, !.cfg = k.cfg, !.need = k.need]
  <2>3. PICK w \in Runners : /\ At(w, "idle")
                             /\ preparations' = preparations \cup {k.name}
                             /\ task' = [task EXCEPT ![t] = Idle, ![w] = r]
    BY <1>3, <2>1 DEF Prepare
  <2>4. r.pc = "awaitJobs" /\ r.name = k.name
    BY DEF Idle
  <2>5. \A v \in Runners : v # w => task'[v] = task[v]
    BY <1>0, <2>2, <2>3
  <2>w. task'[w] = r
    BY <1>0, <2>2, <2>3
  <2>6. /\ task'[w].pc # "idle" /\ task'[w].name = k.name /\ task[w].pc = "idle"
        /\ preparations' = preparations \cup {k.name}
    BY <2>3, <2>4, <2>w DEF At
  <2> HIDE DEF r
  <2>7. \A v \in Runners : task'[v].pc # "idle" => task'[v].name \in preparations'
    BY <2>5, <2>6 DEF PreparationExclusive, At
  <2>8. \A u, v \in Runners : task'[u].pc # "idle" /\ task'[v].pc # "idle"
                               /\ task'[u].name = task'[v].name => u = v
    <3>1. \A v \in Runners : v # w /\ task'[v].pc # "idle" => task'[v].name # k.name
      BY <2>1, <2>5 DEF PreparationExclusive, At
    <3>2. \A u, v \in Runners : task[u].pc # "idle" /\ task[v].pc # "idle"
                                 /\ task[u].name = task[v].name => u = v
      BY DEF PreparationExclusive, At
    <3> QED
      BY <2>5, <2>6, <3>1, <3>2
  <2>9. ASSUME NEW n \in preparations'
        PROVE  \E v \in Runners : task'[v].pc # "idle" /\ task'[v].name = n
    <3>1. CASE n = k.name
      BY <2>6, <3>1
    <3>2. CASE n \in preparations
      <4>1. PICK v \in Runners : task[v].pc # "idle" /\ task[v].name = n
        BY <3>2 DEF PreparationExclusive, At
      <4> QED
        BY <4>1, <2>5, <2>6
    <3> QED
      BY <2>6, <2>9, <3>1, <3>2
  <2> QED
    BY <2>7, <2>8, <2>9 DEF PreparationExclusive, At
<1> QED
  BY <1>1, <1>2, <1>3 DEF TaskStep

\* A second click never starts a second preparation of the same container, and
\* a preparation that ended, failed or not, never blocks the next Start.
THEOREM Exclusion == Spec => []PreparationExclusive
<1> DEFINE J == IInv /\ PreparationExclusive
<1>1. Init => J
  BY Inductive DEF Init, PreparationExclusive, At, Idle, Tasks
<1>2. J /\ [Next]_vars => J'
  <2> SUFFICES ASSUME J, [Next]_vars PROVE PreparationExclusive'
    BY Inductive
  <2>1. ASSUME NEW t \in Requests, Api(t)
        PROVE  PreparationExclusive'
    <3>1. PICK k : task' = [task EXCEPT ![t] = k] /\ UNCHANGED preparations
      BY <2>1 DEF Api, Call, CallCreate, CallReplace, CallLocated, CallRemoveDangling,
                  CallReconcile
    <3>2. \A w \in Runners : task'[w] = task[w]
      BY <3>1, ConstantsAssumption DEF IInv, TypeOK, Tasks
    <3> QED
      BY <3>1, <3>2 DEF PreparationExclusive, At
  <2>2. ASSUME NEW t \in Tasks, Step(t)
        PROVE  PreparationExclusive'
    BY <2>2, StepTasks, StepExclusive
  <2>3. ASSUME NEW h \in Hosts, DeleteHost(h)
        PROVE  PreparationExclusive'
    BY <2>3 DEF DeleteHost, PreparationExclusive, At
  <2>4. CASE Restart
    BY <2>4 DEF Restart, PreparationExclusive, At, Idle, Tasks
  <2>5. CASE UNCHANGED vars
    BY <2>5 DEF vars, PreparationExclusive, At
  <2> QED
    BY <2>1, <2>2, <2>3, <2>4, <2>5 DEF Next, Rest
<1> QED
  BY <1>1, <1>2, PTL DEF Spec

-----------------------------------------------------------------------------
(* ReplaceOnlyWhenReady.  It speaks of the awaits at which a container is  *)
(* torn down; what it says of them was found out at awaits before (the     *)
(* probe of preparationSteps, the jobs of runPreparation), so the          *)
(* invariant says what is known there: a preparation that does not wait    *)
(* for a build has seen the image.                                         *)

Teardown == {"findPrevious", "stopPrevious", "removePrevious", "resolveImage"}

\* what is known of the host of a task k, images b, tools s and faults f
FitsIn(k, b, s, f) ==
  /\ k.pc = "loadConfig" => k.mode = "start"
  /\ k.mode = "replace" /\ k.pc \in {"store", "awaitJobs"} /\ "image" \notin k.need
       => ImageOf[k.cfg.ver] \notin Recipes \ b[k.host]
  /\ k.mode = "replace" /\ k.pc \in Teardown
       => /\ ImageOf[k.cfg.ver] \notin Recipes \ b[k.host]
          /\ f = 0 => s[k.host]

AllFit == \A t \in Tasks : FitsIn(task[t], built, synced, faults)

\* a record that fits what a step leaves
Fitted(r) == FitsIn(r, built', synced', faults')

\* the awaits at which FitsIn asks nothing
Elsewhere == PCs \ (Teardown \cup {"store", "awaitJobs", "loadConfig"})

MovesFitted(t) == \E r : task' = [task EXCEPT ![t] = r] /\ Fitted(r)

HandsOverFitted(t) ==
  \E w \in Runners :
    \E r : task' = [task EXCEPT ![t] = Idle, ![w] = r] /\ Fitted(r)

\* Images and tools are never taken away, and a fault is never forgotten.
Grows ==
  /\ \A h \in Hosts : built[h] \subseteq built'[h] /\ (synced[h] => synced'[h])
  /\ faults' = 0 => faults = 0

\* A task outside a teardown has nothing to fit.
LEMMA ElsewhereFits ==
  ASSUME NEW r, r.pc \in Elsewhere
  PROVE  Fitted(r)
BY DEF Elsewhere, Fitted, FitsIn, Teardown

\* What fitted a host before a step fits it after.
LEMMA StillFits ==
  ASSUME Grows, NEW k \in TaskRecord, Shape(k), FitsIn(k, built, synced, faults)
  PROVE  Fitted(k)
<1>1. k.mode = "replace" /\ k.pc \in Teardown \cup {"store", "awaitJobs"} => k.host \in Hosts
  BY DEF Shape, Teardown
<1> QED BY <1>1 DEF Fitted, FitsIn, Grows

\* A step of t that leaves it with a record that fits leaves every task with one.
LEMMA AllStillFit ==
  ASSUME IInv, AllFit, Grows, NEW t \in Tasks, MovesFitted(t) \/ HandsOverFitted(t)
  PROVE  AllFit'
<1>1. task \in [Tasks -> TaskRecord] /\ Runners \subseteq Tasks
  BY DEF IInv, TypeOK, Tasks
<1>2. \A u \in Tasks : Fitted(task[u])
  BY <1>1, StillFits DEF IInv, Shaped, AllFit
<1>3. Fitted(Idle)
  BY ElsewhereFits DEF Idle, Elsewhere, PCs, Teardown
<1>4. \A u \in Tasks : Fitted(task'[u])
  <2>1. CASE MovesFitted(t)
    BY <1>1, <1>2, <2>1 DEF MovesFitted
  <2>2. CASE HandsOverFitted(t)
    BY <1>1, <1>2, <1>3, <2>2 DEF HandsOverFitted
  <2> QED BY <2>1, <2>2
<1> QED BY <1>4 DEF AllFit, Fitted

\* A step of a task takes away no image, no sync and no fault.
LEMMA StepGrows ==
  ASSUME IInv, NEW t \in Tasks, Step(t)
  PROVE  Grows
<1>0. /\ faults \in Nat /\ built \in [Hosts -> SUBSET Images] /\ synced \in [Hosts -> BOOLEAN]
  BY DEF IInv, TypeOK
<1>1. faults' = faults \/ faults' = faults + 1
  BY DEF Step, CheckName, CheckHost, StoreAndPrepare, StartPreparing, AwaitBuild, AwaitSync,
     ResolveImage, ListVolumes, CreateVolume, CreateContainer, StartNew, StoreNew, RemoveNew,
     DropFresh, FindPrevious, StopPrevious, RemovePrevious, StoreReplaced, StartReplaced,
     Locate, LoadConfig, CheckAdopt, StoreAdopted, StartExisting, StopContainer,
     RestartContainer, StopToRemove, RemoveContainer, DropVolume, Forget, Fine, Fault
<1>2. \/ UNCHANGED <<built, synced>>
      \/ AwaitBuild(t) \/ AwaitSync(t) \/ ResolveImage(t)
  BY DEF Step, CheckName, CheckHost, StoreAndPrepare, StartPreparing,
     ListVolumes, CreateVolume, CreateContainer, StartNew, StoreNew, RemoveNew,
     DropFresh, FindPrevious, StopPrevious, RemovePrevious, StoreReplaced, StartReplaced,
     Locate, LoadConfig, CheckAdopt, StoreAdopted, StartExisting, StopContainer,
     RestartContainer, StopToRemove, RemoveContainer, DropVolume, Forget, hostVars
<1>3. \A h \in Hosts : built[h] \subseteq built'[h] /\ (synced[h] => synced'[h])
  <2>1. CASE UNCHANGED <<built, synced>>
    BY <2>1
  <2>2. CASE AwaitBuild(t)
    BY <1>0, <2>2 DEF AwaitBuild
  <2>3. CASE AwaitSync(t)
    BY <1>0, <2>3 DEF AwaitSync
  <2>4. CASE ResolveImage(t)
    BY <1>0, <2>4 DEF ResolveImage
  <2> QED BY <1>2, <2>1, <2>2, <2>3, <2>4
<1> QED BY <1>0, <1>1, <1>3 DEF Grows

-----------------------------------------------------------------------------
\* A task that goes on outside a teardown has nothing to fit either.
LEMMA ContinueFits ==
  ASSUME IInv, NEW t \in Tasks, NEW p \in Elsewhere, Continue(t, p)
  PROVE  MovesFitted(t)
<1> DEFINE r == [task[t] EXCEPT !.pc = p]
<1>1. task \in [Tasks -> TaskRecord]
  BY DEF IInv, TypeOK
<1>2. task' = [task EXCEPT ![t] = r] /\ r.pc = p
  BY <1>1 DEF Continue, TaskRecord
<1> HIDE DEF r
<1> QED BY <1>2, ElsewhereFits DEF MovesFitted

\* Nor has a task that ends.
LEMMA FinishFits ==
  ASSUME NEW t \in Tasks, Finish(t)
  PROVE  MovesFitted(t)
<1>1. Fitted(Idle)
  BY ElsewhereFits DEF Idle, Elsewhere, PCs, Teardown
<1> QED BY <1>1 DEF Finish, MovesFitted

\* A task that is torn down for goes on with what was known.
LEMMA TeardownContinues ==
  ASSUME IInv, AllFit, Grows, NEW t \in Tasks, task[t].pc \in Teardown,
         NEW r \in TaskRecord, r.mode = task[t].mode, r.host = task[t].host,
         r.cfg = task[t].cfg, r.pc # "loadConfig", r.pc \notin {"store", "awaitJobs"},
         task' = [task EXCEPT ![t] = r]
  PROVE  MovesFitted(t)
<1>1. Fitted(task[t])
  BY StillFits DEF IInv, TypeOK, Shaped, AllFit
<1> QED BY <1>1 DEF Fitted, FitsIn, MovesFitted

\* Back from loadConfig: a start never tears down, an edit is probed first.
LEMMA AdoptedFits ==
  ASSUME IInv, NEW t \in Tasks, ~At(t, "loadConfig"), GoOrFinish(t, Adopted(t, task[t]))
  PROVE  MovesFitted(t)
<1> DEFINE k == task[t]
           go == [k EXCEPT !.pc = Gate(t, k)]
           cfg == [k.cfg EXCEPT !.ver = IF k.input = None THEN @ ELSE k.input]
           again == [k EXCEPT !.pc = "checkHost", !.cfg = cfg]
<1>0. k \in TaskRecord
  BY DEF IInv, TypeOK
<1>1. CASE Finish(t)
  BY <1>1, FinishFits
<1>2. CASE k.mode = "start" /\ task' = [task EXCEPT ![t] = go]
  <2>1. go.mode = "start" /\ go.pc = Gate(t, k)
    BY <1>0, <1>2 DEF TaskRecord
  <2>2. Gate(t, k) \in HoldsDefinition
    BY GateHeld
  <2>3. Fitted(go)
    <3> HIDE DEF go
    <3> QED BY <2>1, <2>2 DEF Fitted, FitsIn, HoldsDefinition
  <2> QED BY <1>2, <2>3 DEF MovesFitted
<1>3. CASE task' = [task EXCEPT ![t] = again]
  <2>1. again.pc = "checkHost"
    BY <1>0 DEF TaskRecord
  <2>2. Fitted(again)
    <3> HIDE DEF again
    <3> QED BY <2>1, ElsewhereFits DEF Elsewhere, Teardown, PCs
  <2> QED BY <1>3, <2>2 DEF MovesFitted
<1>4. Finish(t) \/ task' = [task EXCEPT ![t] = Adopted(t, k)]
  BY DEF GoOrFinish
<1>5. \/ Adopted(t, k) = go /\ k.mode = "start"
      \/ Adopted(t, k) = again
      \/ Adopted(t, k) = [k EXCEPT !.pc = "idle"]
  <2>1. again = [k EXCEPT !.pc = "checkHost", !.cfg.ver = IF k.input = None THEN @ ELSE k.input]
    BY <1>0 DEF TaskRecord
  <2> QED BY <2>1 DEF Adopted
<1>6. Adopted(t, k) = [k EXCEPT !.pc = "idle"] => Finish(t)
  BY <1>0 DEF GoOrFinish, TaskRecord
<1> HIDE DEF go, again
<1> QED BY <1>1, <1>2, <1>3, <1>4, <1>5, <1>6

\* A caller of locate goes to an await where nothing is torn down for an edit.
LEMMA LocateFits ==
  ASSUME IInv, NEW t \in Tasks, Locate(t)
  PROVE  MovesFitted(t)
<1> DEFINE k == task[t]
<1>0. k \in TaskRecord
  BY DEF IInv, TypeOK
<1>1. ASSUME NEW r \in TaskRecord, r.mode = k.mode, GoOrFinish(t, [r EXCEPT !.pc = AfterLocate(r)])
      PROVE  MovesFitted(t)
  <2> DEFINE q == [r EXCEPT !.pc = AfterLocate(r)]
  <2>1. q.pc = AfterLocate(r) /\ q.mode = r.mode
    BY <1>1 DEF TaskRecord
  <2>2. AfterLocate(r) \in Elsewhere \/ (AfterLocate(r) = "loadConfig" /\ r.mode = "start")
    BY DEF AfterLocate, Elsewhere, Teardown, PCs
  <2> HIDE DEF q
  <2>3. Fitted(q)
    <3>1. CASE q.pc \in Elsewhere
      BY <3>1, ElsewhereFits
    <3>2. CASE q.pc = "loadConfig" /\ q.mode = "start"
      BY <3>2 DEF Fitted, FitsIn
    <3> QED BY <2>1, <2>2, <3>1, <3>2
  <2>4. Finish(t) \/ task' = [task EXCEPT ![t] = q]
    BY <1>1 DEF GoOrFinish, q
  <2> QED BY <2>3, <2>4, FinishFits DEF MovesFitted
<1>2. CASE Finish(t)
  BY <1>2, FinishFits
<1>3. ASSUME NEW h \in Hosts, engine[h][k.name] # None, k.name \in Names,
             LET c == engine[h][k.name]
                 found == [k EXCEPT !.host = h, !.id = c.id, !.on = c.state = "running",
                             !.cfg = [host |-> h, ver |-> c.ver]]
             IN  GoOrFinish(t, [found EXCEPT !.pc = AfterLocate(found)])
      PROVE  MovesFitted(t)
  <2> DEFINE c == engine[h][k.name]
             found == [k EXCEPT !.host = h, !.id = c.id, !.on = c.state = "running",
                         !.cfg = [host |-> h, ver |-> c.ver]]
  <2>1. c \in Container
    BY <1>3 DEF IInv, TypeOK
  <2>2. found \in TaskRecord /\ found.mode = k.mode
    BY <1>0, <2>1 DEF TaskRecord, Container, Definition
  <2>3. GoOrFinish(t, [found EXCEPT !.pc = AfterLocate(found)])
    BY <1>3
  <2> HIDE DEF found
  <2> QED BY <1>1, <2>2, <2>3
<1>4. CASE GoOrFinish(t, [k EXCEPT !.id = 0, !.on = FALSE,
                            !.pc = AfterLocate([k EXCEPT !.id = 0, !.on = FALSE])])
  <2> DEFINE r == [k EXCEPT !.id = 0, !.on = FALSE]
  <2>1. r \in TaskRecord /\ r.mode = k.mode
    BY <1>0 DEF TaskRecord
  <2>2. GoOrFinish(t, [r EXCEPT !.pc = AfterLocate(r)])
    BY <1>4
  <2> HIDE DEF r
  <2> QED BY <1>1, <2>1, <2>2
<1>5. k.name \in Names /\ (IF k.host = None THEN hosts ELSE {k.host}) \subseteq Hosts
  <2>1. Shape(k) /\ k.pc = "locate" /\ hosts \subseteq Hosts
    BY DEF IInv, TypeOK, Shaped, Locate, At
  <2> QED BY <1>0, <2>1 DEF Shape, TaskRecord
<1> QED BY <1>2, <1>3, <1>4, <1>5 DEF Locate

\* The probe: who is told that nothing is missing has an image that is built, and
\* synced tools unless the probe failed.
LEMMA ProbeFits ==
  ASSUME IInv, NEW t \in Tasks, CheckHost(t)
  PROVE  MovesFitted(t)
<1> DEFINE k == task[t]
           Seen == [k EXCEPT !.id = IF k.mode = "start" THEN k.id ELSE 0]
<1>0. k \in TaskRecord /\ k.pc = "checkHost" /\ faults \in Nat
      /\ UNCHANGED <<built, synced>>
  BY DEF IInv, TypeOK, CheckHost, At, hostVars
<1>1. PICK need \in {StepsNeeded(Seen)} \cup StepsMisread(Seen) :
        /\ IF need = StepsNeeded(Seen) THEN Fine ELSE Fault
        /\ task' = [task EXCEPT ![t].need = need,
                     ![t].pc = IF need = {} THEN Ready(k)
                               ELSE IF k.mode = "start" THEN "prepare"
                               ELSE "store"]
  BY Zenon DEF CheckHost
<1> DEFINE r == [k EXCEPT !.need = need,
                   !.pc = IF need = {} THEN Ready(k)
                          ELSE IF k.mode = "start" THEN "prepare" ELSE "store"]
<1>2. /\ task' = [task EXCEPT ![t] = r] /\ r.mode = k.mode /\ r.cfg = k.cfg
      /\ r.host = k.host /\ r.need = need
      /\ r.pc = IF need = {} THEN Ready(k)
                ELSE IF k.mode = "start" THEN "prepare" ELSE "store"
  BY <1>0, <1>1 DEF TaskRecord
<1>3. Ready(k) # "loadConfig" /\ Ready(k) \notin {"store", "awaitJobs"}
  BY GateHeld DEF Ready
<1>4. ASSUME k.mode = "replace"
      PROVE  /\ need = {} \/ "image" \notin need =>
                  ImageOf[k.cfg.ver] \notin Recipes \ built[k.host]
             /\ need = {} /\ faults' = 0 => synced[k.host]
  <2>1. Seen.id = 0 /\ Seen.cfg = k.cfg /\ Seen.host = k.host
    BY <1>0, <1>4 DEF TaskRecord
  <2> HIDE DEF Seen
  <2>2. Unbuilt(Seen) <=> ImageOf[k.cfg.ver] \in Recipes \ built[k.host]
    BY <2>1 DEF Unbuilt
  <2>3. need = {} \/ "image" \notin need => ~Unbuilt(Seen)
    BY <1>1 DEF StepsNeeded, StepsMisread, Needs
  <2>4. need = {} /\ faults' = 0 => synced[k.host]
    BY <1>0, <1>1, <2>1 DEF StepsNeeded, StepsMisread, Needs, Fault
  <2> QED BY <2>2, <2>3, <2>4
<1> HIDE DEF r, Seen
<1>5. Fitted(r)
  <2>1. r.pc # "loadConfig" /\ r.pc # "awaitJobs"
    BY <1>2, <1>3
  <2>2. r.mode = "replace" /\ r.pc = "store" => "image" \in r.need \/
          ImageOf[k.cfg.ver] \notin Recipes \ built[k.host]
    BY <1>2, <1>4
  <2>3. r.mode = "replace" /\ r.pc \in Teardown => need = {}
    BY <1>2 DEF Teardown
  <2> QED BY <1>0, <1>2, <1>4, <2>1, <2>2, <2>3 DEF Fitted, FitsIn
<1> QED BY <1>2, <1>5 DEF MovesFitted

\* A preparation is handed what its caller found out.
LEMMA PrepareFits ==
  ASSUME IInv, AllFit, Grows, NEW t \in Tasks, task[t].pc \in {"store", "prepare"},
         NEW mode, Prepare(t, mode), task[t].pc = "prepare" => mode # "replace",
         task[t].pc = "store" => mode = task[t].mode
  PROVE  MovesFitted(t) \/ HandsOverFitted(t)
<1> DEFINE k == task[t]
           r == [Idle EXCEPT !.pc = "awaitJobs", !.mode = mode, !.name = k.name,
                   !.host = k.host, !.cfg = k.cfg, !.need = k.need]
<1>1. CASE Finish(t)
  BY <1>1, FinishFits
<1>2. CASE \E w \in Runners : task' = [task EXCEPT ![t] = Idle, ![w] = r]
  <2>1. r.pc = "awaitJobs" /\ r.mode = mode /\ r.host = k.host /\ r.cfg = k.cfg
        /\ r.need = k.need
    BY DEF Idle
  <2>2. Fitted(k)
    BY StillFits DEF IInv, TypeOK, Shaped, AllFit
  <2> HIDE DEF r
  <2>3. Fitted(r)
    BY <2>1, <2>2 DEF Fitted, FitsIn, Teardown
  <2> QED BY <1>2, <2>3 DEF HandsOverFitted
<1> QED BY <1>1, <1>2 DEF Prepare

\* Every step of a task moves it so that it fits.
LEMMA StepFits ==
  ASSUME IInv, AllFit, NEW t \in Tasks, Step(t)
  PROVE  MovesFitted(t) \/ HandsOverFitted(t)
<1> DEFINE k == task[t]
<1>0. k \in TaskRecord /\ Grows /\ task \in [Tasks -> TaskRecord] /\ Fitted(k)
  BY StepGrows, StillFits DEF IInv, TypeOK, Shaped, AllFit
<1>e. {"checkHost", "listVolumes", "createVolume", "createContainer", "startNew", "storeNew",
       "removeNew", "dropFresh", "storeReplaced", "startReplaced", "storeAdopted",
       "removeContainer", "dropVolume", "forget", "locate", "checkAdopt", "startExisting",
       "checkName"}
        \subseteq Elsewhere
  BY DEF Elsewhere, PCs, Teardown
<1>1. CASE CheckName(t)
  BY <1>1, <1>e, ContinueFits, FinishFits DEF CheckName
<1>2. CASE CheckHost(t)
  BY <1>2, ProbeFits
<1>3. CASE StoreAndPrepare(t)
  BY <1>0, <1>3, FinishFits, PrepareFits DEF StoreAndPrepare, At
<1>4. CASE StartPreparing(t)
  <2>1. PICK mode \in {"create", "start"} : Prepare(t, mode)
    BY <1>4 DEF StartPreparing
  <2> QED BY <1>0, <1>4, <2>1, PrepareFits DEF StartPreparing, At
<1>5. CASE AwaitBuild(t)
  <2>1. CASE Finish(t)
    BY <2>1, FinishFits
  <2>2. CASE /\ task' = [task EXCEPT ![t].need = @ \ {"image"}]
             /\ built' = [built EXCEPT ![k.host] = @ \cup {ImageOf[k.cfg.ver]}]
    <3> DEFINE r == [k EXCEPT !.need = @ \ {"image"}]
    <3>1. task' = [task EXCEPT ![t] = r] /\ r.pc = "awaitJobs" /\ r.cfg = k.cfg /\ r.host = k.host
      BY <1>0, <1>5, <2>2 DEF AwaitBuild, At, TaskRecord
    <3>2. k.host \in Hosts /\ ImageOf[k.cfg.ver] \in built'[k.host]
      <4>1. k.host \in Hosts
        BY <1>5 DEF AwaitBuild, At, IInv, Shaped, Shape
      <4> QED BY <2>2, <4>1 DEF IInv, TypeOK
    <3> HIDE DEF r
    <3>3. Fitted(r)
      BY <3>1, <3>2 DEF Fitted, FitsIn, Teardown
    <3> QED BY <3>1, <3>3 DEF MovesFitted
  <2> QED BY <1>5, <2>1, <2>2 DEF AwaitBuild
<1>6. CASE AwaitSync(t)
  <2>1. CASE Finish(t)
    BY <2>1, FinishFits
  <2>2. CASE /\ synced' = [synced EXCEPT ![k.host] = TRUE] /\ k.mode # "start"
             /\ task' = [task EXCEPT ![t] = [[k EXCEPT !.need = {}] EXCEPT !.pc = Ready(k)]]
    <3> DEFINE r == [[k EXCEPT !.need = {}] EXCEPT !.pc = Ready(k)]
    <3>1. r.pc = Ready(k) /\ r.mode = k.mode /\ r.host = k.host /\ r.cfg = k.cfg
      BY <1>0 DEF TaskRecord
    <3>2. Ready(k) # "loadConfig" /\ Ready(k) \notin {"store", "awaitJobs"}
      BY DEF Ready
    <3>3. k.host \in Hosts
      BY <1>6 DEF AwaitSync, At, IInv, Shaped, Shape
    <3>4. synced'[k.host]
      BY <2>2, <3>3 DEF IInv, TypeOK
    <3>5. k.mode = "replace" => ImageOf[k.cfg.ver] \notin Recipes \ built'[k.host]
      BY <1>0, <1>6 DEF AwaitSync, At, Fitted, FitsIn
    <3> HIDE DEF r
    <3>6. Fitted(r)
      BY <3>1, <3>2, <3>4, <3>5 DEF Fitted, FitsIn
    <3> QED BY <2>2, <3>6 DEF MovesFitted, r
  <2>3. CASE task' = [task EXCEPT ![t] = [[k EXCEPT !.need = {}] EXCEPT !.pc = "locate",
                                               !.host = LocateFrom(k.name)]]
    <3> DEFINE r == [[k EXCEPT !.need = {}] EXCEPT !.pc = "locate", !.host = LocateFrom(k.name)]
    <3>1. r.pc = "locate"
      BY <1>0 DEF TaskRecord
    <3> HIDE DEF r
    <3>2. Fitted(r)
      BY <1>e, <3>1, ElsewhereFits
    <3> QED BY <2>3, <3>2 DEF MovesFitted, r
  <2> QED BY <1>6, <2>1, <2>2, <2>3 DEF AwaitSync
<1>7. CASE ResolveImage(t)
  BY <1>7, <1>e, ContinueFits, FinishFits DEF ResolveImage
<1>8. CASE ListVolumes(t)
  <2>1. PICK fresh, since :
          task' = [task EXCEPT ![t].pc = "createVolume", ![t].fresh = fresh, ![t].since = since]
    BY <1>8 DEF ListVolumes
  <2> DEFINE r == [k EXCEPT !.pc = "createVolume", !.fresh = fresh, !.since = since]
  <2>2. task' = [task EXCEPT ![t] = r] /\ r.pc = "createVolume"
    BY <1>0, <2>1 DEF TaskRecord
  <2> HIDE DEF r
  <2> QED BY <1>e, <2>2, ElsewhereFits DEF MovesFitted
<1>9. CASE CreateVolume(t)
  BY <1>9, <1>e, ContinueFits, FinishFits DEF CreateVolume
<1>10. CASE CreateContainer(t)
  <2>1. CASE Continue(t, "dropFresh")
    BY <2>1, <1>e, ContinueFits
  <2>2. CASE task' = [task EXCEPT ![t].id = nextId, ![t].pc = AfterCreate(t)]
    <3> DEFINE r == [k EXCEPT !.id = nextId, !.pc = AfterCreate(t)]
    <3>1. task' = [task EXCEPT ![t] = r] /\ r.pc = AfterCreate(t)
      BY <1>0, <2>2 DEF TaskRecord
    <3>2. AfterCreate(t) \in Elsewhere
      BY <1>e DEF AfterCreate
    <3> HIDE DEF r
    <3> QED BY <3>1, <3>2, ElsewhereFits DEF MovesFitted
  <2> QED BY <1>10, <2>1, <2>2 DEF CreateContainer
<1>11. CASE StartNew(t) \/ StoreNew(t) \/ RemoveNew(t) \/ DropFresh(t)
  BY <1>11, <1>e, ContinueFits, FinishFits DEF StartNew, StoreNew, RemoveNew, DropFresh
<1>12. CASE FindPrevious(t)
  <2>1. CASE Finish(t)
    BY <2>1, FinishFits
  <2>2. ASSUME NEW r \in TaskRecord, task' = [task EXCEPT ![t] = r], r.pc \in Teardown,
               r.mode = k.mode, r.host = k.host, r.cfg = k.cfg
        PROVE  MovesFitted(t)
    <3>1. k.pc \in Teardown
      BY <1>12 DEF FindPrevious, At, Teardown
    <3> QED BY <1>0, <2>2, <3>1, TeardownContinues DEF Teardown
  <2>3. CASE task' = [task EXCEPT ![t].pc = "resolveImage", ![t].id = 0, ![t].on = FALSE]
    <3> DEFINE r == [k EXCEPT !.pc = "resolveImage", !.id = 0, !.on = FALSE]
    <3>1. /\ task' = [task EXCEPT ![t] = r] /\ r \in TaskRecord /\ r.pc \in Teardown
          /\ r.mode = k.mode /\ r.host = k.host /\ r.cfg = k.cfg
      BY <1>0, <2>3 DEF TaskRecord, PCs, Teardown
    <3> HIDE DEF r
    <3> QED BY <2>2, <3>1
  <2>4. CASE /\ Live(t) # None
             /\ task' = [task EXCEPT ![t].id = Live(t).id,
                          ![t].on = Live(t).state = "running",
                          ![t].pc = IF Live(t).state = "running" THEN "stopPrevious"
                                                                 ELSE "removePrevious"]
    <3> DEFINE r == [k EXCEPT !.id = Live(t).id, !.on = Live(t).state = "running",
                       !.pc = IF Live(t).state = "running" THEN "stopPrevious"
                                                           ELSE "removePrevious"]
    <3>1. Live(t).id \in Nat
      BY <1>12, <2>4, SeenTyped DEF FindPrevious, At, Container
    <3>2. task' = [task EXCEPT ![t] = r]
      BY <1>0, <2>4 DEF TaskRecord
    <3>3. /\ r \in TaskRecord /\ r.pc \in Teardown
          /\ r.mode = k.mode /\ r.host = k.host /\ r.cfg = k.cfg
      <4> DEFINE p == IF Live(t).state = "running" THEN "stopPrevious" ELSE "removePrevious"
                 on == Live(t).state = "running"
      <4>1. p \in PCs /\ p \in Teardown /\ on \in BOOLEAN
        BY DEF PCs, Teardown
      <4> HIDE DEF p, on
      <4>2. [k EXCEPT !.id = Live(t).id, !.on = on, !.pc = p] \in TaskRecord
        BY <1>0, <3>1, <4>1 DEF TaskRecord
      <4>3. r = [k EXCEPT !.id = Live(t).id, !.on = on, !.pc = p]
        BY DEF p, on
      <4> HIDE DEF r
      <4> QED BY <1>0, <4>1, <4>2, <4>3 DEF TaskRecord
    <3> HIDE DEF r
    <3> QED BY <2>2, <3>2, <3>3
  <2> QED BY <1>12, <2>1, <2>3, <2>4 DEF FindPrevious
<1>13. CASE StopPrevious(t) \/ RemovePrevious(t)
  <2>1. CASE Finish(t)
    BY <2>1, FinishFits
  <2>2. ASSUME NEW p \in {"removePrevious", "resolveImage"}, Continue(t, p)
        PROVE  MovesFitted(t)
    <3> DEFINE r == [k EXCEPT !.pc = p]
    <3>1. /\ task' = [task EXCEPT ![t] = r] /\ r \in TaskRecord /\ r.pc = p
          /\ r.mode = k.mode /\ r.host = k.host /\ r.cfg = k.cfg
      BY <1>0, <2>2 DEF Continue, TaskRecord, PCs
    <3>2. k.pc \in Teardown
      BY <1>13 DEF StopPrevious, RemovePrevious, At, Teardown
    <3> HIDE DEF r
    <3> QED BY <1>0, <3>1, <3>2, TeardownContinues
  <2> QED BY <1>13, <2>1, <2>2 DEF StopPrevious, RemovePrevious
<1>14. CASE StoreReplaced(t) \/ StartReplaced(t)
  BY <1>14, <1>e, ContinueFits, FinishFits DEF StoreReplaced, StartReplaced
<1>15. CASE Locate(t)
  BY <1>15, LocateFits
<1>16. CASE LoadConfig(t)
  <2> DEFINE gone == [k EXCEPT !.cfg = config[k.name], !.pc = Gate(t, k)]
  <2>1. k.mode = "start" /\ Gate(t, k) \in HoldsDefinition
    BY <1>16, GateHeld DEF LoadConfig, At, AllFit, FitsIn
  <2>2. CASE task' = [task EXCEPT ![t] = gone]
    <3>1. gone.mode = "start" /\ gone.pc = Gate(t, k)
      BY <1>0, <2>1 DEF TaskRecord
    <3> HIDE DEF gone
    <3>2. Fitted(gone)
      BY <2>1, <3>1 DEF Fitted, FitsIn, HoldsDefinition
    <3> QED BY <2>2, <3>2 DEF MovesFitted
  <2>3. CASE task' = [task EXCEPT ![t] = [k EXCEPT !.pc = "checkAdopt"]]
    <3>1. [k EXCEPT !.pc = "checkAdopt"].pc = "checkAdopt"
      BY <1>0 DEF TaskRecord
    <3> QED BY <1>e, <2>3, <3>1, ElsewhereFits DEF MovesFitted
  <2>4. CASE task' = [task EXCEPT ![t] = [k EXCEPT !.pc = "locate", !.host = None]]
    <3>1. [k EXCEPT !.pc = "locate", !.host = None].pc = "locate"
      BY <1>0 DEF TaskRecord
    <3> QED BY <1>e, <2>4, <3>1, ElsewhereFits DEF MovesFitted
  <2> QED BY <1>16, <2>2, <2>3, <2>4 DEF LoadConfig
<1>17. CASE CheckAdopt(t) \/ StoreAdopted(t)
  BY <1>17, <1>e, AdoptedFits, ContinueFits, FinishFits DEF CheckAdopt, StoreAdopted, At
<1>18. CASE StartExisting(t) \/ StopContainer(t) \/ RestartContainer(t)
  BY <1>18, FinishFits DEF StartExisting, StopContainer, RestartContainer
<1>19. CASE StopToRemove(t) \/ RemoveContainer(t) \/ DropVolume(t) \/ Forget(t)
  BY <1>19, <1>e, ContinueFits, FinishFits DEF StopToRemove, RemoveContainer, DropVolume, Forget
<1> QED
  BY <1>1, <1>2, <1>3, <1>4, <1>5, <1>6, <1>7, <1>8, <1>9, <1>10, <1>11, <1>12, <1>13, <1>14,
     <1>15, <1>16, <1>17, <1>18, <1>19 DEF Step

\* A call begins at an await where nothing is torn down, with nothing of its own.
LEMMA ApiCalls ==
  ASSUME NEW t, Api(t)
  PROVE  \E kind, k : Call(t, kind, k) /\ k.pc \in Elsewhere /\ k.fresh = FALSE
<1>0. {"checkName", "checkHost", "locate", "forget", "checkAdopt"} \subseteq Elsewhere
  BY DEF Elsewhere, PCs, Teardown
<1>1. ASSUME NEW n, NEW h, NEW v, CallCreate(t, n, h, v)
      PROVE  \E kind, k : Call(t, kind, k) /\ k.pc \in Elsewhere /\ k.fresh = FALSE
  <2> DEFINE k == [Idle EXCEPT !.pc = "checkName", !.mode = "create", !.name = n,
                     !.host = h, !.cfg = [host |-> h, ver |-> v]]
  <2>1. Call(t, "create", k)
    BY <1>1 DEF CallCreate
  <2>2. k.pc \in Elsewhere /\ k.fresh = FALSE
    BY <1>0 DEF Idle
  <2> HIDE DEF k
  <2> QED BY <2>1, <2>2
<1>2. ASSUME NEW n, NEW v, CallReplace(t, n, v)
      PROVE  \E kind, k : Call(t, kind, k) /\ k.pc \in Elsewhere /\ k.fresh = FALSE
  <2> DEFINE k == [Idle EXCEPT !.pc = "checkHost", !.mode = "replace", !.name = n,
                     !.host = config[n].host, !.input = v,
                     !.cfg = IF v = None THEN config[n]
                                         ELSE [config[n] EXCEPT !.ver = v]]
  <2>1. Call(t, IF v = None THEN "recreate" ELSE "replace", k)
    BY <1>2 DEF CallReplace
  <2>2. k.pc \in Elsewhere /\ k.fresh = FALSE
    BY <1>0 DEF Idle
  <2> HIDE DEF k
  <2> QED BY <2>1, <2>2
<1>3. ASSUME NEW n, NEW mode, NEW v, NEW vols, CallLocated(t, n, mode, v, vols)
      PROVE  \E kind, k : Call(t, kind, k) /\ k.pc \in Elsewhere /\ k.fresh = FALSE
  <2> DEFINE k == [Idle EXCEPT !.pc = "locate", !.mode = mode, !.name = n,
                     !.host = LocateFrom(n), !.input = v, !.vols = vols]
  <2>1. Call(t, IF mode = "replace" /\ v = None THEN "recreate" ELSE mode, k)
    BY <1>3 DEF CallLocated
  <2>2. k.pc \in Elsewhere /\ k.fresh = FALSE
    BY <1>0 DEF Idle
  <2> HIDE DEF k
  <2> QED BY <2>1, <2>2
<1>4. ASSUME NEW n, CallRemoveDangling(t, n)
      PROVE  \E kind, k : Call(t, kind, k) /\ k.pc \in Elsewhere /\ k.fresh = FALSE
  <2> DEFINE k == [Idle EXCEPT !.pc = "forget", !.mode = "remove", !.name = n]
  <2>1. Call(t, "remove", k)
    BY <1>4 DEF CallRemoveDangling
  <2>2. k.pc \in Elsewhere /\ k.fresh = FALSE
    BY <1>0 DEF Idle
  <2> HIDE DEF k
  <2> QED BY <2>1, <2>2
<1>5. ASSUME NEW n, NEW h, CallReconcile(t, n, h)
      PROVE  \E kind, k : Call(t, kind, k) /\ k.pc \in Elsewhere /\ k.fresh = FALSE
  <2> DEFINE k == [Idle EXCEPT !.pc = "checkAdopt", !.mode = "adopt", !.name = n,
                     !.host = h, !.cfg = [host |-> h, ver |-> engine[h][n].ver]]
  <2>1. Call(t, "adopt", k)
    BY <1>5 DEF CallReconcile
  <2>2. k.pc \in Elsewhere /\ k.fresh = FALSE
    BY <1>0 DEF Idle
  <2> HIDE DEF k
  <2> QED BY <2>1, <2>2
<1> QED BY <1>1, <1>2, <1>3, <1>4, <1>5 DEF Api

\* An edit or recreate that lets go of the working container has the recipe of the next
\* one built, and its tools synced unless something failed: no call that interleaves, no
\* deleted host and no restart comes between what was found out and the teardown
\* (containers/service.ts: preparationSteps, runPreparation, doReplace).
THEOREM TeardownIsReady == Spec => []ReplaceOnlyWhenReady
<1> DEFINE J == IInv /\ AllFit
<1>1. Init => J
  BY Inductive DEF Init, AllFit, FitsIn, Idle, Teardown
<1>2. J /\ [Next]_vars => J'
  <2> SUFFICES ASSUME J, [Next]_vars PROVE AllFit'
    BY Inductive
  <2>0. task \in [Tasks -> TaskRecord]
    BY DEF IInv, TypeOK
  <2>1. ASSUME NEW t \in Requests, Api(t)
        PROVE  AllFit'
    <3>1. PICK kind, k : Call(t, kind, k) /\ k.pc \in Elsewhere
      BY <2>1, ApiCalls
    <3>2. /\ task' = [task EXCEPT ![t] = k] /\ UNCHANGED <<built, synced, faults>>
          /\ t \in Tasks
      BY <3>1 DEF Call, hostVars, Tasks
    <3>3. Grows /\ MovesFitted(t)
      BY <3>1, <3>2, ElsewhereFits DEF Grows, MovesFitted
    <3> QED BY <3>2, <3>3, AllStillFit
  <2>2. ASSUME NEW t \in Tasks, Step(t)
        PROVE  AllFit'
    BY <2>2, StepFits, StepGrows, AllStillFit
  <2>3. ASSUME NEW h \in Hosts, DeleteHost(h)
        PROVE  AllFit'
    BY <2>3 DEF DeleteHost, AllFit
  <2>4. CASE Restart
    BY <2>4 DEF Restart, AllFit, FitsIn, Idle, Teardown
  <2>5. CASE UNCHANGED vars
    BY <2>5 DEF vars, AllFit
  <2> QED BY <2>1, <2>2, <2>3, <2>4, <2>5 DEF Next, Rest
<1>3. J => ReplaceOnlyWhenReady
  BY DEF AllFit, FitsIn, ReplaceOnlyWhenReady, Teardown
<1> QED BY <1>1, <1>2, <1>3, PTL DEF Spec

-----------------------------------------------------------------------------
(* WorkspaceKept, whatever calls overlap.  The engine refuses to take a    *)
(* volume from a container, so where there is a container there is a       *)
(* volume (Used); and a create that found no volume found no container     *)
(* either, so that whatever runs there since has a number it had not been  *)
(* handed out when the create looked (FreshIn).                            *)

Rollback == {"createVolume", "createContainer", "startNew", "storeNew", "removeNew",
             "dropFresh"}

\* what has happened to a volume k found missing, with containers e, volumes v
\* and i the next number
FreshIn(k, e, v, i) ==
  k.fresh /\ k.pc \in Rollback =>
    /\ k.since <= i
    /\ v[k.host][k.name] \notin {None, 0} => v[k.host][k.name] >= k.since
    /\ e[k.host][k.name] # None => e[k.host][k.name].id >= k.since

AllFresh == \A t \in Tasks : FreshIn(task[t], engine, volume, nextId)

FreshNext(k) == FreshIn(k, engine', volume', nextId')

\* a container there is has a volume, and a number the engines have handed out
Used ==
  \A h \in Hosts, n \in Names :
    engine[h][n] # None => volume[h][n] # None /\ engine[h][n].id < nextId

\* What SetVolume does to one volume, and leaves of the others.
LEMMA VolumeSet ==
  ASSUME IInv, NEW t \in Tasks, task[t].pc \notin {"idle", "locate", "forget"},
         NEW v, SetVolume(t, v)
  PROVE  /\ volume'[task[t].host][task[t].name] = v
         /\ \A h \in Hosts, n \in Names :
              volume'[h][n] = volume[h][n] \/ (h = task[t].host /\ n = task[t].name)
<1>1. /\ task[t].host \in Hosts /\ task[t].name \in Names
      /\ volume \in [Hosts -> [Names -> Nat \cup {None}]]
  BY DEF IInv, TypeOK, Shaped, Shape
<1> QED BY <1>1 DEF SetVolume

\* What SetLive does to one container, and leaves of the others.
LEMMA LiveSet ==
  ASSUME IInv, NEW t \in Tasks, task[t].pc \notin {"idle", "locate", "forget"},
         NEW c, SetLive(t, c)
  PROVE  /\ engine'[task[t].host][task[t].name] = c
         /\ \A h \in Hosts, n \in Names :
              engine'[h][n] = engine[h][n] \/ (h = task[t].host /\ n = task[t].name)
         /\ Live(t) \in Container \cup {None}
<1>1. /\ task[t].host \in Hosts /\ task[t].name \in Names
      /\ engine \in [Hosts -> [Names -> Container \cup {None}]]
  BY DEF IInv, TypeOK, Shaped, Shape
<1> QED BY <1>1 DEF SetLive, Live

\* A container there is was there before under its id, or is the one t creates.
LEMMA EngineStep ==
  ASSUME IInv, NEW t \in Tasks, Step(t), NEW h \in Hosts, NEW n \in Names,
         engine'[h][n] # None
  PROVE  \/ engine[h][n] # None /\ engine'[h][n].id = engine[h][n].id
         \/ /\ At(t, "createContainer") /\ task[t].host = h /\ task[t].name = n
            /\ engine'[h][n].id = nextId
            /\ task' = [task EXCEPT ![t].id = nextId, ![t].pc = AfterCreate(t)]
<1> DEFINE Same == engine[h][n] # None /\ engine'[h][n].id = engine[h][n].id
<1>1. CASE engine' = engine
  BY <1>1
<1>2. ASSUME task[t].pc \notin {"idle", "locate", "forget"}, NEW s,
             Live(t) # None, SetLive(t, [Live(t) EXCEPT !.state = s])
      PROVE  Same
  <2> DEFINE c == [Live(t) EXCEPT !.state = s]
  <2>1. Live(t) \in Container
    BY <1>2, LiveSet
  <2>2. c.id = Live(t).id /\ SetLive(t, c)
    BY <1>2, <2>1 DEF Container
  <2> HIDE DEF c
  <2>3. /\ engine'[task[t].host][task[t].name] = c
        /\ engine'[h][n] = engine[h][n] \/ (h = task[t].host /\ n = task[t].name)
    BY <1>2, <2>2, LiveSet
  <2> QED BY <1>2, <2>2, <2>3 DEF Live
<1>3. ASSUME task[t].pc \notin {"idle", "locate", "forget"}, SetLive(t, None)
      PROVE  Same
  BY <1>3, LiveSet
<1>4. CASE StartNew(t) \/ StartReplaced(t) \/ StartExisting(t) \/ RestartContainer(t)
  <2>1. \/ engine' = engine
        \/ StillThere(t) /\ RunLive(t)
    BY <1>4 DEF StartNew, StartReplaced, StartExisting, RestartContainer, engineVars
  <2>2. task[t].pc \notin {"idle", "locate", "forget"}
    BY <1>4 DEF StartNew, StartReplaced, StartExisting, RestartContainer, At
  <2> QED BY <1>1, <1>2, <2>1, <2>2 DEF StillThere, RunLive
<1>5. CASE StopPrevious(t) \/ StopContainer(t) \/ StopToRemove(t)
  <2>1. engine' = engine \/ StopLive(t)
    BY <1>5 DEF StopPrevious, StopContainer, StopToRemove
  <2>2. task[t].pc \notin {"idle", "locate", "forget"}
    BY <1>5 DEF StopPrevious, StopContainer, StopToRemove, At
  <2> QED BY <1>1, <1>2, <2>1, <2>2 DEF StillThere, StopLive
<1>6. CASE RemoveNew(t) \/ RemovePrevious(t) \/ RemoveContainer(t)
  <2>1. engine' = engine \/ SetLive(t, None)
    BY <1>6 DEF RemoveNew, RemovePrevious, RemoveContainer, RemoveLive
  <2>2. task[t].pc \notin {"idle", "locate", "forget"}
    BY <1>6 DEF RemoveNew, RemovePrevious, RemoveContainer, At
  <2> QED BY <1>1, <1>3, <2>1, <2>2
<1>7. CASE CreateContainer(t)
  <2>1. CASE engine' = engine
    BY <1>1, <2>1
  <2>2. CASE /\ SetLive(t, [id |-> nextId, ver |-> task[t].cfg.ver, state |-> "created"])
             /\ task' = [task EXCEPT ![t].id = nextId, ![t].pc = AfterCreate(t)]
    <3> DEFINE c == [id |-> nextId, ver |-> task[t].cfg.ver, state |-> "created"]
    <3>1. At(t, "createContainer") /\ c.id = nextId
      BY <1>7 DEF CreateContainer
    <3>2. /\ engine'[task[t].host][task[t].name] = c
          /\ engine'[h][n] = engine[h][n] \/ (h = task[t].host /\ n = task[t].name)
      BY <2>2, <3>1, LiveSet DEF At
    <3> HIDE DEF c
    <3> QED BY <2>2, <3>1, <3>2
  <2> QED BY <1>7, <2>1, <2>2 DEF CreateContainer, engineVars
<1> QED
  BY <1>1, <1>4, <1>5, <1>6, <1>7 DEF Step, CheckName, CheckHost, StoreAndPrepare,
     StartPreparing, AwaitBuild, AwaitSync, ResolveImage, ListVolumes, CreateVolume,
     StoreNew, DropFresh, FindPrevious, StoreReplaced, Locate, LoadConfig, CheckAdopt,
     StoreAdopted, DropVolume, Forget, engineVars

\* A number is used for a container, then counted.
LEMMA StepCounts ==
  ASSUME NEW t \in Tasks, Step(t)
  PROVE  \/ nextId' = nextId
         \/ At(t, "createContainer") /\ nextId' = nextId + 1
<1>1. CASE CreateContainer(t)
  BY <1>1 DEF CreateContainer, engineVars
<1>2. CASE StartNew(t) \/ StartReplaced(t) \/ StartExisting(t) \/ RestartContainer(t)
  BY <1>2 DEF StartNew, StartReplaced, StartExisting, RestartContainer, RunLive, engineVars
<1>3. CASE UNCHANGED nextId
  BY <1>3
<1> QED
  BY <1>1, <1>2, <1>3 DEF Step, CheckName, CheckHost, StoreAndPrepare, StartPreparing,
     AwaitBuild, AwaitSync, ResolveImage, ListVolumes, CreateVolume, StoreNew, RemoveNew,
     DropFresh, FindPrevious, StopPrevious, RemovePrevious, StoreReplaced, Locate,
     LoadConfig, CheckAdopt, StoreAdopted, StopContainer, StopToRemove, RemoveContainer,
     DropVolume, Forget, engineVars

\* A volume is created empty, written by the first container that runs on it, and taken
\* away at two awaits, from no container.
LEMMA VolumeStep ==
  ASSUME IInv, NEW t \in Tasks, Step(t), NEW h \in Hosts, NEW n \in Names
  PROVE  \/ volume'[h][n] = volume[h][n]
         \/ volume[h][n] = None /\ volume'[h][n] = 0
         \/ volume[h][n] = 0 /\ engine[h][n] # None /\ volume'[h][n] = engine[h][n].id
         \/ /\ task[t].host = h /\ task[t].name = n
            /\ volume'[h][n] = None /\ engine'[h][n] = None /\ task'[t] # task[t]
            /\ At(t, "dropVolume") \/ (At(t, "dropFresh") /\ task[t].fresh)
<1> DEFINE Goal == \/ volume'[h][n] = volume[h][n]
                   \/ volume[h][n] = None /\ volume'[h][n] = 0
                   \/ volume[h][n] = 0 /\ engine[h][n] # None /\ volume'[h][n] = engine[h][n].id
<1>0. task \in [Tasks -> TaskRecord]
  BY DEF IInv, TypeOK
<1>1. ASSUME task[t].pc \notin {"idle", "locate", "forget"}, VolumeEnsured(t)
      PROVE  Goal
  BY <1>1, VolumeSet DEF VolumeEnsured, Volume
<1>2. ASSUME task[t].pc \notin {"idle", "locate", "forget"}, StillThere(t), RunLive(t)
      PROVE  Goal
  <2>1. SetVolume(t, IF Volume(t) = 0 THEN Live(t).id ELSE Volume(t))
    BY <1>2 DEF RunLive
  <2> QED BY <1>2, <2>1, VolumeSet DEF Volume, StillThere, Live
<1>3. CASE DropFresh(t)
  <2>1. CASE volume' = volume
    BY <2>1
  <2>2. CASE task[t].fresh /\ Live(t) = None /\ SetVolume(t, None) /\ engine' = engine
    <3>1. At(t, "dropFresh") /\ task'[t] = Idle
      BY <1>0, <1>3 DEF DropFresh, Finish
    <3>2. task'[t] # task[t]
      BY <3>1 DEF At, Idle
    <3> QED BY <2>2, <3>1, <3>2, VolumeSet DEF At, Live
  <2> QED BY <1>3, <2>1, <2>2 DEF DropFresh
<1>4. CASE DropVolume(t)
  <2>1. CASE volume' = volume
    BY <2>1
  <2>2. CASE Live(t) = None /\ SetVolume(t, None) /\ engine' = engine
    <3>1. At(t, "dropVolume") /\ task'[t].pc = "forget"
      BY <1>0, <1>4 DEF DropVolume, Continue, TaskRecord
    <3>2. task'[t] # task[t]
      BY <3>1 DEF At
    <3> QED BY <2>2, <3>1, <3>2, VolumeSet DEF At, Live
  <2> QED BY <1>4, <2>1, <2>2 DEF DropVolume
<1>5. CASE CreateVolume(t) \/ CreateContainer(t)
  BY <1>1, <1>5 DEF CreateVolume, CreateContainer, At, engineVars
<1>6. CASE StartNew(t) \/ StartReplaced(t) \/ StartExisting(t) \/ RestartContainer(t)
  BY <1>2, <1>6 DEF StartNew, StartReplaced, StartExisting, RestartContainer, At, engineVars
<1>7. CASE volume' = volume
  BY <1>7
<1> QED
  BY <1>3, <1>4, <1>5, <1>6, <1>7 DEF Step, CheckName, CheckHost, StoreAndPrepare,
     StartPreparing, AwaitBuild, AwaitSync, ResolveImage, ListVolumes, StoreNew, RemoveNew,
     FindPrevious, StopPrevious, RemovePrevious, StoreReplaced, Locate, LoadConfig,
     CheckAdopt, StoreAdopted, StopContainer, StopToRemove, RemoveContainer, Forget,
     engineVars

\* A container comes with its volume, and keeps it.
LEMMA StepUsed ==
  ASSUME IInv, Used, NEW t \in Tasks, Step(t)
  PROVE  Used'
<1> SUFFICES ASSUME NEW h \in Hosts, NEW n \in Names, engine'[h][n] # None
             PROVE  volume'[h][n] # None /\ engine'[h][n].id < nextId'
  BY DEF Used
<1>0. nextId \in Nat /\ engine[h][n] \in Container \cup {None} /\ None \notin Nat
  BY NoneAssumption DEF IInv, TypeOK
<1>1. CASE engine[h][n] # None /\ engine'[h][n].id = engine[h][n].id
  <2>1. volume[h][n] # None /\ engine[h][n].id < nextId /\ engine[h][n].id \in Nat
    BY <1>0, <1>1 DEF Used, Container
  <2>2. volume'[h][n] # None
    BY <1>0, <2>1, VolumeStep
  <2>3. nextId' \in {nextId, nextId + 1}
    BY StepCounts
  <2> QED BY <1>0, <1>1, <2>1, <2>2, <2>3
<1>2. CASE /\ At(t, "createContainer") /\ task[t].host = h /\ task[t].name = n
           /\ engine'[h][n].id = nextId
           /\ task' = [task EXCEPT ![t].id = nextId, ![t].pc = AfterCreate(t)]
  <2>1. AfterCreate(t) # "dropFresh" /\ task \in [Tasks -> TaskRecord]
    BY DEF AfterCreate, IInv, TypeOK
  <2>2. task'[t].pc # "dropFresh"
    BY <1>2, <2>1 DEF TaskRecord
  <2>3. ~Continue(t, "dropFresh")
    BY <2>1, <2>2 DEF Continue, TaskRecord
  <2>4. CreateContainer(t)
    BY <1>2 DEF Step, At, CheckName, CheckHost, StoreAndPrepare, StartPreparing, AwaitBuild,
       AwaitSync, ResolveImage, ListVolumes, CreateVolume, StartNew, StoreNew, RemoveNew,
       DropFresh, FindPrevious, StopPrevious, RemovePrevious, StoreReplaced, StartReplaced,
       Locate, LoadConfig, CheckAdopt, StoreAdopted, StartExisting, StopContainer,
       RestartContainer, StopToRemove, RemoveContainer, DropVolume, Forget
  <2>5. VolumeEnsured(t) /\ nextId' = nextId + 1
    BY <2>3, <2>4 DEF CreateContainer
  <2>6. volume'[h][n] # None
    BY <1>0, <1>2, <2>5, VolumeSet DEF VolumeEnsured, Volume, At
  <2> QED BY <1>0, <1>2, <2>5, <2>6
<1> QED BY <1>1, <1>2, EngineStep

\* What a task has found missing stays so in whatever step another task takes.
LEMMA WorldFresh ==
  ASSUME IInv, Used, NEW t \in Tasks, Step(t),
         NEW k, k.host \in Hosts, k.name \in Names, k.since \in Nat,
         FreshIn(k, engine, volume, nextId)
  PROVE  FreshNext(k)
<1> SUFFICES ASSUME k.fresh, k.pc \in Rollback
             PROVE  /\ k.since <= nextId'
                    /\ volume'[k.host][k.name] \notin {None, 0}
                         => volume'[k.host][k.name] >= k.since
                    /\ engine'[k.host][k.name] # None
                         => engine'[k.host][k.name].id >= k.since
  BY DEF FreshNext, FreshIn
<1> DEFINE v == volume[k.host][k.name]
           e == engine[k.host][k.name]
<1>1. /\ k.since <= nextId
      /\ v \notin {None, 0} => v >= k.since
      /\ e # None => e.id >= k.since
  BY DEF FreshIn
<1>2. nextId \in Nat /\ nextId' \in {nextId, nextId + 1}
  BY StepCounts DEF IInv, TypeOK
<1>3. \/ volume'[k.host][k.name] \in {v, None, 0}
      \/ e # None /\ volume'[k.host][k.name] = e.id
  BY VolumeStep
<1>4. engine'[k.host][k.name] # None =>
        \/ e # None /\ engine'[k.host][k.name].id = e.id
        \/ engine'[k.host][k.name].id = nextId
  BY EngineStep
<1> HIDE DEF v, e
<1> QED BY <1>1, <1>2, <1>3, <1>4

\* Where the host is known to be ready nothing has been created yet.
LEMMA ReadyBefore ==
  ASSUME NEW u, NEW r
  PROVE  Ready(r) \notin Rollback /\ Gate(u, r) \notin Rollback
<1>1. Ready(r) \in {"resolveImage", "findPrevious", "startExisting", "locate"}
  <2>1. CASE r.mode = "create"
    BY <2>1 DEF Ready
  <2>2. CASE r.mode = "replace"
    BY <2>2 DEF Ready
  <2>3. CASE r.mode # "create" /\ r.mode # "replace"
    BY <2>3 DEF Ready
  <2> QED BY <2>1, <2>2, <2>3
<1> QED BY <1>1 DEF Gate, Rollback

\* The awaits of a create can be reached from its listing of the volumes alone.
LEMMA StepFresh ==
  ASSUME IInv, Used, AllFresh, NEW t \in Tasks, Step(t)
  PROVE  AllFresh'
<1> DEFINE k == task[t]
<1>0. k \in TaskRecord /\ Shape(k) /\ task \in [Tasks -> TaskRecord] /\ ~At(t, "idle")
  BY StepTasks DEF IInv, TypeOK, Shaped, TaskStep
<1>r. ASSUME NEW r, r.pc \notin Rollback PROVE FreshNext(r)
  BY <1>r DEF FreshNext, FreshIn
<1>u. ASSUME NEW u \in Tasks PROVE FreshNext(task[u])
  <2>1. CASE task[u].pc \in Rollback
    <3>1. task[u] \in TaskRecord /\ Shape(task[u]) /\ FreshIn(task[u], engine, volume, nextId)
      BY DEF IInv, TypeOK, Shaped, AllFresh
    <3>2. task[u].host \in Hosts /\ task[u].name \in Names /\ task[u].since \in Nat
      BY <2>1, <3>1 DEF Shape, Rollback, TaskRecord
    <3> QED BY <3>1, <3>2, WorldFresh
  <2> QED BY <1>r, <2>1
<1>1. ASSUME NEW r, task' = [task EXCEPT ![t] = r], FreshNext(r) PROVE AllFresh'
  <2>1. \A u \in Tasks : task'[u] = task[u] \/ task'[u] = r
    BY <1>0, <1>1
  <2>2. \A u \in Tasks : FreshNext(task'[u])
    BY <1>1, <1>u, <2>1
  <2> QED BY <2>2 DEF AllFresh, FreshNext
<1>2. ASSUME NEW r, task' = [task EXCEPT ![t] = r], r.pc \notin Rollback PROVE AllFresh'
  BY <1>1, <1>2, <1>r
<1>3. CASE Finish(t)
  BY <1>2, <1>3 DEF Finish, Idle, Rollback
<1>4. ASSUME NEW p, Continue(t, p), p \notin Rollback PROVE AllFresh'
  <2>1. task' = [task EXCEPT ![t] = [k EXCEPT !.pc = p]] /\ [k EXCEPT !.pc = p].pc = p
    BY <1>0, <1>4 DEF Continue, TaskRecord
  <2> QED BY <1>2, <1>4, <2>1
<1>6. ASSUME NEW m, Prepare(t, m) PROVE AllFresh'
  <2>1. ASSUME NEW w \in Runners, NEW r, task' = [task EXCEPT ![t] = Idle, ![w] = r],
               r.pc = "awaitJobs"
        PROVE  AllFresh'
    <3>1. \A u \in Tasks : task'[u] \in {task[u], Idle, r}
      BY <1>0, <2>1
    <3>2. FreshNext(Idle) /\ FreshNext(r)
      BY <1>r, <2>1 DEF Idle, Rollback
    <3>3. \A u \in Tasks : FreshNext(task'[u])
      BY <1>u, <3>1, <3>2
    <3> QED BY <3>3 DEF AllFresh, FreshNext
  <2>2. [Idle EXCEPT !.pc = "awaitJobs", !.mode = m, !.name = k.name, !.host = k.host,
                     !.cfg = k.cfg, !.need = k.need].pc = "awaitJobs"
    BY DEF Idle
  <2> QED BY <1>3, <1>6, <2>1, <2>2 DEF Prepare
<1>7. CASE CheckName(t) \/ StopPrevious(t) \/ RemovePrevious(t) \/ StoreReplaced(t)
           \/ StartReplaced(t) \/ StopToRemove(t) \/ RemoveContainer(t) \/ DropVolume(t)
           \/ Forget(t) \/ StartExisting(t) \/ StopContainer(t) \/ RestartContainer(t)
           \/ DropFresh(t)
  BY <1>3, <1>4, <1>7 DEF CheckName, StopPrevious, RemovePrevious, StoreReplaced,
     StartReplaced, StopToRemove, RemoveContainer, DropVolume, Forget, StartExisting,
     StopContainer, RestartContainer, DropFresh, Rollback
<1>8. CASE CheckHost(t)
  <2>1. PICK need, p : /\ task' = [task EXCEPT ![t].need = need, ![t].pc = p]
                       /\ p \in {Ready(k), "prepare", "store"}
    BY <1>8 DEF CheckHost
  <2> DEFINE r == [k EXCEPT !.need = need, !.pc = p]
  <2>2. task' = [task EXCEPT ![t] = r] /\ r.pc = p
    BY <1>0, <2>1 DEF TaskRecord
  <2>3. p \notin Rollback
    BY <2>1, ReadyBefore DEF Rollback
  <2> HIDE DEF r
  <2> QED BY <1>2, <2>2, <2>3
<1>9. CASE StoreAndPrepare(t) \/ StartPreparing(t)
  BY <1>3, <1>6, <1>9 DEF StoreAndPrepare, StartPreparing
<1>10. CASE AwaitBuild(t)
  <2>1. CASE task' = [task EXCEPT ![t].need = @ \ {"image"}]
    <3> DEFINE r == [k EXCEPT !.need = @ \ {"image"}]
    <3>1. task' = [task EXCEPT ![t] = r] /\ r.pc = "awaitJobs"
      BY <1>0, <1>10, <2>1 DEF AwaitBuild, At, TaskRecord
    <3> HIDE DEF r
    <3> QED BY <1>2, <3>1 DEF Rollback
  <2> QED BY <1>3, <1>10, <2>1 DEF AwaitBuild
<1>11. CASE AwaitSync(t)
  <2> DEFINE r == [[k EXCEPT !.need = {}] EXCEPT !.pc = Ready(k)]
             q == [[k EXCEPT !.need = {}] EXCEPT !.pc = "locate", !.host = LocateFrom(k.name)]
  <2>1. r.pc = Ready(k) /\ q.pc = "locate"
    BY <1>0 DEF TaskRecord
  <2>2. Finish(t) \/ task' = [task EXCEPT ![t] = r] \/ task' = [task EXCEPT ![t] = q]
    BY <1>11 DEF AwaitSync
  <2> HIDE DEF r, q
  <2> QED BY <1>2, <1>3, <2>1, <2>2, ReadyBefore DEF Rollback
<1>12. CASE ResolveImage(t)
  BY <1>3, <1>4, <1>12 DEF ResolveImage, Rollback
<1>13. CASE FindPrevious(t)
  <2>1. Finish(t) \/ \E id, on, p : /\ task' = [task EXCEPT ![t].id = id, ![t].on = on, ![t].pc = p]
                                    /\ p \in {"resolveImage", "stopPrevious", "removePrevious"}
    <3>1. CASE task' = [task EXCEPT ![t].pc = "resolveImage", ![t].id = 0, ![t].on = FALSE]
      <4>1. task' = [task EXCEPT ![t].id = 0, ![t].on = FALSE, ![t].pc = "resolveImage"]
        BY <1>0, <3>1 DEF TaskRecord
      <4> QED BY <4>1
    <3> QED BY <1>13, <3>1 DEF FindPrevious
  <2>2. ASSUME NEW id, NEW on, NEW p \in {"resolveImage", "stopPrevious", "removePrevious"},
               task' = [task EXCEPT ![t].id = id, ![t].on = on, ![t].pc = p]
        PROVE  AllFresh'
    <3> DEFINE r == [k EXCEPT !.id = id, !.on = on, !.pc = p]
    <3>1. task' = [task EXCEPT ![t] = r] /\ r.pc = p
      BY <1>0, <2>2 DEF TaskRecord
    <3> HIDE DEF r
    <3> QED BY <1>2, <3>1 DEF Rollback
  <2> QED BY <1>3, <2>1, <2>2
<1>14. CASE Locate(t)
  <2>1. ASSUME NEW r, AfterLocate(r) \in Rollback PROVE FALSE
    BY <2>1 DEF AfterLocate, Rollback
  <2>2. ASSUME NEW q \in TaskRecord, NEW r, GoOrFinish(t, [q EXCEPT !.pc = AfterLocate(r)])
        PROVE  AllFresh'
    <3>1. [q EXCEPT !.pc = AfterLocate(r)].pc \notin Rollback
      BY <2>1 DEF TaskRecord
    <3> QED BY <1>2, <1>3, <2>2, <3>1 DEF GoOrFinish
  <2>3. ASSUME NEW h, NEW c, c # None, k.name \in Names, h \in Hosts, c = engine[h][k.name],
               LET found == [k EXCEPT !.host = h, !.id = c.id, !.on = c.state = "running",
                               !.cfg = [host |-> h, ver |-> c.ver]]
               IN  GoOrFinish(t, [found EXCEPT !.pc = AfterLocate(found)])
        PROVE  AllFresh'
    <3> DEFINE found == [k EXCEPT !.host = h, !.id = c.id, !.on = c.state = "running",
                           !.cfg = [host |-> h, ver |-> c.ver]]
    <3>1. c \in Container
      BY <2>3 DEF IInv, TypeOK
    <3>2. found \in TaskRecord
      BY <1>0, <2>3, <3>1 DEF TaskRecord, Container, Definition
    <3>3. GoOrFinish(t, [found EXCEPT !.pc = AfterLocate(found)])
      BY <2>3
    <3> HIDE DEF found
    <3> QED BY <2>2, <3>2, <3>3
  <2>4. CASE GoOrFinish(t, [k EXCEPT !.id = 0, !.on = FALSE,
                              !.pc = AfterLocate([k EXCEPT !.id = 0, !.on = FALSE])])
    <3> DEFINE q == [k EXCEPT !.id = 0, !.on = FALSE]
    <3>1. q \in TaskRecord
      BY <1>0 DEF TaskRecord
    <3>2. GoOrFinish(t, [q EXCEPT !.pc = AfterLocate(q)])
      BY <2>4
    <3> HIDE DEF q
    <3> QED BY <2>2, <3>1, <3>2
  <2>5. k.name \in Names /\ (IF k.host = None THEN hosts ELSE {k.host}) \subseteq Hosts
    <3>1. k.pc = "locate" /\ hosts \subseteq Hosts
      BY <1>14 DEF IInv, TypeOK, Locate, At
    <3> QED BY <1>0, <3>1 DEF Shape, TaskRecord
  <2> QED BY <1>3, <1>14, <2>3, <2>4, <2>5 DEF Locate
<1>15. CASE LoadConfig(t)
  <2> DEFINE r1 == [k EXCEPT !.cfg = config[k.name], !.pc = Gate(t, k)]
             r2 == [k EXCEPT !.pc = "checkAdopt"]
             r3 == [k EXCEPT !.pc = "locate", !.host = None]
  <2>1. r1.pc = Gate(t, k) /\ r2.pc = "checkAdopt" /\ r3.pc = "locate"
    BY <1>0 DEF TaskRecord
  <2>2. \/ task' = [task EXCEPT ![t] = r1]
        \/ task' = [task EXCEPT ![t] = r2]
        \/ task' = [task EXCEPT ![t] = r3]
    BY <1>15 DEF LoadConfig
  <2> HIDE DEF r1, r2, r3
  <2> QED BY <1>2, <2>1, <2>2, ReadyBefore DEF Rollback
<1>16. CASE CheckAdopt(t) \/ StoreAdopted(t)
  <2> DEFINE cfg == [k.cfg EXCEPT !.ver = IF k.input = None THEN @ ELSE k.input]
             go == [k EXCEPT !.pc = Gate(t, k)]
             again == [k EXCEPT !.pc = "checkHost", !.cfg = cfg]
             stop == [k EXCEPT !.pc = "idle"]
  <2>1. go.pc = Gate(t, k) /\ again.pc = "checkHost" /\ stop.pc = "idle"
    BY <1>0 DEF TaskRecord
  <2>2. Adopted(t, k) \in {go, again, stop}
    <3>1. again = [k EXCEPT !.pc = "checkHost",
                     !.cfg.ver = IF k.input = None THEN @ ELSE k.input]
      BY <1>0 DEF TaskRecord
    <3> QED BY <3>1 DEF Adopted
  <2> HIDE DEF go, again, stop
  <2>3. Adopted(t, k).pc \notin Rollback
    BY <2>1, <2>2, ReadyBefore DEF Rollback
  <2>4. GoOrFinish(t, Adopted(t, k)) => AllFresh'
    BY <1>2, <1>3, <2>3 DEF GoOrFinish
  <2> QED BY <1>3, <1>4, <1>16, <2>4 DEF CheckAdopt, StoreAdopted, Rollback
<1>17. CASE ListVolumes(t)
  <2>1. PICK fresh \in BOOLEAN :
          /\ fresh => Volume(t) = None
          /\ task' = [task EXCEPT ![t].pc = "createVolume", ![t].fresh = fresh,
                        ![t].since = IF fresh THEN nextId ELSE 0]
    BY <1>17 DEF ListVolumes
  <2> DEFINE r == [k EXCEPT !.pc = "createVolume", !.fresh = fresh,
                     !.since = IF fresh THEN nextId ELSE 0]
  <2>2. /\ task' = [task EXCEPT ![t] = r] /\ r.fresh = fresh /\ (fresh => r.since = nextId)
        /\ r.host = k.host /\ r.name = k.name
    BY <1>0, <2>1 DEF TaskRecord
  <2>3. k.host \in Hosts /\ k.name \in Names /\ nextId \in Nat
    BY <1>0, <1>17 DEF ListVolumes, At, Shape, IInv, TypeOK
  <2>4. fresh => volume[k.host][k.name] = None /\ engine[k.host][k.name] = None
    BY <2>1, <2>3 DEF Volume, Used
  <2>5. engine' = engine /\ volume' = volume /\ nextId' = nextId
    BY <1>17 DEF ListVolumes, engineVars
  <2> HIDE DEF r
  <2>6. FreshNext(r)
    BY <2>2, <2>3, <2>4, <2>5 DEF FreshNext, FreshIn
  <2> QED BY <1>1, <2>2, <2>6
<1>18. ASSUME k.pc \in Rollback, NEW r, task' = [task EXCEPT ![t] = r],
              r.fresh = k.fresh, r.since = k.since, r.host = k.host, r.name = k.name
       PROVE  AllFresh'
  <2>1. FreshNext(r)
    BY <1>u, <1>18 DEF FreshNext, FreshIn
  <2> QED BY <1>1, <1>18, <2>1
<1>19. ASSUME k.pc \in Rollback, NEW p, Continue(t, p) PROVE AllFresh'
  <2> DEFINE r == [k EXCEPT !.pc = p]
  <2>1. /\ task' = [task EXCEPT ![t] = r]
        /\ r.fresh = k.fresh /\ r.since = k.since /\ r.host = k.host /\ r.name = k.name
    BY <1>0, <1>19 DEF Continue, TaskRecord
  <2> HIDE DEF r
  <2> QED BY <1>18, <1>19, <2>1
<1>20. CASE CreateVolume(t) \/ StartNew(t) \/ StoreNew(t) \/ RemoveNew(t)
  <2>1. k.pc \in Rollback
    BY <1>20 DEF CreateVolume, StartNew, StoreNew, RemoveNew, At, Rollback
  <2> QED BY <1>3, <1>19, <1>20, <2>1 DEF CreateVolume, StartNew, StoreNew, RemoveNew
<1>21. CASE CreateContainer(t)
  <2>1. k.pc \in Rollback
    BY <1>21 DEF CreateContainer, At, Rollback
  <2>2. CASE task' = [task EXCEPT ![t].id = nextId, ![t].pc = AfterCreate(t)]
    <3> DEFINE r == [k EXCEPT !.id = nextId, !.pc = AfterCreate(t)]
    <3>1. /\ task' = [task EXCEPT ![t] = r]
          /\ r.fresh = k.fresh /\ r.since = k.since /\ r.host = k.host /\ r.name = k.name
      BY <1>0, <2>2 DEF TaskRecord
    <3> HIDE DEF r
    <3> QED BY <1>18, <2>1, <3>1
  <2> QED BY <1>19, <1>21, <2>1, <2>2 DEF CreateContainer
<1> QED
  BY <1>7, <1>8, <1>9, <1>10, <1>11, <1>12, <1>13, <1>14, <1>15, <1>16, <1>17,
     <1>20, <1>21 DEF Step

\* Whatever calls overlap, and whichever of their steps fails or is cut off by a restart, a
\* volume somebody has worked in is deleted only by a remove that asks for it, or by the
\* rollback of a create that had found no volume before the first container ran on this
\* one: a workspace that was there when a create looked outlives its rollback
\* (containers/service.ts: existingVolumeNames, materialize, removeFreshVolumes).
THEOREM WorkspaceSafe == Spec => WorkspaceKept
<1> DEFINE J == IInv /\ Used /\ AllFresh
           Kept == \A h \in Hosts, n \in Names :
                     volume[h][n] \notin {None, 0} /\ volume'[h][n] = None =>
                       \E t \in Tasks :
                         /\ TakesVolume(t, h, n)
                         /\ \/ At(t, "dropVolume")
                            \/ /\ At(t, "dropFresh") /\ task[t].fresh
                               /\ volume[h][n] >= task[t].since
<1>1. Init => J
  BY Inductive DEF Init, Used, AllFresh, FreshIn, Idle
<1>2. J /\ [Next]_vars => J' /\ Kept
  <2> SUFFICES ASSUME J, [Next]_vars PROVE Used' /\ AllFresh' /\ Kept
    BY Inductive
  <2>0. task \in [Tasks -> TaskRecord] /\ Requests \subseteq Tasks
    BY DEF IInv, TypeOK, Tasks
  <2>1. ASSUME NEW t \in Requests, Api(t)
        PROVE  Used' /\ AllFresh' /\ Kept
    <3>1. PICK kind, k : Call(t, kind, k) /\ k.fresh = FALSE
      BY <2>1, ApiCalls
    <3>2. task' = [task EXCEPT ![t] = k] /\ UNCHANGED engineVars
      BY <3>1 DEF Call
    <3>3. \A u \in Tasks : task'[u] = task[u] \/ task'[u].fresh = FALSE
      BY <2>0, <3>1, <3>2
    <3> QED BY <3>2, <3>3 DEF Used, AllFresh, FreshIn, engineVars
  <2>2. ASSUME NEW t \in Tasks, Step(t)
        PROVE  Used' /\ AllFresh' /\ Kept
    <3>1. Used' /\ AllFresh'
      BY <2>2, StepUsed, StepFresh
    <3>2. ASSUME NEW h \in Hosts, NEW n \in Names,
                 volume[h][n] \notin {None, 0}, volume'[h][n] = None
          PROVE  /\ TakesVolume(t, h, n)
                 /\ \/ At(t, "dropVolume")
                    \/ /\ At(t, "dropFresh") /\ task[t].fresh
                       /\ volume[h][n] >= task[t].since
      <4>1. /\ task[t].host = h /\ task[t].name = n /\ task'[t] # task[t]
            /\ At(t, "dropVolume") \/ (At(t, "dropFresh") /\ task[t].fresh)
        BY <2>2, <3>2, VolumeStep
      <4>2. At(t, "dropFresh") /\ task[t].fresh => volume[h][n] >= task[t].since
        BY <3>2, <4>1 DEF AllFresh, FreshIn, At, Rollback
      <4> QED BY <3>2, <4>1, <4>2 DEF TakesVolume
    <3> QED BY <3>1, <3>2
  <2>3. ASSUME NEW h \in Hosts, DeleteHost(h)
        PROVE  Used' /\ AllFresh' /\ Kept
    BY <2>3 DEF DeleteHost, Used, AllFresh, engineVars
  <2>4. CASE Restart
    BY <2>4 DEF Restart, Used, AllFresh, FreshIn, Idle, engineVars
  <2>5. CASE UNCHANGED vars
    BY <2>5 DEF vars, engineVars, Used, AllFresh
  <2> QED BY <2>1, <2>2, <2>3, <2>4, <2>5 DEF Next, Rest
<1> QED BY <1>1, <1>2, PTL DEF Spec, WorkspaceKept

-----------------------------------------------------------------------------
(* NoOrphans, where no call removes a container and at most one thing      *)
(* fails.  A container without a definition belongs to the create that is  *)
(* about to store it, or to take it back (Owned); its rollback fails only  *)
(* after the failure that made it roll back.  An edit never creates one:   *)
(* the name it works on keeps a definition (Tame).                         *)

Removing == {"stopToRemove", "removeContainer", "dropVolume", "forget"}
Adopting == {"idle", "locate", "checkAdopt", "storeAdopted"}

\* a task k that removes nothing, over the definitions c
Tame(k, c) ==
  /\ k.mode # "remove" /\ k.pc \notin Removing
  /\ k.pc = "locate" => k.mode \in {"start", "replace", "stop", "restart"}
  /\ k.pc = "loadConfig" => k.mode = "start"
  /\ k.mode = "replace" /\ k.pc \notin Adopting => c[k.name] # None

AllTame == \A t \in Tasks : Tame(task[t], config)

\* the container of n on h is the one k has made, f failures so far
Owns(k, h, n, f) ==
  /\ k.pc \in {"startNew", "storeNew"} \/ (k.pc = "removeNew" /\ f >= 1)
  /\ k.host = h /\ k.name = n /\ k.id = engine[h][n].id

Owned ==
  crashes = 0 => \A h \in Hosts, n \in Names :
    engine[h][n] # None /\ config[n] = None =>
      \E u \in Tasks : Owns(task[u], h, n, faults)

\* What a definition is stored over stays defined; only a remove forgets one.
LEMMA ConfigKept ==
  ASSUME IInv, AllTame, NEW t \in Tasks, Step(t)
  PROVE  \A n \in Names : config[n] # None => config'[n] # None
<1>0. /\ config \in [Names -> Definition \cup {None}] /\ Shape(task[t])
      /\ task[t].pc \notin Removing
  BY DEF IInv, TypeOK, Shaped, AllTame, Tame
<1>1. CASE config' = config
  BY <1>1
<1>2. ASSUME PutConfig(t), task[t].pc \in HoldsDefinition
      PROVE  \A n \in Names : config[n] # None => config'[n] # None
  <2>1. task[t].cfg \in Definition /\ task[t].cfg # None
    BY <1>0, <1>2, NoneAssumption DEF Shape
  <2> QED BY <1>0, <1>2, <2>1 DEF PutConfig
<1>3. CASE StoreAndPrepare(t) \/ StoreNew(t) \/ StoreReplaced(t) \/ StoreAdopted(t)
  BY <1>1, <1>2, <1>3 DEF StoreAndPrepare, StoreNew, StoreReplaced, StoreAdopted, At,
     HoldsDefinition
<1>4. CASE Forget(t)
  BY <1>0, <1>4 DEF Forget, At, Removing
<1> QED
  BY <1>1, <1>3, <1>4 DEF Step, CheckName, CheckHost, StartPreparing, AwaitBuild,
     AwaitSync, ResolveImage, ListVolumes, CreateVolume, CreateContainer, StartNew,
     RemoveNew, DropFresh, FindPrevious, StopPrevious, RemovePrevious, StartReplaced,
     Locate, LoadConfig, CheckAdopt, StartExisting, StopContainer, RestartContainer,
     StopToRemove, RemoveContainer, DropVolume

\* A step of t leaves every other task that is under way where it is.
LEMMA OthersStay ==
  ASSUME IInv, NEW t \in Tasks, Step(t), NEW u \in Tasks, u # t, ~At(u, "idle")
  PROVE  task'[u] = task[u]
<1>1. TaskStep(t) /\ task \in [Tasks -> TaskRecord] /\ Runners \subseteq Tasks
  BY StepTasks DEF IInv, TypeOK, Tasks
<1>2. CASE Moves(t) \/ Finish(t)
  BY <1>1, <1>2 DEF Moves, Finish
<1>3. ASSUME NEW m, Prepare(t, m), ~Finish(t) PROVE task'[u] = task[u]
  <2>1. PICK w \in Runners : At(w, "idle") /\ \E r : task' = [task EXCEPT ![t] = Idle, ![w] = r]
    BY <1>3 DEF Prepare
  <2>2. u # w
    BY <2>1
  <2> QED BY <1>1, <2>1, <2>2
<1> QED BY <1>1, <1>2, <1>3 DEF TaskStep
\* A create that goes on keeps what it has made, and a definition of its name gone
\* missing is not among what a step may do: the step of the owner itself.
LEMMA OwnerStep ==
  ASSUME IInv, MaxFaults <= 1, NEW t \in Tasks, Step(t), NEW h \in Hosts, NEW n \in Names,
         Owns(task[t], h, n, faults), engine[h][n] # None, config'[n] = None,
         engine'[h][n] # None, engine'[h][n].id = engine[h][n].id
  PROVE  Owns(task[t], h, n, faults)'
<1> DEFINE k == task[t]
<1>0. /\ k \in TaskRecord /\ Shape(k) /\ task \in [Tasks -> TaskRecord]
      /\ config \in [Names -> Definition \cup {None}]
      /\ faults \in Nat /\ MaxFaults \in Nat
      /\ k.host = h /\ k.name = n /\ k.id = engine[h][n].id
      /\ k.pc \in {"startNew", "storeNew", "removeNew"}
  BY ConstantsAssumption DEF IInv, TypeOK, Shaped, Owns
<1>1. StillThere(t)
  BY <1>0 DEF StillThere, Live
<1>2. ASSUME NEW p, Continue(t, p), p \in {"storeNew", "removeNew"},
             p = "removeNew" => faults' >= 1
      PROVE  Owns(task[t], h, n, faults)'
  <2>1. task'[t] = [k EXCEPT !.pc = p]
    BY <1>0, <1>2 DEF Continue
  <2>2. /\ task'[t].pc = p /\ task'[t].host = h /\ task'[t].name = n
        /\ task'[t].id = engine'[h][n].id
    BY <1>0, <2>1 DEF TaskRecord
  <2> QED BY <1>2, <2>2 DEF Owns
<1>3. CASE StartNew(t)
  <2>1. CASE Continue(t, "storeNew")
    BY <1>2, <2>1
  <2>2. CASE Fault /\ Continue(t, "removeNew")
    BY <1>0, <1>2, <2>2 DEF Fault
  <2> QED BY <1>1, <1>3, <2>1, <2>2 DEF StartNew
<1>4. CASE StoreNew(t)
  <2>1. CASE PutConfig(t)
    <3>1. k.cfg \in Definition /\ config'[n] = k.cfg
      BY <1>0, <2>1 DEF Shape, HoldsDefinition, PutConfig
    <3> QED BY <3>1, NoneAssumption
  <2>2. CASE Fault /\ Continue(t, "removeNew")
    BY <1>0, <1>2, <2>2 DEF Fault
  <2> QED BY <1>4, <2>1, <2>2 DEF StoreNew
<1>5. CASE RemoveNew(t)
  <2>1. faults >= 1
    BY <1>5 DEF RemoveNew, At, Owns
  <2>2. ~Fault
    BY <1>0, <2>1 DEF Fault
  <2>3. SetLive(t, None)
    BY <1>1, <1>5, <2>2 DEF RemoveNew
  <2> QED BY <1>0, <2>3, LiveSet
<1>6. k.pc \notin {"startNew", "storeNew", "removeNew"} \/ StartNew(t) \/ StoreNew(t)
      \/ RemoveNew(t)
  <2>1. CASE CheckName(t) \/ CheckHost(t) \/ StoreAndPrepare(t) \/ StartPreparing(t)
             \/ AwaitBuild(t) \/ AwaitSync(t) \/ ResolveImage(t) \/ ListVolumes(t)
             \/ CreateVolume(t) \/ CreateContainer(t)
    BY <2>1 DEF CheckName, CheckHost, StoreAndPrepare, StartPreparing, AwaitBuild,
       AwaitSync, ResolveImage, ListVolumes, CreateVolume, CreateContainer, At
  <2>2. CASE DropFresh(t) \/ FindPrevious(t) \/ StopPrevious(t) \/ RemovePrevious(t)
             \/ StoreReplaced(t) \/ StartReplaced(t) \/ CheckAdopt(t) \/ StoreAdopted(t)
    BY <2>2 DEF DropFresh, FindPrevious, StopPrevious, RemovePrevious, StoreReplaced,
       StartReplaced, CheckAdopt, StoreAdopted, At
  <2>4. CASE Locate(t)
    <3>1. At(t, "locate")
      BY <2>4 DEF Locate
    <3> QED BY <3>1 DEF At
  <2>5. CASE LoadConfig(t)
    BY <2>5 DEF LoadConfig, At
  <2>3. CASE StartExisting(t) \/ StopContainer(t) \/ RestartContainer(t)
             \/ StopToRemove(t) \/ RemoveContainer(t) \/ DropVolume(t) \/ Forget(t)
    BY <2>3 DEF StartExisting, StopContainer, RestartContainer, StopToRemove,
       RemoveContainer, DropVolume, Forget, At
  <2> QED BY <2>1, <2>2, <2>3, <2>4, <2>5 DEF Step
<1> QED
  BY <1>0, <1>3, <1>4, <1>5, <1>6

\* Failures are counted, never forgotten.
LEMMA FaultsGrow ==
  ASSUME IInv, NEW t \in Tasks, Step(t)
  PROVE  faults' >= faults /\ UNCHANGED <<calls, crashes>>
<1>1. (Fault \/ Fine \/ faults' = faults) => faults' >= faults
  BY DEF Fault, Fine, IInv, TypeOK
<1>2. (Fault \/ Fine \/ faults' = faults) /\ UNCHANGED <<calls, crashes>>
  <2>1. CASE CheckName(t) \/ StoreAndPrepare(t) \/ StartPreparing(t) \/ AwaitBuild(t)
             \/ AwaitSync(t)
    BY <2>1 DEF CheckName, StoreAndPrepare, StartPreparing, AwaitBuild, AwaitSync,
       boundVars
  <2>2. CASE ResolveImage(t) \/ ListVolumes(t) \/ CreateVolume(t) \/ CreateContainer(t)
             \/ StartNew(t) \/ StoreNew(t) \/ RemoveNew(t) \/ DropFresh(t)
    BY <2>2 DEF ResolveImage, ListVolumes, CreateVolume, CreateContainer, StartNew,
       StoreNew, RemoveNew, DropFresh, boundVars
  <2>3. CASE FindPrevious(t) \/ StopPrevious(t) \/ RemovePrevious(t)
             \/ StoreReplaced(t) \/ StartReplaced(t) \/ StopToRemove(t)
             \/ RemoveContainer(t) \/ DropVolume(t) \/ Forget(t)
    BY <2>3 DEF FindPrevious, StopPrevious, RemovePrevious, StoreReplaced,
       StartReplaced, StopToRemove, RemoveContainer, DropVolume, Forget, boundVars
  <2>4. CASE CheckAdopt(t) \/ StoreAdopted(t) \/ StartExisting(t) \/ StopContainer(t)
             \/ RestartContainer(t)
    BY <2>4 DEF CheckAdopt, StoreAdopted, StartExisting, StopContainer,
       RestartContainer, boundVars
  <2>5. CASE CheckHost(t)
    BY <2>5 DEF CheckHost, boundVars
  <2>6. CASE Locate(t)
    <3>1. Fault \/ Fine
      BY <2>6 DEF Locate
    <3>2. UNCHANGED boundVars
      BY <2>6 DEF Locate
    <3> QED BY <3>1, <3>2 DEF boundVars
  <2>7. CASE LoadConfig(t)
    BY <2>7 DEF LoadConfig, boundVars
  <2> QED BY <2>1, <2>2, <2>3, <2>4, <2>5, <2>6, <2>7 DEF Step
<1> QED BY <1>1, <1>2

\* Whatever container is without a definition after a step has its owner.
LEMMA StepOwned ==
  ASSUME IInv, AllTame, Owned, MaxFaults <= 1, NEW t \in Tasks, Step(t)
  PROVE  Owned'
<1> SUFFICES ASSUME crashes' = 0, NEW h \in Hosts, NEW n \in Names,
                    engine'[h][n] # None, config'[n] = None
             PROVE  \E u \in Tasks : Owns(task[u], h, n, faults)'
  BY DEF Owned
<1>1. crashes = 0 /\ faults' >= faults /\ faults \in Nat /\ faults' \in Nat /\ config[n] = None
  BY FaultsGrow, ConfigKept, Inductive DEF IInv, TypeOK, Next
<1>2. CASE engine[h][n] # None /\ engine'[h][n].id = engine[h][n].id
  <2>1. PICK u \in Tasks : Owns(task[u], h, n, faults)
    BY <1>1, <1>2 DEF Owned
  <2>2. CASE u = t
    BY <1>2, <2>1, <2>2, OwnerStep
  <2>3. CASE u # t
    <3>1. task'[u] = task[u]
      BY <2>1, <2>3, OthersStay DEF Owns, At
    <3> QED BY <1>1, <1>2, <2>1, <3>1 DEF Owns
  <2> QED BY <2>2, <2>3
<1>3. CASE /\ At(t, "createContainer") /\ task[t].host = h /\ task[t].name = n
           /\ engine'[h][n].id = nextId
           /\ task' = [task EXCEPT ![t].id = nextId, ![t].pc = AfterCreate(t)]
  <2>1. task[t] \in TaskRecord /\ task \in [Tasks -> TaskRecord]
    BY DEF IInv, TypeOK
  <2>2. task[t].mode # "replace"
    BY <1>1, <1>3 DEF AllTame, Tame, At, Adopting
  <2>3. AfterCreate(t) \in {"startNew", "storeNew"}
    BY <2>2 DEF AfterCreate
  <2>4. /\ task'[t].pc = AfterCreate(t) /\ task'[t].host = h /\ task'[t].name = n
        /\ task'[t].id = nextId
    BY <1>3, <2>1 DEF TaskRecord
  <2>5. Owns(task[t], h, n, faults)'
    BY <1>3, <2>3, <2>4 DEF Owns
  <2> QED BY <2>5
<1> QED BY <1>2, <1>3, EngineStep
\* What Locate does with the container it found, or with none, removes nothing.
LEMMA LocateTame ==
  ASSUME NEW r \in TaskRecord, NEW c, r.mode \in {"start", "replace", "stop", "restart"}
  PROVE  LET q == [r EXCEPT !.pc = AfterLocate(r)]
         IN  q.pc = "idle" \/ Tame(q, c)
<1> DEFINE q == [r EXCEPT !.pc = AfterLocate(r)]
<1>1. q.pc = AfterLocate(r) /\ q.mode = r.mode
  BY DEF TaskRecord
<1>2. CASE r.mode = "start"
  <2>1. AfterLocate(r) = "loadConfig"
    BY <1>2 DEF AfterLocate
  <2> QED BY <1>1, <1>2, <2>1 DEF Tame, Removing
<1>3. CASE r.mode = "replace"
  <2>1. AfterLocate(r) \in {"idle", "checkAdopt"}
    BY <1>3 DEF AfterLocate
  <2> QED BY <1>1, <1>3, <2>1 DEF Tame, Removing, Adopting
<1>4. CASE r.mode = "stop"
  <2>1. AfterLocate(r) \in {"idle", "stopContainer"}
    BY <1>4 DEF AfterLocate
  <2> QED BY <1>1, <1>4, <2>1 DEF Tame, Removing
<1>5. CASE r.mode = "restart"
  <2>1. AfterLocate(r) \in {"idle", "restartContainer"}
    BY <1>5 DEF AfterLocate
  <2> QED BY <1>1, <1>5, <2>1 DEF Tame, Removing
<1> QED BY <1>2, <1>3, <1>4, <1>5

\* A task that removes nothing goes on that way, and an edit or recreate works on a
\* name that has its definition.
LEMMA StepTame ==
  ASSUME IInv, AllTame, NEW t \in Tasks, Step(t)
  PROVE  AllTame'
<1> DEFINE k == task[t]
<1>0. /\ k \in TaskRecord /\ Shape(k) /\ task \in [Tasks -> TaskRecord] /\ Tame(k, config)
      /\ config \in [Names -> Definition \cup {None}] /\ ~At(t, "idle")
      /\ k.name \in Names /\ k.mode \in Modes
  BY StepTasks DEF IInv, TypeOK, Shaped, AllTame, TaskStep, Shape, At
<1>k. \A n \in Names : config[n] # None => config'[n] # None
  BY ConfigKept
<1>i. Tame(Idle, config')
  BY NoneAssumption DEF Tame, Idle, Removing, Adopting, Modes
<1>o. \A u \in Tasks : Tame(task[u], config')
  <2> SUFFICES ASSUME NEW u \in Tasks PROVE Tame(task[u], config')
    OBVIOUS
  <2>1. Tame(task[u], config) /\ Shape(task[u])
    BY DEF AllTame, IInv, Shaped
  <2> QED BY <1>k, <2>1 DEF Tame, Shape, Adopting
<1>1. ASSUME NEW r, task' = [task EXCEPT ![t] = r], Tame(r, config') PROVE AllTame'
  BY <1>0, <1>1, <1>o DEF AllTame
<1>2. CASE Finish(t)
  BY <1>1, <1>2, <1>i DEF Finish
<1>3. ASSUME NEW r, task' = [task EXCEPT ![t] = r], r.mode = k.mode, r.name = k.name,
             r.pc \in HoldsDefinition \cup {"stopContainer", "restartContainer", "prepare"},
             k.pc \notin Adopting \/ r.pc \in Adopting \/ config'[k.name] # None
      PROVE  AllTame'
  <2>1. Tame(r, config')
    BY <1>0, <1>3, <1>k DEF Tame, HoldsDefinition, Removing, Adopting
  <2> QED BY <1>1, <1>3, <2>1
<1>4. ASSUME NEW p \in HoldsDefinition, Continue(t, p),
             k.pc \notin Adopting \/ p \in Adopting
      PROVE  AllTame'
  <2> DEFINE r == [k EXCEPT !.pc = p]
  <2>1. task' = [task EXCEPT ![t] = r] /\ r.pc = p /\ r.mode = k.mode /\ r.name = k.name
    BY <1>0, <1>4 DEF Continue, TaskRecord
  <2> HIDE DEF r
  <2> QED BY <1>3, <1>4, <2>1
<1>5. ASSUME NEW m, Prepare(t, m), m # "remove", m = "replace" => config'[k.name] # None
      PROVE  AllTame'
  <2> DEFINE r == [Idle EXCEPT !.pc = "awaitJobs", !.mode = m, !.name = k.name,
                     !.host = k.host, !.cfg = k.cfg, !.need = k.need]
  <2>1. r.pc = "awaitJobs" /\ r.mode = m /\ r.name = k.name
    BY DEF Idle
  <2>2. Tame(r, config')
    BY <1>5, <2>1 DEF Tame, Removing
  <2>3. Finish(t) \/ \E w \in Runners : task' = [task EXCEPT ![t] = Idle, ![w] = r]
    BY <1>5 DEF Prepare
  <2> HIDE DEF r
  <2> QED BY <1>0, <1>2, <1>i, <1>o, <2>2, <2>3 DEF AllTame
<1>6. CASE CheckName(t) \/ StopPrevious(t) \/ RemovePrevious(t) \/ StoreReplaced(t)
           \/ StartReplaced(t) \/ StartExisting(t) \/ StopContainer(t)
           \/ RestartContainer(t) \/ DropFresh(t) \/ ResolveImage(t) \/ CreateVolume(t)
           \/ StartNew(t) \/ StoreNew(t) \/ RemoveNew(t)
  BY <1>2, <1>4, <1>6 DEF CheckName, StopPrevious, RemovePrevious, StoreReplaced,
     StartReplaced, StartExisting, StopContainer, RestartContainer, DropFresh,
     ResolveImage, CreateVolume, StartNew, StoreNew, RemoveNew, HoldsDefinition,
     Adopting, At
<1>7. CASE StopToRemove(t) \/ RemoveContainer(t) \/ DropVolume(t) \/ Forget(t)
  BY <1>0, <1>7 DEF StopToRemove, RemoveContainer, DropVolume, Forget, At, Tame, Removing
<1>8. CASE CheckHost(t)
  <2>1. PICK need, p : /\ task' = [task EXCEPT ![t].need = need, ![t].pc = p]
                       /\ p \in {Ready(k), "prepare", "store"}
    BY <1>8 DEF CheckHost
  <2> DEFINE r == [k EXCEPT !.need = need, !.pc = p]
  <2>2. task' = [task EXCEPT ![t] = r] /\ r.pc = p /\ r.mode = k.mode /\ r.name = k.name
    BY <1>0, <2>1 DEF TaskRecord
  <2>3. p \in HoldsDefinition \cup {"prepare"}
    BY <2>1, GateHeld DEF HoldsDefinition
  <2>4. k.pc \notin Adopting
    BY <1>8 DEF CheckHost, At, Adopting
  <2> HIDE DEF r
  <2> QED BY <1>3, <2>2, <2>3, <2>4
<1>9. CASE StoreAndPrepare(t)
  <2>1. k.cfg \in Definition /\ k.mode # "remove"
    BY <1>0, <1>9 DEF StoreAndPrepare, At, Shape, HoldsDefinition, Tame
  <2>2. PutConfig(t) => config'[k.name] # None
    BY <1>0, <2>1, NoneAssumption DEF PutConfig
  <2> QED BY <1>2, <1>5, <1>9, <2>1, <2>2 DEF StoreAndPrepare
<1>10. CASE StartPreparing(t)
  BY <1>5, <1>10 DEF StartPreparing
<1>11. CASE AwaitBuild(t)
  <2>1. CASE task' = [task EXCEPT ![t].need = @ \ {"image"}]
    <3> DEFINE r == [k EXCEPT !.need = @ \ {"image"}]
    <3>1. /\ task' = [task EXCEPT ![t] = r] /\ r.pc = "awaitJobs" /\ k.pc = "awaitJobs"
          /\ r.mode = k.mode /\ r.name = k.name
      BY <1>0, <1>11, <2>1 DEF AwaitBuild, At, TaskRecord
    <3> HIDE DEF r
    <3> QED BY <1>3, <3>1 DEF HoldsDefinition, Adopting
  <2> QED BY <1>2, <1>11, <2>1 DEF AwaitBuild
<1>12. CASE AwaitSync(t)
  <2> DEFINE r == [[k EXCEPT !.need = {}] EXCEPT !.pc = Ready(k)]
             q == [[k EXCEPT !.need = {}] EXCEPT !.pc = "locate", !.host = LocateFrom(k.name)]
  <2>1. /\ r.pc = Ready(k) /\ r.mode = k.mode /\ r.name = k.name
        /\ q.pc = "locate" /\ q.mode = k.mode
    BY <1>0 DEF TaskRecord
  <2>2. Finish(t) \/ task' = [task EXCEPT ![t] = r]
        \/ (k.mode = "start" /\ task' = [task EXCEPT ![t] = q])
    BY <1>12 DEF AwaitSync
  <2>3. k.pc = "awaitJobs"
    BY <1>12 DEF AwaitSync, At
  <2> HIDE DEF r, q
  <2>4. k.mode = "start" => Tame(q, config')
    BY <2>1 DEF Tame, Removing, Adopting
  <2> QED BY <1>1, <1>2, <1>3, <2>1, <2>2, <2>3, <2>4, GateHeld DEF Adopting
<1>13. CASE FindPrevious(t)
  <2>1. ASSUME NEW id, NEW on, NEW p \in {"resolveImage", "stopPrevious", "removePrevious"},
               task' = [task EXCEPT ![t].id = id, ![t].on = on, ![t].pc = p]
        PROVE  AllTame'
    <3> DEFINE r == [k EXCEPT !.id = id, !.on = on, !.pc = p]
    <3>1. /\ task' = [task EXCEPT ![t] = r] /\ r.pc = p /\ r.mode = k.mode
          /\ r.name = k.name /\ k.pc = "findPrevious"
      BY <1>0, <1>13, <2>1 DEF TaskRecord, FindPrevious, At
    <3> HIDE DEF r
    <3> QED BY <1>3, <3>1 DEF HoldsDefinition, Adopting
  <2>2. CASE task' = [task EXCEPT ![t].pc = "resolveImage", ![t].id = 0, ![t].on = FALSE]
    <3>1. task' = [task EXCEPT ![t].id = 0, ![t].on = FALSE, ![t].pc = "resolveImage"]
      BY <1>0, <2>2 DEF TaskRecord
    <3> QED BY <2>1, <3>1
  <2>3. CASE task' = [task EXCEPT ![t].id = Live(t).id,
                      ![t].on = Live(t).state = "running",
                      ![t].pc = IF Live(t).state = "running" THEN "stopPrevious"
                                                              ELSE "removePrevious"]
    <3> DEFINE on == Live(t).state = "running"
               p == IF on THEN "stopPrevious" ELSE "removePrevious"
    <3>1. p \in {"resolveImage", "stopPrevious", "removePrevious"}
      OBVIOUS
    <3>2. task' = [task EXCEPT ![t].id = Live(t).id, ![t].on = on, ![t].pc = p]
      BY <2>3
    <3> HIDE DEF on, p
    <3> QED BY <2>1, <3>1, <3>2
  <2> QED BY <1>2, <1>13, <2>2, <2>3 DEF FindPrevious
<1>14. CASE ListVolumes(t)
  <2>1. PICK fresh, since :
          task' = [task EXCEPT ![t].pc = "createVolume", ![t].fresh = fresh, ![t].since = since]
    BY <1>14 DEF ListVolumes
  <2> DEFINE r == [k EXCEPT !.pc = "createVolume", !.fresh = fresh, !.since = since]
  <2>2. /\ task' = [task EXCEPT ![t] = r] /\ r.pc = "createVolume" /\ r.mode = k.mode
        /\ r.name = k.name /\ k.pc = "listVolumes"
    BY <1>0, <1>14, <2>1 DEF TaskRecord, ListVolumes, At
  <2> HIDE DEF r
  <2> QED BY <1>3, <2>2 DEF HoldsDefinition, Adopting
<1>15. CASE CreateContainer(t)
  <2>1. CASE task' = [task EXCEPT ![t].id = nextId, ![t].pc = AfterCreate(t)]
    <3> DEFINE r == [k EXCEPT !.id = nextId, !.pc = AfterCreate(t)]
    <3>1. /\ task' = [task EXCEPT ![t] = r] /\ r.pc = AfterCreate(t) /\ r.mode = k.mode
          /\ r.name = k.name /\ k.pc = "createContainer"
      BY <1>0, <1>15, <2>1 DEF TaskRecord, CreateContainer, At
    <3>2. AfterCreate(t) \in HoldsDefinition
      BY DEF AfterCreate, HoldsDefinition
    <3> HIDE DEF r
    <3> QED BY <1>3, <3>1, <3>2 DEF Adopting
  <2>2. CASE Continue(t, "dropFresh")
    BY <1>4, <1>15, <2>2 DEF CreateContainer, At, HoldsDefinition, Adopting
  <2> QED BY <1>15, <2>1, <2>2 DEF CreateContainer
<1>16. CASE Locate(t)
  <2>1. ASSUME NEW r \in TaskRecord, r.mode = k.mode,
               GoOrFinish(t, [r EXCEPT !.pc = AfterLocate(r)])
        PROVE  AllTame'
    <3>1. k.mode \in {"start", "replace", "stop", "restart"}
      BY <1>0, <1>16 DEF Locate, At, Tame
    <3> DEFINE q == [r EXCEPT !.pc = AfterLocate(r)]
    <3>2. q.pc = "idle" \/ Tame(q, config')
      BY <2>1, <3>1, LocateTame
    <3>3. GoOrFinish(t, q)
      BY <2>1
    <3> HIDE DEF q
    <3> QED BY <1>1, <1>2, <3>2, <3>3 DEF GoOrFinish
  <2>2. ASSUME NEW h \in Hosts, k.name \in Names, NEW c \in Container,
               LET found == [k EXCEPT !.host = h, !.id = c.id, !.on = c.state = "running",
                               !.cfg = [host |-> h, ver |-> c.ver]]
               IN  GoOrFinish(t, [found EXCEPT !.pc = AfterLocate(found)])
        PROVE  AllTame'
    <3> DEFINE found == [k EXCEPT !.host = h, !.id = c.id, !.on = c.state = "running",
                           !.cfg = [host |-> h, ver |-> c.ver]]
    <3>1. found \in TaskRecord /\ found.mode = k.mode
      BY <1>0, <2>2 DEF TaskRecord, Container, Definition
    <3>2. GoOrFinish(t, [found EXCEPT !.pc = AfterLocate(found)])
      BY <2>2
    <3> HIDE DEF found
    <3> QED BY <2>1, <3>1, <3>2
  <2>3. CASE GoOrFinish(t, [k EXCEPT !.id = 0, !.on = FALSE,
                              !.pc = AfterLocate([k EXCEPT !.id = 0, !.on = FALSE])])
    <3> DEFINE r == [k EXCEPT !.id = 0, !.on = FALSE]
    <3>1. r \in TaskRecord /\ r.mode = k.mode
      BY <1>0 DEF TaskRecord
    <3>2. GoOrFinish(t, [r EXCEPT !.pc = AfterLocate(r)])
      BY <2>3
    <3> HIDE DEF r
    <3> QED BY <2>1, <3>1, <3>2
  <2>4. /\ (IF k.host = None THEN hosts ELSE {k.host}) \subseteq Hosts
        /\ \A h \in Hosts : engine[h][k.name] \in Container \cup {None}
    <3>1. k.pc = "locate" /\ hosts \subseteq Hosts
      BY <1>16 DEF IInv, TypeOK, Locate, At
    <3> QED BY <1>0, <3>1 DEF Shape, TaskRecord, IInv, TypeOK
  <2> QED BY <1>0, <1>2, <1>16, <2>2, <2>3, <2>4 DEF Locate
<1>17. CASE LoadConfig(t)
  <2> DEFINE r1 == [k EXCEPT !.cfg = config[k.name], !.pc = Gate(t, k)]
             r2 == [k EXCEPT !.pc = "checkAdopt"]
             r3 == [k EXCEPT !.pc = "locate", !.host = None]
  <2>1. /\ r1.pc = Gate(t, k) /\ r1.mode = k.mode /\ r1.name = k.name
        /\ r2.pc = "checkAdopt" /\ r2.mode = k.mode /\ r2.name = k.name
        /\ r3.pc = "locate" /\ r3.mode = k.mode
    BY <1>0 DEF TaskRecord
  <2>2. \/ task' = [task EXCEPT ![t] = r1]
        \/ task' = [task EXCEPT ![t] = r2]
        \/ task' = [task EXCEPT ![t] = r3]
    BY <1>17 DEF LoadConfig
  <2>3. k.pc = "loadConfig" /\ k.mode = "start"
    BY <1>0, <1>17 DEF LoadConfig, At, Tame
  <2> HIDE DEF r1, r2, r3
  <2>4. Tame(r3, config')
    BY <2>1, <2>3 DEF Tame, Removing, Adopting
  <2> QED BY <1>1, <1>3, <2>1, <2>2, <2>3, <2>4, GateHeld DEF Adopting, HoldsDefinition
<1>18. CASE CheckAdopt(t) \/ StoreAdopted(t)
  <2> DEFINE cfg == [k.cfg EXCEPT !.ver = IF k.input = None THEN @ ELSE k.input]
             go == [k EXCEPT !.pc = Gate(t, k)]
             again == [k EXCEPT !.pc = "checkHost", !.cfg = cfg]
             stop == [k EXCEPT !.pc = "idle"]
  <2>1. /\ go.pc = Gate(t, k) /\ go.mode = k.mode /\ go.name = k.name
        /\ again.pc = "checkHost" /\ again.mode = k.mode /\ again.name = k.name
        /\ stop.pc = "idle"
    BY <1>0 DEF TaskRecord
  <2>2. Adopted(t, k) \in {go, again, stop}
    <3>1. again = [k EXCEPT !.pc = "checkHost",
                     !.cfg.ver = IF k.input = None THEN @ ELSE k.input]
      BY <1>0 DEF TaskRecord
    <3> QED BY <3>1 DEF Adopted
  <2> HIDE DEF go, again, stop
  <2>3. ASSUME GoOrFinish(t, Adopted(t, k)), config'[k.name] # None PROVE AllTame'
    <3>1. CASE Adopted(t, k) \in {go, again}
      <4>1. Adopted(t, k).pc \in HoldsDefinition
        BY <2>1, <3>1, GateHeld DEF HoldsDefinition
      <4> QED BY <1>2, <1>3, <2>1, <2>3, <3>1, <4>1 DEF GoOrFinish
    <3>2. CASE Adopted(t, k) = stop
      BY <1>2, <2>1, <2>3, <3>2 DEF GoOrFinish
    <3> QED BY <2>2, <3>1, <3>2
  <2>4. CASE CheckAdopt(t)
    BY <1>0, <1>4, <1>k, <2>3, <2>4 DEF CheckAdopt, HoldsDefinition, Adopting
  <2>5. CASE StoreAdopted(t)
    <3>1. k.cfg \in Definition
      BY <1>0, <2>5 DEF StoreAdopted, At, Shape, HoldsDefinition
    <3>2. PutConfig(t) => config'[k.name] # None
      BY <1>0, <3>1, NoneAssumption DEF PutConfig
    <3> QED BY <1>2, <2>3, <2>5, <3>2 DEF StoreAdopted
  <2> QED BY <1>18, <2>4, <2>5
<1> QED
  BY <1>6, <1>7, <1>8, <1>9, <1>10, <1>11, <1>12, <1>13, <1>14, <1>15, <1>16, <1>17,
     <1>18 DEF Step

\* A call that is not a remove starts tame: an edit or recreate of a name that has no
\* definition first adopts the container it finds.
LEMMA ApiTame ==
  ASSUME IInv, AllTame, "remove" \notin Calls, NEW t \in Requests, Api(t)
  PROVE  AllTame'
<1>0. task \in [Tasks -> TaskRecord] /\ t \in Tasks
  BY DEF IInv, TypeOK, Tasks
<1>1. ASSUME NEW kind, NEW k, Call(t, kind, k), Tame(k, config) PROVE AllTame'
  BY <1>0, <1>1 DEF Call, AllTame
<1>2. ASSUME NEW n, NEW h, NEW v, CallCreate(t, n, h, v) PROVE AllTame'
  <2> DEFINE k == [Idle EXCEPT !.pc = "checkName", !.mode = "create", !.name = n,
                     !.host = h, !.cfg = [host |-> h, ver |-> v]]
  <2>1. Call(t, "create", k)
    BY <1>2 DEF CallCreate
  <2>2. k.pc = "checkName" /\ k.mode = "create"
    BY DEF Idle
  <2> HIDE DEF k
  <2>3. Tame(k, config)
    BY <2>2 DEF Tame, Removing
  <2> QED BY <1>1, <2>1, <2>3
<1>3. ASSUME NEW n, NEW v, CallReplace(t, n, v) PROVE AllTame'
  <2> DEFINE k == [Idle EXCEPT !.pc = "checkHost", !.mode = "replace", !.name = n,
                     !.host = config[n].host, !.input = v,
                     !.cfg = IF v = None THEN config[n]
                                         ELSE [config[n] EXCEPT !.ver = v]]
  <2>1. Call(t, IF v = None THEN "recreate" ELSE "replace", k) /\ config[n] # None
    BY <1>3 DEF CallReplace
  <2>2. k.pc = "checkHost" /\ k.mode = "replace" /\ k.name = n
    BY DEF Idle
  <2> HIDE DEF k
  <2>3. Tame(k, config)
    BY <2>1, <2>2 DEF Tame, Removing
  <2> QED BY <1>1, <2>1, <2>3
<1>4. ASSUME NEW n, NEW mode \in {"replace", "start", "stop", "restart", "remove"},
             NEW v, NEW vols, CallLocated(t, n, mode, v, vols)
      PROVE  AllTame'
  <2> DEFINE k == [Idle EXCEPT !.pc = "locate", !.mode = mode, !.name = n,
                     !.host = LocateFrom(n), !.input = v, !.vols = vols]
             kind == IF mode = "replace" /\ v = None THEN "recreate" ELSE mode
  <2>1. Call(t, kind, k)
    BY <1>4 DEF CallLocated
  <2>2. k.pc = "locate" /\ k.mode = mode
    BY DEF Idle
  <2>3. mode # "remove"
    BY <2>1 DEF Call
  <2> HIDE DEF k, kind
  <2>4. Tame(k, config)
    BY <2>2, <2>3 DEF Tame, Removing, Adopting
  <2> QED BY <1>1, <2>1, <2>4
<1>5. ASSUME NEW n, CallRemoveDangling(t, n) PROVE AllTame'
  BY <1>5 DEF CallRemoveDangling, Call
<1>6. ASSUME NEW n, NEW h, CallReconcile(t, n, h) PROVE AllTame'
  <2> DEFINE k == [Idle EXCEPT !.pc = "checkAdopt", !.mode = "adopt", !.name = n,
                     !.host = h, !.cfg = [host |-> h, ver |-> engine[h][n].ver]]
  <2>1. Call(t, "adopt", k)
    BY <1>6 DEF CallReconcile
  <2>2. k.pc = "checkAdopt" /\ k.mode = "adopt"
    BY DEF Idle
  <2> HIDE DEF k
  <2>3. Tame(k, config)
    BY <2>2 DEF Tame, Removing
  <2> QED BY <1>1, <2>1, <2>3
<1> QED BY <1>2, <1>3, <1>4, <1>5, <1>6 DEF Api

\* Where no call removes a container, and whichever single call of the engine or of the
\* config store fails, no container is left without its definition once the server has
\* come to rest: however the calls interleave, the rollback of a create takes away the
\* container it made, and an edit only ever creates one for a name that is stored
\* (containers/service.ts: materialize, doReplace, adopt).
THEOREM RollbackIsComplete ==
  ASSUME "remove" \notin Calls, MaxFaults <= 1
  PROVE  Spec => []NoOrphans
<1> DEFINE J == IInv /\ AllTame /\ Owned
<1>0. Tame(Idle, config) /\ Tame(Idle, config')
  BY NoneAssumption DEF Tame, Idle, Removing, Adopting, Modes
<1>1. Init => J
  BY <1>0, Inductive DEF Init, AllTame, Owned
<1>2. J /\ [Next]_vars => J'
  <2> SUFFICES ASSUME J, [Next]_vars PROVE AllTame' /\ Owned'
    BY Inductive
  <2>0. task \in [Tasks -> TaskRecord]
    BY DEF IInv, TypeOK
  <2>1. ASSUME NEW t \in Requests, Api(t)
        PROVE  AllTame' /\ Owned'
    <3>1. PICK kind, k : Call(t, kind, k)
      BY <2>1, ApiCalls
    <3>2. /\ task' = [task EXCEPT ![t] = k] /\ task[t].pc = "idle"
          /\ UNCHANGED <<config, engine, faults, crashes>>
      BY <3>1 DEF Call, engineVars, At
    <3>3. \A u \in Tasks : task[u].pc # "idle" => task'[u] = task[u]
      BY <2>0, <3>2
    <3>4. Owned'
      BY <3>2, <3>3 DEF Owned, Owns
    <3> QED BY <2>1, <3>4, ApiTame
  <2>2. ASSUME NEW t \in Tasks, Step(t)
        PROVE  AllTame' /\ Owned'
    BY <2>2, StepTame, StepOwned
  <2>3. ASSUME NEW h \in Hosts, DeleteHost(h)
        PROVE  AllTame' /\ Owned'
    <3>1. UNCHANGED <<config, task, engine, faults, crashes>>
      BY <2>3 DEF DeleteHost, engineVars, boundVars
    <3>2. AllTame'
      BY <3>1 DEF AllTame
    <3> QED BY <3>1, <3>2 DEF Owned, Owns
  <2>4. CASE Restart
    <3>1. crashes' # 0
      BY <2>4 DEF Restart, IInv, TypeOK
    <3>2. \A u \in Tasks : task'[u] = Idle
      BY <2>4 DEF Restart
    <3> QED BY <1>0, <3>1, <3>2 DEF AllTame, Owned
  <2>5. CASE UNCHANGED vars
    BY <2>5 DEF vars, AllTame, Owned, Owns
  <2> QED BY <2>1, <2>2, <2>3, <2>4, <2>5 DEF Next, Rest
<1>3. J => NoOrphans
  <2> SUFFICES ASSUME J, AllIdle, crashes = 0 PROVE \A h \in hosts, n \in Names :
                                engine[h][n] # None => config[n] # None
    BY DEF NoOrphans
  <2>1. hosts \subseteq Hosts /\ \A u \in Tasks : task[u].pc = "idle"
    BY DEF IInv, TypeOK, AllIdle, At
  <2> QED BY <2>1 DEF Owned, Owns
<1> QED BY <1>1, <1>2, <1>3, PTL DEF Spec

-----------------------------------------------------------------------------
(* Settled, for calls that come one at a time.  Its first part, of what is *)
(* left where nothing has failed, is a statement about rest; in between, a *)
(* definition may be stored before its container is there, or the          *)
(* container gone before its definition.  SoundIn says what the task that  *)
(* has come that far knows, so that the steps it has left restore it.      *)

\* the definition of n stored in c is what its container on engines e was made from
WholeIn(n, c, e) ==
  c[n] # None => e[c[n].host][n] # None /\ e[c[n].host][n].ver = c[n].ver

\* a task k that has begun what leaves its name whole only at the end
Between(k) ==
  \/ k.pc = "awaitJobs" /\ k.mode # "start"
  \/ k.pc \in {"findPrevious", "stopPrevious", "removePrevious", "resolveImage",
               "listVolumes", "createVolume", "createContainer", "startNew", "storeNew",
               "storeReplaced", "removeContainer", "dropVolume", "forget"}

\* what a task k knows of definitions c, engines e, images b and tools s
SoundIn(k, c, e, b, s) ==
  LET live  == e[k.host][k.name]
      ready == ImageOf[k.cfg.ver] \notin Recipes \ b[k.host]
  IN
  /\ k.pc \in HoldsDefinition \cup {"loadConfig"} => k.cfg.host = k.host
  /\ k.pc = "checkName" => k.mode = "create"
  /\ k.pc = "store" => k.mode \in {"create", "replace"}
  /\ k.pc \in {"prepare", "loadConfig"} => k.mode = "start"
  /\ k.pc \in {"checkHost", "awaitJobs"} => k.mode \in {"create", "replace", "start"}
  /\ k.mode = "start" /\ k.pc \notin {"locate", "awaitJobs"} => k.id # 0
  /\ k.mode = "create" /\ k.pc \in {"checkName", "checkHost", "store"} => c[k.name] = None
  /\ k.mode = "create" /\ k.pc \in {"checkHost", "store", "awaitJobs"} => live = None
  /\ k.pc \in {"resolveImage", "listVolumes", "createVolume", "createContainer"}
       => live = None
  /\ k.pc \in {"stopPrevious", "removePrevious", "startNew", "storeNew", "storeReplaced"}
       => live # None /\ live.id = k.id
  /\ k.pc \in {"startNew", "storeNew", "storeReplaced"} => live.ver = k.cfg.ver
  /\ k.pc \notin {"removeNew", "dropFresh"}
  /\ k.mode # "start" /\ k.pc \in {"store", "awaitJobs"} /\ "image" \notin k.need => ready
  /\ k.pc \in Teardown => ready /\ s[k.host] /\ k.mode # "start"
  /\ k.pc = "locate" => k.host = IF c[k.name] = None THEN None ELSE c[k.name].host
  /\ k.pc = "locate" /\ k.mode = "replace" => c[k.name] = None
  /\ k.pc \in {"loadConfig", "checkAdopt", "storeAdopted"}
       => live # None /\ k.cfg.ver = live.ver
  /\ k.pc = "loadConfig" /\ c[k.name] # None => c[k.name].host = k.host
  /\ k.pc \in {"checkAdopt", "storeAdopted"} => c[k.name] = None

\* a preparation never comes to store a definition and prepare again
Handed(k) ==
  /\ k.pc \notin {"checkName", "checkHost", "store", "prepare"}
  /\ k.mode = "replace" => k.pc \notin {"locate", "checkAdopt", "storeAdopted"}

WholeSoFar ==
  faults = 0 /\ crashes = 0 =>
    /\ \A t \in Tasks : ~At(t, "idle") => SoundIn(task[t], config, engine, built, synced)
    /\ \A w \in Runners : Handed(task[w])
    /\ \A n \in Names :
         \/ WholeIn(n, config, engine)
         \/ \E t \in Tasks : ~At(t, "idle") /\ task[t].name = n /\ Between(task[t])

\* at most one call or preparation is in progress
Alone == \A t, u \in Tasks : ~At(t, "idle") /\ ~At(u, "idle") => t = u

\* A step of t keeps the others out of the way.
LEMMA StepAlone ==
  ASSUME IInv, Alone, NEW t \in Tasks, TaskStep(t)
  PROVE  Alone'
<1>1. task \in [Tasks -> TaskRecord] /\ Runners \subseteq Tasks
      /\ \A u \in Tasks : u # t => At(u, "idle")
  BY DEF IInv, TypeOK, Tasks, Alone, TaskStep
<1>2. CASE Moves(t)
  BY <1>1, <1>2 DEF Moves, Alone, At
<1>3. CASE Finish(t)
  BY <1>1, <1>3 DEF Finish, Alone, At, Idle
<1>4. ASSUME NEW m, Prepare(t, m), ~Finish(t) PROVE Alone'
  <2>1. PICK w \in Runners : \E r : task' = [task EXCEPT ![t] = Idle, ![w] = r]
    BY <1>4 DEF Prepare
  <2>2. \A u \in Tasks : u # w => task'[u].pc = "idle"
    BY <1>1, <2>1 DEF At, Idle
  <2> QED BY <2>2 DEF Alone, At
<1> QED BY <1>2, <1>3, <1>4 DEF TaskStep

\* the engines number their containers from 1
Numbered ==
  nextId # 0 /\ \A h \in Hosts, n \in Names : engine[h][n] # None => engine[h][n].id # 0

\* The numbers of the containers are not 0.
LEMMA StepNumbered ==
  ASSUME IInv, Numbered, NEW t \in Tasks, Step(t)
  PROVE  Numbered'
<1>1. nextId \in Nat
  BY DEF IInv, TypeOK
<1>2. nextId' = nextId \/ nextId' = nextId + 1
  BY StepCounts
<1>3. ASSUME NEW h \in Hosts, NEW n \in Names, engine'[h][n] # None
      PROVE  engine'[h][n].id # 0
  BY <1>3, EngineStep DEF Numbered
<1> QED BY <1>1, <1>2, <1>3 DEF Numbered

\* A step of t touches the definition, the containers and the volumes of no other name.
LEMMA StepLocal ==
  ASSUME IInv, NEW t \in Tasks, Step(t)
  PROVE  \A n \in Names : n # task[t].name =>
           /\ config'[n] = config[n]
           /\ \A h \in Hosts : engine'[h][n] = engine[h][n] /\ volume'[h][n] = volume[h][n]
<1>0. config \in [Names -> Definition \cup {None}]
  BY DEF IInv, TypeOK
<1>1. \A n \in Names : n # task[t].name => config'[n] = config[n]
  <2>1. config' = config \/ PutConfig(t) \/ Forget(t)
    BY DEF Step, CheckName, CheckHost, StoreAndPrepare, StartPreparing, AwaitBuild,
       AwaitSync, ResolveImage, ListVolumes, CreateVolume, CreateContainer, StartNew,
       StoreNew, RemoveNew, DropFresh, FindPrevious, StopPrevious, RemovePrevious,
       StoreReplaced, StartReplaced, Locate, LoadConfig, CheckAdopt, StoreAdopted,
       StartExisting, StopContainer, RestartContainer, StopToRemove, RemoveContainer,
       DropVolume
  <2> QED BY <1>0, <2>1 DEF PutConfig, Forget
<1>2. engine' = engine \/ \E c : SetLive(t, c) /\ task[t].pc \notin {"idle", "locate", "forget"}
  <2>1. CASE StartNew(t) \/ StartReplaced(t) \/ StartExisting(t) \/ RestartContainer(t)
             \/ CreateContainer(t)
    BY <2>1 DEF StartNew, StartReplaced, StartExisting, RestartContainer, CreateContainer,
       RunLive, engineVars, At
  <2>2. CASE StopPrevious(t) \/ StopContainer(t) \/ StopToRemove(t) \/ RemoveNew(t)
             \/ RemovePrevious(t) \/ RemoveContainer(t)
    BY <2>2 DEF StopPrevious, StopContainer, StopToRemove, RemoveNew, RemovePrevious,
       RemoveContainer, StopLive, RemoveLive, At
  <2>3. CASE engine' = engine
    BY <2>3
  <2> QED
    BY <2>1, <2>2, <2>3 DEF Step, CheckName, CheckHost, StoreAndPrepare, StartPreparing,
       AwaitBuild, AwaitSync, ResolveImage, ListVolumes, CreateVolume, StoreNew,
       DropFresh, FindPrevious, StoreReplaced, Locate, LoadConfig, CheckAdopt,
       StoreAdopted, DropVolume, Forget, engineVars
<1>3. volume' = volume \/ \E v : SetVolume(t, v) /\ task[t].pc \notin {"idle", "locate", "forget"}
  <2>1. CASE StartNew(t) \/ StartReplaced(t) \/ StartExisting(t) \/ RestartContainer(t)
    BY <2>1 DEF StartNew, StartReplaced, StartExisting, RestartContainer, RunLive,
       engineVars, At
  <2>2. CASE CreateVolume(t) \/ CreateContainer(t) \/ DropFresh(t) \/ DropVolume(t)
    BY <2>2 DEF CreateVolume, CreateContainer, DropFresh, DropVolume, VolumeEnsured,
       engineVars, At
  <2>3. CASE volume' = volume
    BY <2>3
  <2> QED
    BY <2>1, <2>2, <2>3 DEF Step, CheckName, CheckHost, StoreAndPrepare, StartPreparing,
       AwaitBuild, AwaitSync, ResolveImage, ListVolumes, StoreNew, RemoveNew, FindPrevious,
       StopPrevious, RemovePrevious, StoreReplaced, Locate, LoadConfig, CheckAdopt,
       StoreAdopted, StopContainer, StopToRemove, RemoveContainer, Forget, engineVars
<1> QED BY <1>1, <1>2, <1>3, LiveSet, VolumeSet

\* nothing has failed so far, and one call at most is in progress
Calm ==
  /\ IInv /\ Alone /\ PreparationExclusive /\ Numbered /\ WholeSoFar
  /\ faults = 0 /\ crashes = 0

SoundNext(r) == SoundIn(r, config', engine', built', synced')
WholeNext(n) == WholeIn(n, config', engine')

\* What is known when the one task in progress takes a step.
LEMMA CalmStep ==
  ASSUME Calm, NEW t \in Tasks, Step(t)
  PROVE  /\ task[t] \in TaskRecord /\ Shape(task[t]) /\ task[t].pc # "idle"
         /\ task[t].name \in Names /\ task[t].mode \in Modes
         /\ task \in [Tasks -> TaskRecord]
         /\ SoundIn(task[t], config, engine, built, synced)
         /\ Between(task[t]) \/ WholeIn(task[t].name, config, engine)
         /\ t \in Runners => Handed(task[t])
         /\ \A u \in Tasks : u # t => task[u].pc = "idle"
         /\ \A n \in Names : n # task[t].name => WholeNext(n)
<1>0. /\ task[t] \in TaskRecord /\ Shape(task[t]) /\ ~At(t, "idle")
      /\ task \in [Tasks -> TaskRecord] /\ config \in [Names -> Definition \cup {None}]
  BY StepTasks DEF Calm, IInv, TypeOK, Shaped, TaskStep
<1>1. \A u \in Tasks : u # t => task[u].pc = "idle"
  BY <1>0 DEF Calm, Alone, At
<1>2. /\ SoundIn(task[t], config, engine, built, synced)
      /\ t \in Runners => Handed(task[t])
      /\ \A n \in Names : WholeIn(n, config, engine) \/ (task[t].name = n /\ Between(task[t]))
  BY <1>0, <1>1 DEF Calm, WholeSoFar, At
<1>3. ASSUME NEW n \in Names, n # task[t].name PROVE WholeNext(n)
  <2>1. WholeIn(n, config, engine) /\ config'[n] = config[n]
        /\ \A h \in Hosts : engine'[h][n] = engine[h][n]
    BY <1>2, <1>3, StepLocal DEF Calm
  <2>2. config[n] # None => config[n].host \in Hosts
    BY <1>0 DEF Definition
  <2> QED BY <2>1, <2>2 DEF WholeNext, WholeIn
<1> QED BY <1>0, <1>1, <1>2, <1>3 DEF Shape, At

\* A task that moves on with what it needs to know, and between or whole.
LEMMA WholeMoves ==
  ASSUME Calm, NEW t \in Tasks, Step(t), NEW r, task' = [task EXCEPT ![t] = r],
         r.pc # "idle", r.name = task[t].name, SoundNext(r),
         Between(r) \/ WholeNext(r.name), t \in Runners => Handed(r)
  PROVE  WholeSoFar'
<1>0. /\ task \in [Tasks -> TaskRecord] /\ Runners \subseteq Tasks
      /\ \A u \in Tasks : u # t => task[u].pc = "idle"
      /\ \A n \in Names : n # task[t].name => WholeNext(n)
  BY CalmStep DEF Tasks
<1>1. task'[t] = r /\ \A u \in Tasks : u # t => task'[u] = task[u]
  BY <1>0
<1>2. \A u \in Tasks : task'[u].pc # "idle" => u = t
  BY <1>0, <1>1
<1>3. \A u \in Tasks : task'[u].pc # "idle" => SoundNext(task'[u])
  BY <1>1, <1>2
<1>4. \A w \in Runners : Handed(task'[w])
  <2> SUFFICES ASSUME NEW w \in Runners PROVE Handed(task'[w])
    OBVIOUS
  <2>1. CASE w = t
    BY <1>1, <2>1
  <2>2. CASE w # t
    BY <1>0, <1>1, <2>2 DEF Handed
  <2> QED BY <2>1, <2>2
<1>5. \A n \in Names : WholeNext(n) \/ (r.name = n /\ Between(r))
  BY <1>0
<1> QED BY <1>1, <1>3, <1>4, <1>5 DEF WholeSoFar, SoundNext, WholeNext, At

\* A task that ends has made its name whole.
LEMMA WholeEnds ==
  ASSUME Calm, NEW t \in Tasks, Step(t), Finish(t), WholeNext(task[t].name)
  PROVE  WholeSoFar'
<1>0. /\ task \in [Tasks -> TaskRecord] /\ Runners \subseteq Tasks
      /\ \A u \in Tasks : u # t => task[u].pc = "idle"
      /\ \A n \in Names : n # task[t].name => WholeNext(n)
  BY CalmStep DEF Tasks
<1>1. \A u \in Tasks : task'[u].pc = "idle"
  BY <1>0 DEF Finish, Idle
<1>2. \A w \in Runners : Handed(task'[w])
  BY <1>0, <1>1 DEF Handed
<1>3. \A n \in Names : WholeNext(n)
  BY <1>0
<1> QED BY <1>1, <1>2, <1>3 DEF WholeSoFar, WholeNext, At

\* A call that hands over to a preparation is not one itself, so nothing of its name
\* is in the map and the preparation starts.
LEMMA WholeHandsOver ==
  ASSUME Calm, NEW t \in Tasks, Step(t), t \notin Runners, NEW m \in Modes, Prepare(t, m),
         LET k == task[t]
             r == [Idle EXCEPT !.pc = "awaitJobs", !.mode = m, !.name = k.name,
                     !.host = k.host, !.cfg = k.cfg, !.need = k.need]
         IN  /\ SoundNext(r)
             /\ m # "start" \/ WholeNext(k.name)
  PROVE  WholeSoFar'
<1> DEFINE k == task[t]
           r == [Idle EXCEPT !.pc = "awaitJobs", !.mode = m, !.name = k.name,
                   !.host = k.host, !.cfg = k.cfg, !.need = k.need]
<1>0. /\ task \in [Tasks -> TaskRecord] /\ Runners \subseteq Tasks
      /\ \A u \in Tasks : u # t => task[u].pc = "idle"
      /\ \A n \in Names : n # k.name => WholeNext(n)
  BY CalmStep DEF Tasks
<1>1. k.name \notin preparations
  BY <1>0 DEF Calm, PreparationExclusive, At
<1>2. PICK w \in Runners : task' = [task EXCEPT ![t] = Idle, ![w] = r]
  BY <1>1 DEF Prepare
<1>3. r.pc = "awaitJobs" /\ r.mode = m /\ r.name = k.name
  BY DEF Idle
<1>4. SoundNext(r) /\ (m # "start" \/ WholeNext(k.name))
  OBVIOUS
<1> HIDE DEF r
<1>5. task'[w] = r /\ \A u \in Tasks : u # w => task'[u].pc = "idle"
  BY <1>0, <1>2 DEF Idle
<1>6. \A v \in Runners : Handed(task'[v])
  BY <1>0, <1>3, <1>5 DEF Handed
<1>7. \A n \in Names : WholeNext(n) \/ (r.name = n /\ Between(r))
  BY <1>0, <1>3, <1>4 DEF Between
<1>8. \A u \in Tasks : task'[u].pc # "idle" => SoundNext(task'[u])
  BY <1>4, <1>5
<1>9. w \in Tasks /\ task'[w].pc # "idle"
  BY <1>0, <1>3, <1>5
<1> QED BY <1>5, <1>6, <1>7, <1>8, <1>9 DEF WholeSoFar, SoundNext, WholeNext, At

\* Whatever the task in progress does, if nothing fails it is on its way to leave
\* every definition with its container.
LEMMA StepWhole ==
  ASSUME Calm, NEW t \in Tasks, Step(t), faults' = 0
  PROVE  WholeSoFar'
<1> DEFINE k == task[t]
           image == ImageOf[k.cfg.ver]
           Same(r) == /\ r.mode = k.mode /\ r.name = k.name /\ r.host = k.host
                      /\ r.cfg = k.cfg
           Moved(r) == task' = [task EXCEPT ![t] = r]
<1>0. /\ k \in TaskRecord /\ Shape(k) /\ k.pc # "idle" /\ k.name \in Names /\ k.mode \in Modes
      /\ task \in [Tasks -> TaskRecord]
      /\ SoundIn(k, config, engine, built, synced)
      /\ Between(k) \/ WholeIn(k.name, config, engine)
      /\ t \in Runners => Handed(k)
  BY CalmStep
<1>t. /\ config \in [Names -> Definition \cup {None}]
      /\ engine \in [Hosts -> [Names -> Container \cup {None}]]
      /\ built \in [Hosts -> SUBSET Images] /\ synced \in [Hosts -> BOOLEAN]
      /\ hosts \subseteq Hosts /\ nextId \in Nat /\ nextId # 0
      /\ \A h \in Hosts, n \in Names : engine[h][n] # None => engine[h][n].id # 0
  BY DEF Calm, IInv, TypeOK, Numbered
<1>f. ~Fault
  BY DEF Calm, Fault
<1>h. k.pc \notin {"idle", "locate", "forget"} =>
        k.host \in Hosts /\ Live(t) = engine[k.host][k.name] /\ Live(t) \in Container \cup {None}
  BY <1>0, <1>t DEF Shape, Live
<1>c. ASSUME NEW p, Continue(t, p)
      PROVE  \E r : Moved(r) /\ r.pc = p /\ Same(r) /\ r.id = k.id /\ r.need = k.need
  <2> DEFINE r == [k EXCEPT !.pc = p]
  <2>1. Moved(r) /\ r.pc = p /\ Same(r) /\ r.id = k.id /\ r.need = k.need
    BY <1>0, <1>c DEF Continue, TaskRecord
  <2> QED BY <2>1
<1>e. CASE Finish(t) /\ UNCHANGED <<config, engine>> /\ ~Between(k)
  BY <1>0, <1>e, WholeEnds DEF WholeNext
\* a container that starts or stops stays what it was made from, under its id
<1>s. ASSUME k.pc \notin {"idle", "locate", "forget"}, UNCHANGED config, Live(t) # None,
             NEW s \in {"running", "exited"}, SetLive(t, [Live(t) EXCEPT !.state = s])
      PROVE  /\ engine'[k.host][k.name] # None
             /\ engine'[k.host][k.name].id = Live(t).id
             /\ engine'[k.host][k.name].ver = Live(t).ver
             /\ WholeIn(k.name, config, engine) => WholeNext(k.name)
  <2> DEFINE c == [Live(t) EXCEPT !.state = s]
  <2>1. c.ver = Live(t).ver /\ c.id = Live(t).id /\ c # None
    BY <1>h, <1>s, NoneAssumption DEF Container
  <2>2. SetLive(t, c)
    BY <1>s
  <2> HIDE DEF c
  <2>3. /\ engine'[k.host][k.name] = c
        /\ \A h \in Hosts : engine'[h][k.name] = engine[h][k.name] \/ h = k.host
    BY <1>0, <1>s, <2>2, LiveSet DEF Calm
  <2>4. config[k.name] # None => config[k.name].host \in Hosts
    BY <1>0, <1>t DEF Definition
  <2> QED BY <1>h, <1>s, <2>1, <2>3, <2>4 DEF WholeNext, WholeIn
<1>1. CASE CheckName(t)
  <2>1. k.pc = "checkName" /\ UNCHANGED <<config, engine>>
    BY <1>1 DEF CheckName, At, engineVars
  <2>2. CASE Finish(t)
    BY <1>e, <2>1, <2>2 DEF Between
  <2>3. CASE Live(t) = None /\ Continue(t, "checkHost")
    <3>1. PICK r : Moved(r) /\ r.pc = "checkHost" /\ Same(r)
      BY <1>c, <2>3
    <3>2. SoundNext(r)
      BY <1>0, <1>h, <2>1, <2>3, <3>1 DEF SoundIn, SoundNext, HoldsDefinition, Teardown
    <3>3. WholeNext(r.name) /\ t \notin Runners
      BY <1>0, <2>1, <3>1 DEF WholeNext, Between, Handed
    <3> QED BY <3>1, <3>2, <3>3, WholeMoves
  <2> QED BY <1>1, <1>f, <2>2, <2>3 DEF CheckName
<1>2. CASE CheckHost(t)
  <2> DEFINE Seen == [k EXCEPT !.id = IF k.mode = "start" THEN k.id ELSE 0]
  <2>1. /\ k.pc = "checkHost" /\ UNCHANGED <<config, engine, built, synced>>
        /\ t \notin Runners
    BY <1>0, <1>2 DEF CheckHost, At, engineVars, hostVars, Handed
  <2>2. task' = [task EXCEPT ![t].need = StepsNeeded(Seen),
                   ![t].pc = IF StepsNeeded(Seen) = {} THEN Ready(k)
                             ELSE IF k.mode = "start" THEN "prepare" ELSE "store"]
    BY <1>2, <1>f DEF CheckHost
  <2> DEFINE need == StepsNeeded(Seen)
             p == IF need = {} THEN Ready(k)
                  ELSE IF k.mode = "start" THEN "prepare" ELSE "store"
             r == [k EXCEPT !.need = need, !.pc = p]
  <2>3. Moved(r) /\ r.pc = p /\ Same(r) /\ r.id = k.id /\ r.need = need
    BY <1>0, <2>2 DEF TaskRecord
  <2>4. Seen.cfg = k.cfg /\ Seen.host = k.host /\ Seen.id = (IF k.mode = "start" THEN k.id ELSE 0)
    BY <1>0 DEF TaskRecord
  <2> HIDE DEF Seen
  <2>5. /\ k.mode # "start" /\ "image" \notin need => image \notin Recipes \ built[k.host]
        /\ need = {} => synced[k.host]
    BY <2>4 DEF StepsNeeded, Unbuilt, Needs
  <2>6. /\ k.mode = "create" => Ready(k) = "resolveImage"
        /\ k.mode = "replace" => Ready(k) = "findPrevious"
        /\ k.mode = "start" => Ready(k) = "startExisting"
    BY <1>0, <2>1 DEF Ready, SoundIn
  <2>7. /\ k.mode \in {"create", "replace", "start"} /\ k.cfg.host = k.host
        /\ k.mode = "start" => k.id # 0
        /\ k.mode = "create" => config[k.name] = None /\ engine[k.host][k.name] = None
    BY <1>0, <2>1 DEF SoundIn, HoldsDefinition
  <2>8. p # "idle" /\ WholeNext(k.name)
    BY <1>0, <2>1, <2>6, <2>7 DEF WholeNext, Between
  <2>9. \/ k.mode = "create" /\ (p = "store" \/ (p = "resolveImage" /\ need = {}))
        \/ k.mode = "replace" /\ (p = "store" \/ (p = "findPrevious" /\ need = {}))
        \/ k.mode = "start" /\ p \in {"prepare", "startExisting"}
    BY <2>6, <2>7
  <2> HIDE DEF r, p, need
  <2>10. SoundNext(r)
    BY <2>1, <2>3, <2>5, <2>7, <2>9 DEF SoundIn, SoundNext, HoldsDefinition, Teardown
  <2> QED BY <2>1, <2>3, <2>8, <2>10, WholeMoves
<1>3. CASE StoreAndPrepare(t)
  <2>1. /\ k.pc = "store" /\ UNCHANGED <<engine, built, synced>> /\ t \notin Runners
        /\ PutConfig(t) /\ Prepare(t, k.mode)
    BY <1>0, <1>f, <1>3 DEF StoreAndPrepare, At, engineVars, hostVars, Handed
  <2>2. /\ k.mode \in {"create", "replace"} /\ k.cfg.host = k.host
        /\ "image" \notin k.need => image \notin Recipes \ built[k.host]
        /\ k.mode = "create" => engine[k.host][k.name] = None
    BY <1>0, <2>1 DEF SoundIn, HoldsDefinition
  <2> DEFINE r == [Idle EXCEPT !.pc = "awaitJobs", !.mode = k.mode, !.name = k.name,
                     !.host = k.host, !.cfg = k.cfg, !.need = k.need]
  <2>3. r.pc = "awaitJobs" /\ Same(r) /\ r.need = k.need
    BY DEF Idle
  <2>4. SoundNext(r)
    <3> HIDE DEF r
    <3> QED BY <2>1, <2>2, <2>3 DEF SoundIn, SoundNext, HoldsDefinition, Teardown
  <2> QED BY <1>0, <2>1, <2>2, <2>4, WholeHandsOver
<1>4. CASE StartPreparing(t)
  <2>1. /\ k.pc = "prepare" /\ UNCHANGED <<config, engine, built, synced>> /\ t \notin Runners
    BY <1>0, <1>4 DEF StartPreparing, At, engineVars, hostVars, Handed
  <2>2. k.mode = "start" /\ k.cfg.host = k.host /\ k.id # 0
    BY <1>0, <2>1 DEF SoundIn, HoldsDefinition
  <2>3. Prepare(t, "start")
    BY <1>4, <2>2 DEF StartPreparing
  <2> DEFINE r == [Idle EXCEPT !.pc = "awaitJobs", !.mode = "start", !.name = k.name,
                     !.host = k.host, !.cfg = k.cfg, !.need = k.need]
  <2>4. r.pc = "awaitJobs" /\ r.mode = "start" /\ r.host = k.host /\ r.cfg = k.cfg
    BY DEF Idle
  <2>5. SoundNext(r)
    <3> HIDE DEF r
    <3> QED BY <2>1, <2>2, <2>4 DEF SoundIn, SoundNext, HoldsDefinition, Teardown
  <2>6. WholeNext(k.name) /\ "start" \in Modes
    BY <1>0, <2>1 DEF WholeNext, Between, Modes
  <2> QED BY <2>1, <2>3, <2>5, <2>6, WholeHandsOver
<1>5. CASE AwaitBuild(t)
  <2>1. /\ k.pc = "awaitJobs" /\ UNCHANGED <<config, engine, synced>>
        /\ built' = [built EXCEPT ![k.host] = @ \cup {image}]
        /\ task' = [task EXCEPT ![t].need = @ \ {"image"}]
    BY <1>f, <1>5 DEF AwaitBuild, At, engineVars
  <2> DEFINE r == [k EXCEPT !.need = @ \ {"image"}]
  <2>2. Moved(r) /\ r.pc = "awaitJobs" /\ Same(r)
    BY <1>0, <2>1 DEF TaskRecord
  <2> HIDE DEF r
  <2>3. image \in built'[k.host]
    BY <1>h, <1>t, <2>1
  <2>4. /\ k.mode \in {"create", "replace", "start"} /\ k.cfg.host = k.host
        /\ k.mode = "create" => engine[k.host][k.name] = None
    BY <1>0, <2>1 DEF SoundIn, HoldsDefinition
  <2>5. SoundNext(r)
    BY <2>1, <2>2, <2>3, <2>4 DEF SoundIn, SoundNext, HoldsDefinition, Teardown
  <2>6. Between(r) \/ WholeNext(r.name)
    BY <1>0, <2>1, <2>2 DEF Between, WholeNext
  <2>7. t \in Runners => Handed(r)
    BY <2>2 DEF Handed
  <2> QED BY <2>2, <2>5, <2>6, <2>7, WholeMoves
<1>6. CASE AwaitSync(t)
  <2>1. /\ k.pc = "awaitJobs" /\ "image" \notin k.need /\ UNCHANGED <<config, engine, built>>
        /\ synced' = [synced EXCEPT ![k.host] = TRUE]
    BY <1>f, <1>6 DEF AwaitSync, At, engineVars
  <2>2. /\ k.mode \in {"create", "replace", "start"} /\ k.cfg.host = k.host
        /\ k.mode = "create" => engine[k.host][k.name] = None
        /\ k.mode # "start" => image \notin Recipes \ built[k.host]
        /\ synced'[k.host]
    BY <1>0, <1>h, <1>t, <2>1 DEF SoundIn, HoldsDefinition
  <2> DEFINE go == [[k EXCEPT !.need = {}] EXCEPT !.pc = Ready(k)]
             again == [[k EXCEPT !.need = {}] EXCEPT !.pc = "locate", !.host = LocateFrom(k.name)]
  <2>3. /\ go.pc = Ready(k) /\ Same(go)
        /\ again.pc = "locate" /\ again.mode = k.mode /\ again.name = k.name
        /\ again.host = LocateFrom(k.name)
    BY <1>0 DEF TaskRecord
  <2>4. \/ k.mode # "start" /\ Moved(go)
        \/ k.mode = "start" /\ Moved(again)
        \/ k.mode = "start" /\ Finish(t)
    BY <1>f, <1>6 DEF AwaitSync
  <2> HIDE DEF go, again
  <2>5. CASE k.mode # "start" /\ Moved(go)
    <3>1. Ready(k) = IF k.mode = "create" THEN "resolveImage" ELSE "findPrevious"
      BY <2>2, <2>5 DEF Ready
    <3>2. SoundNext(go)
      BY <2>1, <2>2, <2>3, <2>5, <3>1 DEF SoundIn, SoundNext, HoldsDefinition, Teardown
    <3>3. Between(go) /\ Handed(go)
      BY <2>3, <3>1 DEF Between, Handed
    <3> QED BY <2>3, <2>5, <3>1, <3>2, <3>3, WholeMoves
  <2>6. CASE k.mode = "start" /\ Moved(again)
    <3>1. SoundNext(again)
      BY <2>1, <2>3, <2>6 DEF SoundIn, SoundNext, HoldsDefinition, Teardown, LocateFrom
    <3>2. WholeNext(again.name) /\ Handed(again)
      BY <1>0, <2>1, <2>3, <2>6 DEF WholeNext, Between, Handed
    <3> QED BY <2>3, <2>6, <3>1, <3>2, WholeMoves
  <2>7. CASE k.mode = "start" /\ Finish(t)
    BY <1>e, <2>1, <2>7 DEF Between
  <2> QED BY <2>4, <2>5, <2>6, <2>7
\* a task between that continues at another await between
<1>b. ASSUME NEW p, Continue(t, p), UNCHANGED <<engine, synced>>,
             k.pc \in {"resolveImage", "createVolume"},
             p \in {"listVolumes", "createContainer"}, engine[k.host][k.name] = None
      PROVE  WholeSoFar'
  <2>1. PICK r : Moved(r) /\ r.pc = p /\ Same(r) /\ r.id = k.id
    BY <1>b, <1>c
  <2>2. k.cfg.host = k.host /\ (k.mode = "start" => k.id # 0)
    BY <1>0, <1>b DEF SoundIn, HoldsDefinition
  <2>3. SoundNext(r)
    BY <1>b, <2>1, <2>2 DEF SoundIn, SoundNext, HoldsDefinition, Teardown
  <2>4. Between(r) /\ Handed(r)
    BY <1>b, <2>1 DEF Between, Handed
  <2> QED BY <1>b, <2>1, <2>3, <2>4, WholeMoves
<1>7. CASE ResolveImage(t)
  <2>1. /\ k.pc = "resolveImage" /\ UNCHANGED <<engine, synced>>
        /\ image \notin Recipes \ built[k.host] /\ synced[k.host]
        /\ engine[k.host][k.name] = None
    BY <1>0, <1>7 DEF ResolveImage, At, engineVars, SoundIn, Teardown
  <2>2. Continue(t, "listVolumes")
    BY <1>f, <1>7, <2>1 DEF ResolveImage
  <2> QED BY <1>b, <2>1, <2>2 DEF Teardown
<1>8. CASE CreateVolume(t)
  <2>1. /\ k.pc = "createVolume" /\ UNCHANGED <<engine, synced>>
        /\ Continue(t, "createContainer")
    BY <1>f, <1>8 DEF CreateVolume, At, hostVars
  <2>2. engine[k.host][k.name] = None
    BY <1>0, <2>1 DEF SoundIn
  <2> QED BY <1>b, <2>1, <2>2
<1>9. CASE ListVolumes(t)
  <2>1. PICK fresh, since :
          task' = [task EXCEPT ![t].pc = "createVolume", ![t].fresh = fresh, ![t].since = since]
    BY <1>9 DEF ListVolumes
  <2> DEFINE r == [k EXCEPT !.pc = "createVolume", !.fresh = fresh, !.since = since]
  <2>2. /\ Moved(r) /\ r.pc = "createVolume" /\ Same(r) /\ r.id = k.id
        /\ k.pc = "listVolumes" /\ UNCHANGED engine
    BY <1>0, <1>9, <2>1 DEF TaskRecord, ListVolumes, At, engineVars
  <2> HIDE DEF r
  <2>3. /\ k.cfg.host = k.host /\ engine[k.host][k.name] = None
        /\ k.mode = "start" => k.id # 0
    BY <1>0, <2>2 DEF SoundIn, HoldsDefinition
  <2>4. SoundNext(r)
    BY <2>2, <2>3 DEF SoundIn, SoundNext, HoldsDefinition, Teardown
  <2>5. Between(r) /\ Handed(r)
    BY <2>2 DEF Between, Handed
  <2> QED BY <2>2, <2>4, <2>5, WholeMoves
<1>10. CASE CreateContainer(t)
  <2>1. k.pc = "createContainer" /\ k.cfg.host = k.host /\ Live(t) = None
    BY <1>0, <1>h, <1>10 DEF CreateContainer, At, SoundIn, HoldsDefinition
  <2> DEFINE c == [id |-> nextId, ver |-> k.cfg.ver, state |-> "created"]
             r == [k EXCEPT !.id = nextId, !.pc = AfterCreate(t)]
  <2>2. /\ SetLive(t, c) /\ UNCHANGED config
        /\ task' = [task EXCEPT ![t].id = nextId, ![t].pc = AfterCreate(t)]
    BY <1>f, <1>10, <2>1 DEF CreateContainer
  <2>3. Moved(r) /\ r.pc = AfterCreate(t) /\ Same(r) /\ r.id = nextId
    BY <1>0, <2>2 DEF TaskRecord
  <2>4. c # None /\ c.id = nextId /\ c.ver = k.cfg.ver
    <3>1. k.cfg.ver \in Versions
      BY <1>0, <2>1 DEF Shape, HoldsDefinition, Definition
    <3> QED BY <1>t, <3>1, NoneAssumption DEF Container
  <2> HIDE DEF c, r
  <2>5. engine'[k.host][k.name] = c
    BY <2>1, <2>2, LiveSet DEF Calm
  <2>6. AfterCreate(t) \in {"storeReplaced", "startNew", "storeNew"}
    BY DEF AfterCreate
  <2>7. SoundNext(r)
    BY <1>t, <2>1, <2>3, <2>4, <2>5, <2>6 DEF SoundIn, SoundNext, HoldsDefinition, Teardown
  <2>8. Between(r) /\ Handed(r)
    BY <2>3, <2>6 DEF Between, Handed
  <2> QED BY <2>3, <2>6, <2>7, <2>8, WholeMoves
<1>11. CASE StartNew(t)
  <2>1. /\ k.pc = "startNew" /\ k.cfg.host = k.host /\ StillThere(t) /\ Live(t).ver = k.cfg.ver
        /\ k.mode = "start" => k.id # 0
    BY <1>0, <1>h, <1>11 DEF StartNew, At, SoundIn, HoldsDefinition, StillThere
  <2>2. RunLive(t) /\ Continue(t, "storeNew") /\ UNCHANGED config
    BY <1>f, <1>11, <2>1 DEF StartNew
  <2>3. PICK r : Moved(r) /\ r.pc = "storeNew" /\ Same(r) /\ r.id = k.id
    BY <1>c, <2>2
  <2>4. /\ engine'[k.host][k.name] # None /\ engine'[k.host][k.name].id = k.id
        /\ engine'[k.host][k.name].ver = k.cfg.ver
    BY <1>s, <2>1, <2>2 DEF RunLive, StillThere
  <2>5. SoundNext(r)
    BY <2>1, <2>3, <2>4 DEF SoundIn, SoundNext, HoldsDefinition, Teardown
  <2>6. Between(r) /\ Handed(r)
    BY <2>3 DEF Between, Handed
  <2> QED BY <2>3, <2>5, <2>6, WholeMoves
\* what is stored once the container is there makes its name whole
<1>p. ASSUME PutConfig(t), UNCHANGED engine, k.pc \in HoldsDefinition, k.cfg.host = k.host,
             Live(t) # None, Live(t).ver = k.cfg.ver
      PROVE  config'[k.name] = k.cfg /\ k.cfg # None /\ WholeNext(k.name)
  <2>1. k.cfg \in Definition /\ k.cfg # None
    BY <1>0, <1>p, NoneAssumption DEF Shape
  <2>2. config'[k.name] = k.cfg
    BY <1>0, <1>t, <1>p DEF PutConfig
  <2>3. Live(t) = engine[k.host][k.name]
    BY DEF Live
  <2> QED BY <1>p, <2>1, <2>2, <2>3 DEF WholeNext, WholeIn
<1>12. CASE StoreNew(t)
  <2>1. /\ k.pc = "storeNew" /\ k.cfg.host = k.host /\ Live(t) # None
        /\ Live(t).ver = k.cfg.ver
    BY <1>0, <1>h, <1>12 DEF StoreNew, At, SoundIn, HoldsDefinition
  <2>2. PutConfig(t) /\ Finish(t) /\ UNCHANGED engine
    BY <1>f, <1>12 DEF StoreNew, engineVars
  <2>3. WholeNext(k.name)
    BY <1>p, <2>1, <2>2 DEF HoldsDefinition
  <2> QED BY <2>2, <2>3, WholeEnds
<1>13. CASE RemoveNew(t) \/ DropFresh(t)
  BY <1>0, <1>13 DEF RemoveNew, DropFresh, At, SoundIn
<1>14. CASE FindPrevious(t)
  <2>1. /\ k.pc = "findPrevious" /\ UNCHANGED <<config, engine, built, synced>>
    BY <1>14 DEF FindPrevious, At, engineVars, hostVars
  <2>2. /\ k.cfg.host = k.host /\ image \notin Recipes \ built[k.host] /\ synced[k.host]
        /\ k.mode # "start" /\ Live(t) = engine[k.host][k.name]
    BY <1>0, <1>h, <2>1 DEF SoundIn, HoldsDefinition, Teardown
  <2>3. ASSUME NEW r, Moved(r), Same(r),
               \/ r.pc = "resolveImage" /\ Live(t) = None
               \/ /\ r.pc \in {"stopPrevious", "removePrevious"}
                  /\ Live(t) # None /\ r.id = Live(t).id
        PROVE  WholeSoFar'
    <3>1. SoundNext(r)
      BY <2>1, <2>2, <2>3 DEF SoundIn, SoundNext, HoldsDefinition, Teardown
    <3>2. Between(r) /\ Handed(r)
      BY <2>3 DEF Between, Handed
    <3> QED BY <2>3, <3>1, <3>2, WholeMoves
  <2>4. CASE /\ Live(t) = None
             /\ task' = [task EXCEPT ![t].pc = "resolveImage", ![t].id = 0, ![t].on = FALSE]
    <3> DEFINE r == [k EXCEPT !.pc = "resolveImage", !.id = 0, !.on = FALSE]
    <3>1. Moved(r) /\ Same(r) /\ r.pc = "resolveImage"
      BY <1>0, <2>4 DEF TaskRecord
    <3> HIDE DEF r
    <3> QED BY <2>3, <2>4, <3>1
  <2>5. CASE /\ Live(t) # None
             /\ task' = [task EXCEPT ![t].id = Live(t).id,
                      ![t].on = Live(t).state = "running",
                      ![t].pc = IF Live(t).state = "running" THEN "stopPrevious"
                                                              ELSE "removePrevious"]
    <3> DEFINE on == Live(t).state = "running"
               p == IF on THEN "stopPrevious" ELSE "removePrevious"
               i == Live(t).id
               r == [k EXCEPT !.id = i, !.on = on, !.pc = p]
    <3>1. task' = [task EXCEPT ![t].id = i, ![t].on = on, ![t].pc = p]
      BY <2>5
    <3>2. p \in {"stopPrevious", "removePrevious"} /\ i = Live(t).id
      OBVIOUS
    <3> HIDE DEF on, p, i
    <3>3. Moved(r) /\ Same(r) /\ r.pc = p /\ r.id = i
      BY <1>0, <3>1 DEF TaskRecord
    <3> HIDE DEF r
    <3> QED BY <2>3, <2>5, <3>2, <3>3
  <2> QED BY <1>f, <1>14, <2>4, <2>5 DEF FindPrevious
<1>15. CASE StopPrevious(t)
  <2>1. /\ k.pc = "stopPrevious" /\ UNCHANGED <<config, built, synced>>
        /\ StopLive(t) /\ Continue(t, "removePrevious")
    BY <1>f, <1>15 DEF StopPrevious, At, hostVars
  <2>2. /\ k.cfg.host = k.host /\ image \notin Recipes \ built[k.host] /\ synced[k.host]
        /\ k.mode # "start" /\ Live(t) # None /\ Live(t).id = k.id
        /\ Live(t) = engine[k.host][k.name]
    BY <1>0, <1>h, <2>1 DEF SoundIn, HoldsDefinition, Teardown
  <2>3. engine'[k.host][k.name] # None /\ engine'[k.host][k.name].id = k.id
    <3>1. CASE SetLive(t, [Live(t) EXCEPT !.state = "exited"])
      BY <1>s, <2>1, <2>2, <3>1
    <3>2. CASE UNCHANGED engine
      BY <2>2, <3>2
    <3> QED BY <2>1, <3>1, <3>2 DEF StopLive
  <2>4. PICK r : Moved(r) /\ r.pc = "removePrevious" /\ Same(r) /\ r.id = k.id
    BY <1>c, <2>1
  <2>5. SoundNext(r)
    BY <2>1, <2>2, <2>3, <2>4 DEF SoundIn, SoundNext, HoldsDefinition, Teardown
  <2>6. Between(r) /\ Handed(r)
    BY <2>4 DEF Between, Handed
  <2> QED BY <2>4, <2>5, <2>6, WholeMoves
<1>16. CASE RemovePrevious(t)
  <2>1. /\ k.pc = "removePrevious" /\ UNCHANGED <<config, built, synced>>
        /\ RemoveLive(t) /\ Continue(t, "resolveImage")
    BY <1>f, <1>16 DEF RemovePrevious, At, hostVars
  <2>2. /\ k.cfg.host = k.host /\ image \notin Recipes \ built[k.host] /\ synced[k.host]
        /\ k.mode # "start" /\ StillThere(t)
    BY <1>0, <1>h, <2>1 DEF SoundIn, HoldsDefinition, Teardown, StillThere
  <2>3. engine'[k.host][k.name] = None
    BY <2>1, <2>2, LiveSet DEF RemoveLive, Calm
  <2>4. PICK r : Moved(r) /\ r.pc = "resolveImage" /\ Same(r)
    BY <1>c, <2>1
  <2>5. SoundNext(r)
    BY <2>1, <2>2, <2>3, <2>4 DEF SoundIn, SoundNext, HoldsDefinition, Teardown
  <2>6. Between(r) /\ Handed(r)
    BY <2>4 DEF Between, Handed
  <2> QED BY <2>4, <2>5, <2>6, WholeMoves
<1>17. CASE StoreReplaced(t)
  <2>1. /\ k.pc = "storeReplaced" /\ UNCHANGED <<engine, built, synced>> /\ PutConfig(t)
        /\ Finish(t) \/ Continue(t, "startReplaced")
    BY <1>f, <1>17 DEF StoreReplaced, At, hostVars, engineVars
  <2>2. /\ k.cfg.host = k.host /\ Live(t) # None /\ Live(t).ver = k.cfg.ver
        /\ k.mode = "start" => k.id # 0
    BY <1>0, <1>h, <2>1 DEF SoundIn, HoldsDefinition
  <2>3. WholeNext(k.name)
    BY <1>p, <2>1, <2>2 DEF HoldsDefinition
  <2>4. CASE Finish(t)
    BY <2>3, <2>4, WholeEnds
  <2>5. CASE Continue(t, "startReplaced")
    <3>1. PICK r : Moved(r) /\ r.pc = "startReplaced" /\ Same(r) /\ r.id = k.id
      BY <1>c, <2>5
    <3>2. SoundNext(r)
      BY <2>1, <2>2, <3>1 DEF SoundIn, SoundNext, HoldsDefinition, Teardown
    <3>3. Handed(r)
      BY <3>1 DEF Handed
    <3> QED BY <2>3, <3>1, <3>2, <3>3, WholeMoves
  <2> QED BY <2>1, <2>4, <2>5
<1>18. CASE StartReplaced(t) \/ StartExisting(t) \/ RestartContainer(t) \/ StopContainer(t)
  <2>1. /\ k.pc \in {"startReplaced", "startExisting", "restartContainer", "stopContainer"}
        /\ UNCHANGED config /\ Finish(t)
    BY <1>18 DEF StartReplaced, StartExisting, RestartContainer, StopContainer, At
  <2>2. \/ UNCHANGED engine
        \/ StillThere(t) /\ \E s \in {"running", "exited"} : SetLive(t, [Live(t) EXCEPT !.state = s])
    BY <1>f, <1>18 DEF StartReplaced, StartExisting, RestartContainer, StopContainer,
       engineVars, RunLive, StopLive
  <2>3. ~Between(k)
    BY <2>1 DEF Between
  <2>4. CASE UNCHANGED engine
    BY <1>e, <2>1, <2>3, <2>4
  <2>5. CASE StillThere(t) /\ \E s \in {"running", "exited"} : SetLive(t, [Live(t) EXCEPT !.state = s])
    <3>1. WholeNext(k.name)
      BY <1>0, <1>s, <2>1, <2>3, <2>5 DEF StillThere
    <3> QED BY <2>1, <3>1, WholeEnds
  <2> QED BY <2>2, <2>4, <2>5
\* a remove that goes on owes only what it forgets at its end
<1>d. ASSUME NEW p \in {"removeContainer", "dropVolume", "forget"}, Continue(t, p),
             k.pc \in {"stopToRemove", "removeContainer", "dropVolume"}
      PROVE  WholeSoFar'
  <2>1. PICK r : Moved(r) /\ r.pc = p /\ Same(r) /\ r.id = k.id
    BY <1>c, <1>d
  <2>2. k.mode = "start" => k.id # 0
    BY <1>0, <1>d DEF SoundIn
  <2>3. SoundNext(r)
    BY <1>d, <2>1, <2>2 DEF SoundIn, SoundNext, HoldsDefinition, Teardown
  <2>4. Between(r) /\ Handed(r)
    BY <1>d, <2>1 DEF Between, Handed
  <2> QED BY <1>d, <2>1, <2>3, <2>4, WholeMoves
<1>19. CASE StopToRemove(t) \/ RemoveContainer(t) \/ DropVolume(t)
  BY <1>d, <1>f, <1>19 DEF StopToRemove, RemoveContainer, DropVolume, At
<1>20. CASE Forget(t)
  <2>1. Finish(t) /\ config' = [config EXCEPT ![k.name] = None]
    BY <1>f, <1>20 DEF Forget
  <2>2. WholeNext(k.name)
    BY <1>0, <1>t, <2>1 DEF WholeNext, WholeIn
  <2> QED BY <2>1, <2>2, WholeEnds
<1>21. CASE Locate(t)
  <2>1. /\ k.pc = "locate" /\ UNCHANGED <<config, engine, built, synced>>
    BY <1>21 DEF Locate, At, engineVars, hostVars
  <2>2. /\ k.host = IF config[k.name] = None THEN None ELSE config[k.name].host
        /\ k.mode = "replace" => config[k.name] = None
        /\ WholeIn(k.name, config, engine) /\ ~Between(k)
    BY <1>0, <2>1 DEF SoundIn, Between
  <2>3. CASE Finish(t)
    BY <1>e, <2>1, <2>2, <2>3
  <2>4. ASSUME NEW h \in IF k.host = None THEN hosts ELSE {k.host}, engine[h][k.name] # None,
               LET c == engine[h][k.name]
                   found == [k EXCEPT !.host = h, !.id = c.id, !.on = c.state = "running",
                               !.cfg = [host |-> h, ver |-> c.ver]]
               IN  GoOrFinish(t, [found EXCEPT !.pc = AfterLocate(found)])
        PROVE  WholeSoFar'
    <3>0. h \in Hosts /\ (config[k.name] # None => h = config[k.name].host)
      <4>1. config[k.name] # None => config[k.name].host \in Hosts
        BY <1>0, <1>t DEF Definition
      <4>2. config[k.name] # None => k.host # None
        BY <2>2, <4>1, ConstantsAssumption
      <4> QED BY <1>t, <2>2, <2>4, <4>1, <4>2
    <3> DEFINE c == engine[h][k.name]
               found == [k EXCEPT !.host = h, !.id = c.id, !.on = c.state = "running",
                           !.cfg = [host |-> h, ver |-> c.ver]]
               r == [found EXCEPT !.pc = AfterLocate(found)]
    <3>1. c \in Container /\ c.id # 0 /\ c.ver \in Versions
      BY <1>0, <1>t, <2>4, <3>0 DEF Container
    <3>2. [host |-> h, ver |-> c.ver].host = h /\ [host |-> h, ver |-> c.ver].ver = c.ver
      OBVIOUS
    <3>3. /\ r.pc = AfterLocate(found) /\ r.mode = k.mode /\ r.name = k.name /\ r.host = h
          /\ r.id = c.id /\ r.cfg.host = h /\ r.cfg.ver = c.ver /\ found.mode = k.mode
      BY <1>0, <3>2 DEF TaskRecord
    <3>4. \/ k.mode = "start" /\ AfterLocate(found) = "loadConfig"
          \/ k.mode = "replace" /\ AfterLocate(found) \in {"idle", "checkAdopt"}
          \/ /\ k.mode \notin {"start", "replace"}
             /\ AfterLocate(found) \in {"idle", "stopContainer", "restartContainer",
                  "stopToRemove", "removeContainer", "dropVolume", "forget"}
      <4> HIDE DEF found
      <4> QED BY <3>3 DEF AfterLocate
    <3>5. GoOrFinish(t, r)
      BY <2>4
    <3>c. c = engine[h][k.name]
      OBVIOUS
    <3> HIDE DEF c, r, found
    <3>6. CASE Moved(r) /\ r.pc # "idle"
      <4>1. SoundNext(r)
        BY <2>1, <2>2, <2>4, <3>0, <3>1, <3>3, <3>4, <3>6, <3>c
           DEF SoundIn, SoundNext, HoldsDefinition, Teardown
      <4>2. WholeNext(r.name)
        BY <2>1, <2>2, <3>3 DEF WholeNext
      <4>3. t \in Runners => Handed(r)
        BY <1>0, <2>1, <3>3, <3>4, <3>6 DEF Handed
      <4> QED BY <3>3, <3>6, <4>1, <4>2, <4>3, WholeMoves
    <3> QED BY <2>3, <3>5, <3>6 DEF GoOrFinish
  <2>5. CASE k.host # None /\ engine[k.host][k.name] = None
    BY <2>2, <2>5 DEF WholeIn
  <2> QED BY <1>f, <1>21, <2>3, <2>4, <2>5 DEF Locate
<1>22. CASE LoadConfig(t)
  <2>1. /\ k.pc = "loadConfig" /\ UNCHANGED <<config, engine, built, synced>>
    BY <1>22 DEF LoadConfig, At, engineVars, hostVars
  <2>2. /\ k.mode = "start" /\ k.id # 0 /\ k.cfg.host = k.host
        /\ engine[k.host][k.name] # None /\ k.cfg.ver = engine[k.host][k.name].ver
        /\ config[k.name] # None => config[k.name].host = k.host
        /\ WholeIn(k.name, config, engine)
    BY <1>0, <2>1 DEF SoundIn, Between, HoldsDefinition
  <2> DEFINE r1 == [k EXCEPT !.cfg = config[k.name], !.pc = Gate(t, k)]
             r2 == [k EXCEPT !.pc = "checkAdopt"]
  <2>3. /\ r1.pc = Gate(t, k) /\ r1.mode = k.mode /\ r1.name = k.name /\ r1.host = k.host
        /\ r1.id = k.id /\ r1.cfg = config[k.name]
        /\ r2.pc = "checkAdopt" /\ Same(r2) /\ r2.id = k.id
    BY <1>0 DEF TaskRecord
  <2>4. \/ config[k.name] # None /\ Moved(r1)
        \/ config[k.name] = None /\ Moved(r2)
    BY <1>22, <2>2 DEF LoadConfig
  <2>5. Gate(t, k) = IF t \in Runners THEN "startExisting" ELSE "checkHost"
    BY <2>2 DEF Gate, Ready
  <2> HIDE DEF r1, r2
  <2>6. CASE config[k.name] # None /\ Moved(r1)
    <3>1. SoundNext(r1)
      BY <2>1, <2>2, <2>3, <2>5, <2>6 DEF SoundIn, SoundNext, HoldsDefinition, Teardown
    <3>2. WholeNext(r1.name) /\ (t \in Runners => Handed(r1))
      BY <2>1, <2>2, <2>3, <2>5 DEF WholeNext, Handed
    <3> QED BY <2>3, <2>5, <2>6, <3>1, <3>2, WholeMoves
  <2>7. CASE config[k.name] = None /\ Moved(r2)
    <3>1. SoundNext(r2)
      BY <2>1, <2>2, <2>3, <2>7 DEF SoundIn, SoundNext, HoldsDefinition, Teardown
    <3>2. WholeNext(r2.name) /\ (t \in Runners => Handed(r2))
      BY <2>1, <2>2, <2>3 DEF WholeNext, Handed
    <3> QED BY <2>3, <2>7, <3>1, <3>2, WholeMoves
  <2> QED BY <2>4, <2>6, <2>7
<1>23. CASE CheckAdopt(t) \/ StoreAdopted(t)
  <2>1. /\ k.pc \in {"checkAdopt", "storeAdopted"} /\ UNCHANGED <<engine, built, synced>>
    BY <1>23 DEF CheckAdopt, StoreAdopted, At, engineVars, hostVars
  <2>2. /\ k.cfg.host = k.host /\ config[k.name] = None
        /\ Live(t) # None /\ k.cfg.ver = Live(t).ver /\ Live(t) = engine[k.host][k.name]
        /\ k.mode = "start" => k.id # 0
        /\ WholeIn(k.name, config, engine)
    BY <1>0, <1>h, <2>1 DEF SoundIn, Between, HoldsDefinition
  <2>3. CASE CheckAdopt(t)
    <3>1. Continue(t, "storeAdopted") /\ UNCHANGED config
      BY <2>2, <2>3 DEF CheckAdopt
    <3>2. PICK r : Moved(r) /\ r.pc = "storeAdopted" /\ Same(r) /\ r.id = k.id
      BY <1>c, <3>1
    <3>3. SoundNext(r)
      BY <2>1, <2>2, <3>1, <3>2 DEF SoundIn, SoundNext, HoldsDefinition, Teardown
    <3>4. WholeNext(r.name) /\ (t \in Runners => Handed(r))
      BY <1>0, <2>1, <2>2, <3>1, <3>2 DEF WholeNext, Handed
    <3> QED BY <3>2, <3>3, <3>4, WholeMoves
  <2>4. CASE StoreAdopted(t)
    <3>1. PutConfig(t) /\ GoOrFinish(t, Adopted(t, k))
      BY <1>f, <2>4 DEF StoreAdopted
    <3>2. WholeNext(k.name) /\ config'[k.name] = k.cfg /\ k.cfg # None
      BY <1>p, <2>1, <2>2, <3>1 DEF HoldsDefinition
    <3> DEFINE cfg == [k.cfg EXCEPT !.ver = IF k.input = None THEN @ ELSE k.input]
               go == [k EXCEPT !.pc = Gate(t, k)]
               again == [k EXCEPT !.pc = "checkHost", !.cfg = cfg]
               stop == [k EXCEPT !.pc = "idle"]
    <3>3. /\ go.pc = Gate(t, k) /\ Same(go) /\ go.id = k.id
          /\ again.pc = "checkHost" /\ again.mode = k.mode /\ again.name = k.name
          /\ again.host = k.host /\ again.cfg = cfg /\ stop.pc = "idle"
      BY <1>0 DEF TaskRecord
    <3>4. cfg.host = k.cfg.host
      BY <1>0, <2>1 DEF Shape, HoldsDefinition, Definition
    <3>5. \/ Adopted(t, k) = go /\ k.mode = "start"
          \/ Adopted(t, k) = again /\ k.mode = "replace"
          \/ Adopted(t, k) = stop
      <4>1. again = [k EXCEPT !.pc = "checkHost",
                       !.cfg.ver = IF k.input = None THEN @ ELSE k.input]
        BY <1>0 DEF TaskRecord
      <4> QED BY <4>1 DEF Adopted
    <3> HIDE DEF cfg, go, again, stop
    <3>6. CASE Finish(t)
      BY <3>2, <3>6, WholeEnds
    <3>7. CASE k.mode = "start" /\ Moved(go)
      <4>1. Gate(t, k) = IF t \in Runners THEN "startExisting" ELSE "checkHost"
        BY <2>2, <3>7 DEF Gate, Ready
      <4>2. SoundNext(go)
        BY <2>1, <2>2, <3>3, <3>7, <4>1 DEF SoundIn, SoundNext, HoldsDefinition, Teardown
      <4>3. WholeNext(go.name) /\ (t \in Runners => Handed(go))
        BY <3>2, <3>3, <3>7, <4>1 DEF Handed
      <4> QED BY <3>3, <3>7, <4>1, <4>2, <4>3, WholeMoves
    <3>8. CASE k.mode = "replace" /\ Moved(again)
      <4>1. SoundNext(again)
        BY <2>1, <2>2, <3>3, <3>4, <3>8 DEF SoundIn, SoundNext, HoldsDefinition, Teardown
      <4>2. WholeNext(again.name) /\ t \notin Runners
        BY <1>0, <2>1, <3>2, <3>3, <3>8 DEF Handed
      <4> QED BY <3>3, <3>8, <4>1, <4>2, WholeMoves
    <3> QED BY <3>1, <3>3, <3>5, <3>6, <3>7, <3>8 DEF GoOrFinish
  <2> QED BY <1>23, <2>3, <2>4
<1> QED
  BY <1>1, <1>2, <1>3, <1>4, <1>5, <1>6, <1>7, <1>8, <1>9, <1>10, <1>11, <1>12, <1>13,
     <1>14, <1>15, <1>16, <1>17, <1>18, <1>19, <1>20, <1>21, <1>22, <1>23 DEF Step

\* A call that is accepted starts from a server at rest, where every definition has its
\* container, and from what is stored.
LEMMA ApiWhole ==
  ASSUME IInv, OneAtATime, WholeSoFar, NEW t \in Requests, Api(t)
  PROVE  WholeSoFar'
<1>0. /\ task \in [Tasks -> TaskRecord] /\ t \in Tasks /\ t \notin Runners
      /\ Runners \subseteq Tasks /\ config \in [Names -> Definition \cup {None}]
      /\ engine \in [Hosts -> [Names -> Container \cup {None}]]
  BY ConstantsAssumption DEF IInv, TypeOK, Tasks
<1>1. ASSUME NEW kind, NEW k, Call(t, kind, k), SoundIn(k, config, engine, built, synced)
      PROVE  WholeSoFar'
  <2>1. /\ task' = [task EXCEPT ![t] = k] /\ AllIdle
        /\ UNCHANGED <<config, engine, built, synced, faults, crashes>>
    BY <1>1 DEF Call, engineVars, hostVars
  <2>2. \A u \in Tasks : u # t => task'[u].pc = "idle"
    BY <1>0, <2>1 DEF AllIdle, At
  <2>3. task'[t] = k /\ \A w \in Runners : task'[w] = task[w]
    BY <1>0, <2>1
  <2>4. ASSUME faults = 0, crashes = 0
        PROVE  /\ \A n \in Names : WholeIn(n, config, engine)
               /\ \A w \in Runners : Handed(task[w])
    BY <2>1, <2>4 DEF WholeSoFar, AllIdle
  <2> QED BY <1>1, <2>1, <2>2, <2>3, <2>4 DEF WholeSoFar, At
<1>2. ASSUME NEW n, NEW h, NEW v, CallCreate(t, n, h, v) PROVE WholeSoFar'
  <2> DEFINE cfg == [host |-> h, ver |-> v]
             k == [Idle EXCEPT !.pc = "checkName", !.mode = "create", !.name = n,
                     !.host = h, !.cfg = cfg]
  <2>1. Call(t, "create", k) /\ config[n] = None
    BY <1>2 DEF CallCreate
  <2>2. /\ k.pc = "checkName" /\ k.mode = "create" /\ k.name = n /\ k.host = h
        /\ k.cfg = cfg /\ cfg.host = h
    BY DEF Idle
  <2> HIDE DEF k, cfg
  <2>3. SoundIn(k, config, engine, built, synced)
    BY <2>1, <2>2 DEF SoundIn, HoldsDefinition, Teardown
  <2> QED BY <1>1, <2>1, <2>3
<1>3. ASSUME NEW n \in Names, NEW v, CallReplace(t, n, v) PROVE WholeSoFar'
  <2> DEFINE cfg == IF v = None THEN config[n] ELSE [config[n] EXCEPT !.ver = v]
             k == [Idle EXCEPT !.pc = "checkHost", !.mode = "replace", !.name = n,
                     !.host = config[n].host, !.input = v, !.cfg = cfg]
             kind == IF v = None THEN "recreate" ELSE "replace"
  <2>1. Call(t, kind, k) /\ config[n] \in Definition
    BY <1>0, <1>3 DEF CallReplace
  <2>2. /\ k.pc = "checkHost" /\ k.mode = "replace" /\ k.host = config[n].host
        /\ k.cfg = cfg /\ cfg.host = config[n].host
    BY <2>1 DEF Idle, Definition
  <2> HIDE DEF k, cfg, kind
  <2>3. SoundIn(k, config, engine, built, synced)
    BY <2>2 DEF SoundIn, HoldsDefinition, Teardown
  <2> QED BY <1>1, <2>1, <2>3
<1>4. ASSUME NEW n \in Names, NEW mode, NEW v, NEW vols, CallLocated(t, n, mode, v, vols)
      PROVE  WholeSoFar'
  <2> DEFINE k == [Idle EXCEPT !.pc = "locate", !.mode = mode, !.name = n,
                     !.host = LocateFrom(n), !.input = v, !.vols = vols]
             kind == IF mode = "replace" /\ v = None THEN "recreate" ELSE mode
  <2>1. Call(t, kind, k) /\ (mode = "replace" => config[n] = None)
    BY <1>4 DEF CallLocated
  <2>2. k.pc = "locate" /\ k.mode = mode /\ k.name = n /\ k.host = LocateFrom(n)
    BY DEF Idle
  <2> HIDE DEF k, kind
  <2>3. SoundIn(k, config, engine, built, synced)
    BY <2>1, <2>2 DEF SoundIn, HoldsDefinition, Teardown, LocateFrom
  <2> QED BY <1>1, <2>1, <2>3
<1>5. ASSUME NEW n, CallRemoveDangling(t, n) PROVE WholeSoFar'
  <2> DEFINE k == [Idle EXCEPT !.pc = "forget", !.mode = "remove", !.name = n]
  <2>1. Call(t, "remove", k) /\ k.pc = "forget" /\ k.mode = "remove"
    BY <1>5 DEF CallRemoveDangling, Idle
  <2> HIDE DEF k
  <2>2. SoundIn(k, config, engine, built, synced)
    BY <2>1 DEF SoundIn, HoldsDefinition, Teardown
  <2> QED BY <1>1, <2>1, <2>2
<1>6. ASSUME NEW n, NEW h, CallReconcile(t, n, h) PROVE WholeSoFar'
  <2> DEFINE cfg == [host |-> h, ver |-> engine[h][n].ver]
             k == [Idle EXCEPT !.pc = "checkAdopt", !.mode = "adopt", !.name = n,
                     !.host = h, !.cfg = cfg]
  <2>1. Call(t, "adopt", k) /\ engine[h][n] # None /\ config[n] = None
    BY <1>6 DEF CallReconcile
  <2>2. /\ k.pc = "checkAdopt" /\ k.mode = "adopt" /\ k.name = n /\ k.host = h
        /\ k.cfg = cfg /\ cfg.host = h /\ cfg.ver = engine[h][n].ver
    BY DEF Idle
  <2> HIDE DEF k, cfg
  <2>3. SoundIn(k, config, engine, built, synced)
    BY <2>1, <2>2 DEF SoundIn, HoldsDefinition, Teardown
  <2> QED BY <1>1, <2>1, <2>3
<1> QED BY <1>2, <1>3, <1>4, <1>5, <1>6 DEF Api

-----------------------------------------------------------------------------
(* The second part of Settled, of what the first call leaves: it finds     *)
(* every host without containers and volumes, so it can only be a create,  *)
(* or a call that looks for a container and finds none.  As long as the    *)
(* create has not stored its definition, FirstIn says what it may have     *)
(* made, and that it knows it for its own unless something has failed.     *)

Creating ==
  {"checkName", "checkHost", "store", "awaitJobs", "resolveImage", "listVolumes",
   "createVolume", "createContainer", "startNew", "storeNew", "removeNew", "dropFresh"}

CleanAt(h, n, e, v) == e[h][n] = None /\ v[h][n] = None

\* no trace of n on any host
Untouched(n, e, v) == \A h \in Hosts : CleanAt(h, n, e, v)

\* what the first call k has made of definitions c, engines e and volumes v, with f failures
FirstIn(k, c, e, v, f) ==
  /\ k.pc = "locate" => k.host = None /\ c[k.name] = None
  /\ k.pc # "locate" => k.mode = "create" /\ k.pc \in Creating
  /\ c[k.name] = None =>
       /\ k.pc # "awaitJobs"
       /\ \/ Untouched(k.name, e, v)
          \/ /\ k.pc \in {"createContainer", "startNew", "storeNew", "removeNew", "dropFresh"}
             /\ \A h \in Hosts : h # k.host => CleanAt(h, k.name, e, v)
       /\ k.pc \in {"createVolume", "createContainer", "startNew", "storeNew"}
            => k.fresh \/ f >= 1
       /\ k.pc \in {"removeNew", "dropFresh"} => k.fresh /\ f >= 1
       /\ k.pc \in {"createContainer", "dropFresh"} => e[k.host][k.name] = None
       /\ k.pc \in {"startNew", "storeNew", "removeNew"}
            => e[k.host][k.name] # None /\ e[k.host][k.name].id = k.id

CleanSoFar ==
  /\ calls = 0 => AllIdle /\ \A n \in Names : config[n] = None /\ Untouched(n, engine, volume)
  /\ calls = 1 /\ crashes = 0 =>
       /\ \A t \in Tasks : ~At(t, "idle") => FirstIn(task[t], config, engine, volume, faults)
       /\ \A n \in Names :
            \/ config[n] = None => Untouched(n, engine, volume)
            \/ \E t \in Tasks : ~At(t, "idle") /\ task[t].name = n

\* the first call, or the preparation it handed over to, may be in progress
First ==
  /\ IInv /\ Alone /\ CleanSoFar
  /\ calls = 1 /\ crashes = 0

FirstNext(r) == FirstIn(r, config', engine', volume', faults')
LeavesNothing(n) == config'[n] = None => Untouched(n, engine', volume')

\* What is known when the first call takes a step.
LEMMA FirstStep ==
  ASSUME First, NEW t \in Tasks, Step(t)
  PROVE  /\ task[t] \in TaskRecord /\ Shape(task[t]) /\ task[t].pc # "idle"
         /\ task[t].name \in Names
         /\ task \in [Tasks -> TaskRecord]
         /\ FirstIn(task[t], config, engine, volume, faults)
         /\ \A u \in Tasks : u # t => task[u].pc = "idle"
         /\ \A n \in Names : n # task[t].name => LeavesNothing(n)
<1>0. /\ task[t] \in TaskRecord /\ Shape(task[t]) /\ ~At(t, "idle")
      /\ task \in [Tasks -> TaskRecord]
  BY StepTasks DEF First, IInv, TypeOK, Shaped, TaskStep
<1>1. \A u \in Tasks : u # t => task[u].pc = "idle"
  BY <1>0 DEF First, Alone, At
<1>2. /\ FirstIn(task[t], config, engine, volume, faults)
      /\ \A n \in Names : n # task[t].name /\ config[n] = None => Untouched(n, engine, volume)
  BY <1>0, <1>1 DEF First, CleanSoFar, At
<1>3. ASSUME NEW n \in Names, n # task[t].name PROVE LeavesNothing(n)
  <2>1. config'[n] = config[n]
        /\ \A h \in Hosts : engine'[h][n] = engine[h][n] /\ volume'[h][n] = volume[h][n]
    BY <1>3, StepLocal DEF First
  <2> QED BY <1>2, <1>3, <2>1 DEF LeavesNothing, Untouched, CleanAt
<1> QED BY <1>0, <1>1, <1>2, <1>3 DEF Shape, At

\* The first call moves on.
LEMMA FirstMoves ==
  ASSUME First, NEW t \in Tasks, Step(t), NEW r, task' = [task EXCEPT ![t] = r],
         r.pc # "idle", r.name = task[t].name, FirstNext(r)
  PROVE  CleanSoFar'
<1>0. /\ task \in [Tasks -> TaskRecord] /\ calls' = 1
      /\ \A u \in Tasks : u # t => task[u].pc = "idle"
      /\ \A n \in Names : n # task[t].name => LeavesNothing(n)
  BY FirstStep, FaultsGrow DEF First
<1>1. task'[t] = r /\ \A u \in Tasks : u # t => task'[u].pc = "idle"
  BY <1>0
<1> QED BY <1>0, <1>1 DEF CleanSoFar, FirstNext, LeavesNothing, At

\* The first call ends, with nothing left unless its definition is stored.
LEMMA FirstEnds ==
  ASSUME First, NEW t \in Tasks, Step(t), Finish(t), LeavesNothing(task[t].name)
  PROVE  CleanSoFar'
<1>0. /\ task \in [Tasks -> TaskRecord] /\ calls' = 1
      /\ \A u \in Tasks : u # t => task[u].pc = "idle"
      /\ \A n \in Names : n # task[t].name => LeavesNothing(n)
  BY FirstStep, FaultsGrow DEF First
<1>1. \A u \in Tasks : task'[u].pc = "idle"
  BY <1>0 DEF Finish, Idle
<1>2. \A n \in Names : LeavesNothing(n)
  BY <1>0
<1> QED BY <1>0, <1>1, <1>2 DEF CleanSoFar, LeavesNothing, At

\* A create that hands over to a preparation has stored its definition.
LEMMA FirstHandsOver ==
  ASSUME First, NEW t \in Tasks, Step(t), Prepare(t, "create"),
         config'[task[t].name] # None
  PROVE  CleanSoFar'
<1> DEFINE k == task[t]
           r == [Idle EXCEPT !.pc = "awaitJobs", !.mode = "create", !.name = k.name,
                   !.host = k.host, !.cfg = k.cfg, !.need = k.need]
<1>0. /\ task \in [Tasks -> TaskRecord] /\ Runners \subseteq Tasks /\ calls' = 1
      /\ \A u \in Tasks : u # t => task[u].pc = "idle"
      /\ \A n \in Names : n # task[t].name => LeavesNothing(n)
  BY FirstStep, FaultsGrow DEF First, Tasks
<1>1. CASE Finish(t)
  BY <1>1, FirstEnds DEF LeavesNothing
<1>2. ASSUME NEW w \in Runners, task' = [task EXCEPT ![t] = Idle, ![w] = r]
      PROVE  CleanSoFar'
  <2>1. r.pc = "awaitJobs" /\ r.mode = "create" /\ r.name = k.name
    BY DEF Idle
  <2>2. w \in Tasks /\ task' = [task EXCEPT ![t] = Idle, ![w] = r]
    BY <1>0, <1>2
  <2> HIDE DEF r
  <2>3. task'[w] = r /\ \A u \in Tasks : u # w => task'[u].pc = "idle"
    BY <1>0, <2>2 DEF Idle
  <2>4. FirstNext(r)
    BY <2>1 DEF FirstNext, FirstIn, Creating
  <2>5. \A n \in Names : n = k.name \/ LeavesNothing(n)
    BY <1>0
  <2> QED BY <1>0, <2>1, <2>2, <2>3, <2>4, <2>5 DEF CleanSoFar, FirstNext, LeavesNothing, At
<1> QED BY <1>1, <1>2 DEF Prepare

\* Whatever the first call does, a create that has not stored its definition knows what
\* there is to take back, and takes it back.
LEMMA StepClean ==
  ASSUME First, MaxFaults <= 1, NEW t \in Tasks, Step(t)
  PROVE  CleanSoFar'
<1> DEFINE k == task[t]
           Moved(r) == task' = [task EXCEPT ![t] = r]
           Same(r) == /\ r.mode = k.mode /\ r.name = k.name /\ r.host = k.host
                      /\ r.id = k.id /\ r.fresh = k.fresh
           Still == UNCHANGED <<config, engine, volume>>
<1>0. /\ k \in TaskRecord /\ Shape(k) /\ k.pc # "idle" /\ k.name \in Names
      /\ task \in [Tasks -> TaskRecord]
      /\ FirstIn(k, config, engine, volume, faults)
  BY FirstStep
<1>t. /\ config \in [Names -> Definition \cup {None}]
      /\ engine \in [Hosts -> [Names -> Container \cup {None}]]
      /\ volume \in [Hosts -> [Names -> Nat \cup {None}]]
      /\ hosts \subseteq Hosts /\ nextId \in Nat
      /\ faults \in Nat /\ faults' \in Nat /\ faults' >= faults
      /\ IInv
  BY Inductive, FaultsGrow DEF First, IInv, TypeOK, Next
<1>f. Fault => faults = 0 /\ faults' = 1
  BY <1>t, ConstantsAssumption DEF Fault
<1>h. k.pc \notin {"idle", "locate", "forget"} =>
        /\ k.host \in Hosts /\ Live(t) = engine[k.host][k.name]
        /\ Volume(t) = volume[k.host][k.name]
  BY <1>0 DEF Shape, Live, Volume
<1>c. ASSUME NEW p, Continue(t, p)
      PROVE  \E r : Moved(r) /\ r.pc = p /\ Same(r)
  <2> DEFINE r == [k EXCEPT !.pc = p]
  <2>1. Moved(r) /\ r.pc = p /\ Same(r)
    BY <1>0, <1>c DEF Continue, TaskRecord
  <2> QED BY <2>1
\* before its volume is made a create has made nothing
<1>e. ASSUME k.pc \in {"locate", "checkName", "checkHost", "store", "awaitJobs",
                       "resolveImage", "listVolumes", "createVolume"},
             Still, Finish(t)
      PROVE  CleanSoFar'
  <2>1. LeavesNothing(k.name)
    BY <1>0, <1>e DEF FirstIn, LeavesNothing
  <2> QED BY <1>e, <2>1, FirstEnds
<1>g. ASSUME NEW p \in {"checkHost", "store", "resolveImage", "listVolumes"},
             k.pc \in {"checkName", "checkHost", "awaitJobs", "resolveImage"},
             Still, NEW r, Moved(r), Same(r), r.pc = p
      PROVE  CleanSoFar'
  <2>1. FirstNext(r)
    BY <1>0, <1>g DEF FirstNext, FirstIn, Creating
  <2> QED BY <1>g, <2>1, FirstMoves
<1>1. CASE CheckName(t)
  <2>1. k.pc = "checkName" /\ Still
    BY <1>1 DEF CheckName, At, engineVars
  <2>2. Finish(t) \/ Continue(t, "checkHost")
    BY <1>1 DEF CheckName
  <2> QED BY <1>c, <1>e, <1>g, <2>1, <2>2
<1>2. CASE CheckHost(t)
  <2>1. k.pc = "checkHost" /\ Still /\ k.mode = "create"
    BY <1>0, <1>2 DEF CheckHost, At, engineVars, FirstIn
  <2>2. PICK need : task' = [task EXCEPT ![t].need = need,
                     ![t].pc = IF need = {} THEN Ready(k)
                               ELSE IF k.mode = "start" THEN "prepare"
                               ELSE "store"]
    BY <1>2 DEF CheckHost
  <2> DEFINE p == IF need = {} THEN Ready(k)
                  ELSE IF k.mode = "start" THEN "prepare" ELSE "store"
             r == [k EXCEPT !.need = need, !.pc = p]
  <2>3. p \in {"resolveImage", "store"}
    BY <2>1 DEF Ready
  <2> HIDE DEF p
  <2>4. Moved(r) /\ Same(r) /\ r.pc = p
    BY <1>0, <2>2 DEF TaskRecord, p
  <2> QED BY <1>g, <2>1, <2>3, <2>4
<1>3. CASE StoreAndPrepare(t)
  <2>1. k.pc = "store" /\ UNCHANGED <<engine, volume>> /\ k.mode = "create"
    BY <1>0, <1>3 DEF StoreAndPrepare, At, engineVars, FirstIn
  <2>2. CASE Finish(t) /\ UNCHANGED config
    BY <1>e, <2>1, <2>2
  <2>3. CASE PutConfig(t) /\ Prepare(t, "create")
    <3>1. k.cfg \in Definition /\ config'[k.name] = k.cfg
      BY <1>0, <1>t, <2>1, <2>3 DEF Shape, HoldsDefinition, PutConfig
    <3> QED BY <2>3, <3>1, NoneAssumption, FirstHandsOver
  <2> QED BY <1>3, <2>1, <2>2, <2>3 DEF StoreAndPrepare
<1>4. CASE AwaitBuild(t)
  <2>1. k.pc = "awaitJobs" /\ Still
    BY <1>4 DEF AwaitBuild, At, engineVars
  <2>2. CASE Finish(t)
    BY <1>e, <2>1, <2>2
  <2>3. CASE task' = [task EXCEPT ![t].need = @ \ {"image"}]
    <3> DEFINE r == [k EXCEPT !.need = @ \ {"image"}]
    <3>1. Moved(r) /\ Same(r) /\ r.pc = "awaitJobs"
      BY <1>0, <2>1, <2>3 DEF TaskRecord
    <3>2. FirstNext(r)
      BY <1>0, <2>1, <3>1 DEF FirstNext, FirstIn, Creating
    <3> QED BY <3>1, <3>2, FirstMoves
  <2> QED BY <1>4, <2>2, <2>3 DEF AwaitBuild
<1>5. CASE AwaitSync(t)
  <2>1. k.pc = "awaitJobs" /\ Still /\ k.mode = "create"
    BY <1>0, <1>5 DEF AwaitSync, At, engineVars, FirstIn
  <2> DEFINE done == [k EXCEPT !.need = {}]
             r == [done EXCEPT !.pc = Ready(k)]
  <2>2. CASE Finish(t)
    BY <1>e, <2>1, <2>2
  <2>3. CASE Moved(r)
    <3>1. Same(r) /\ r.pc = "resolveImage"
      BY <1>0, <2>1 DEF TaskRecord, Ready
    <3> QED BY <1>g, <2>1, <2>3, <3>1
  <2> QED BY <1>5, <2>1, <2>2, <2>3 DEF AwaitSync
<1>6. CASE ResolveImage(t)
  <2>1. k.pc = "resolveImage" /\ Still
    BY <1>6 DEF ResolveImage, At, engineVars
  <2>2. Finish(t) \/ Continue(t, "listVolumes")
    BY <1>6 DEF ResolveImage
  <2> QED BY <1>c, <1>e, <1>g, <2>1, <2>2
<1>7. CASE ListVolumes(t)
  <2>1. /\ k.pc = "listVolumes" /\ Still
    BY <1>7 DEF ListVolumes, At, engineVars
  <2>2. PICK known \in BOOLEAN, since \in {nextId, 0} :
          /\ IF known THEN Fine ELSE Fault
          /\ task' = [task EXCEPT ![t].pc = "createVolume",
                        ![t].fresh = known /\ Volume(t) = None, ![t].since = since]
    BY <1>7 DEF ListVolumes
  <2> DEFINE fresh == known /\ Volume(t) = None
             r == [k EXCEPT !.pc = "createVolume", !.fresh = fresh, !.since = since]
  <2>3. config[k.name] = None => fresh \/ faults' >= 1
    BY <1>0, <1>f, <1>h, <2>1, <2>2 DEF FirstIn, Untouched, CleanAt
  <2> HIDE DEF fresh
  <2>4. /\ Moved(r) /\ r.pc = "createVolume" /\ r.fresh = fresh
        /\ r.mode = k.mode /\ r.name = k.name /\ r.host = k.host
    BY <1>0, <2>2 DEF TaskRecord, fresh
  <2> HIDE DEF r
  <2>5. FirstNext(r)
    BY <1>0, <2>1, <2>3, <2>4 DEF FirstNext, FirstIn, Creating
  <2> QED BY <1>0, <2>4, <2>5, FirstMoves
\* from its volume on a create works at one place only
<1>v. ASSUME k.pc \in {"createVolume", "createContainer", "startNew", "storeNew", "removeNew",
                       "dropFresh"},
             config[k.name] = None
      PROVE  \A h \in Hosts : h # k.host => CleanAt(h, k.name, engine, volume)
  BY <1>0, <1>v DEF FirstIn, Untouched
<1>w. ASSUME k.pc \in {"createVolume", "createContainer", "startNew", "storeNew", "removeNew",
                       "dropFresh"},
             config'[k.name] = None, config[k.name] = None,
             UNCHANGED engine \/ \E c : SetLive(t, c),
             UNCHANGED volume \/ \E v : SetVolume(t, v)
      PROVE  \A h \in Hosts : h # k.host => CleanAt(h, k.name, engine', volume')
  <2>1. k.pc \notin {"idle", "locate", "forget"}
    BY <1>w
  <2>2. \A h \in Hosts : h # k.host =>
          engine'[h][k.name] = engine[h][k.name] /\ volume'[h][k.name] = volume[h][k.name]
    BY <1>0, <1>t, <1>w, <2>1, LiveSet, VolumeSet
  <2> QED BY <1>v, <1>w, <2>2 DEF CleanAt
<1>8. CASE CreateVolume(t)
  <2>1. k.pc = "createVolume" /\ UNCHANGED <<config, engine>> /\ k.mode = "create"
    BY <1>0, <1>8 DEF CreateVolume, At, FirstIn
  <2>2. CASE Finish(t) /\ UNCHANGED volume
    BY <1>e, <2>1, <2>2
  <2>3. CASE VolumeEnsured(t) /\ Continue(t, "createContainer")
    <3>1. PICK r : Moved(r) /\ r.pc = "createContainer" /\ Same(r)
      BY <1>c, <2>3
    <3>2. UNCHANGED volume \/ \E v : SetVolume(t, v)
      BY <2>3 DEF VolumeEnsured
    <3>3. config'[k.name] = None =>
            \A h \in Hosts : h # k.host => CleanAt(h, k.name, engine', volume')
      BY <1>w, <2>1, <3>2
    <3>4. config[k.name] = None => engine[k.host][k.name] = None /\ (k.fresh \/ faults' >= 1)
      BY <1>0, <1>h, <1>t, <2>1 DEF FirstIn, Untouched, CleanAt
    <3>5. FirstNext(r)
      BY <2>1, <3>1, <3>3, <3>4 DEF FirstNext, FirstIn, Creating
    <3> QED BY <1>0, <3>1, <3>5, FirstMoves
  <2> QED BY <1>8, <2>2, <2>3 DEF CreateVolume
<1>9. CASE CreateContainer(t)
  <2>1. k.pc = "createContainer" /\ UNCHANGED config /\ k.mode = "create"
    BY <1>0, <1>9 DEF CreateContainer, At, FirstIn
  <2>2. CASE (Fault \/ Live(t) # None) /\ Continue(t, "dropFresh") /\ UNCHANGED engineVars
    <3>1. PICK r : Moved(r) /\ r.pc = "dropFresh" /\ Same(r)
      BY <1>c, <2>2
    <3>2. config[k.name] = None => engine[k.host][k.name] = None /\ k.fresh /\ faults' >= 1
      BY <1>0, <1>f, <1>h, <1>t, <2>1, <2>2 DEF FirstIn
    <3>3. config[k.name] = None =>
            \A h \in Hosts : h # k.host => CleanAt(h, k.name, engine', volume')
      BY <1>v, <2>1, <2>2 DEF engineVars
    <3>4. FirstNext(r)
      BY <2>1, <2>2, <3>1, <3>2, <3>3 DEF FirstNext, FirstIn, Creating, engineVars
    <3> QED BY <1>0, <3>1, <3>4, FirstMoves
  <2>3. CASE /\ SetLive(t, [id |-> nextId, ver |-> k.cfg.ver, state |-> "created"])
             /\ VolumeEnsured(t)
             /\ task' = [task EXCEPT ![t].id = nextId, ![t].pc = AfterCreate(t)]
    <3> DEFINE c == [id |-> nextId, ver |-> k.cfg.ver, state |-> "created"]
               p == AfterCreate(t)
               r == [k EXCEPT !.id = nextId, !.pc = p]
    <3>1. p \in {"startNew", "storeNew"}
      BY <2>1 DEF AfterCreate
    <3>2. c # None /\ c.id = nextId
      <4>1. k.cfg.ver \in Versions
        BY <1>0, <2>1 DEF Shape, HoldsDefinition, Definition
      <4> QED BY <1>t, <4>1, NoneAssumption DEF Container
    <3>3. SetLive(t, c) /\ (UNCHANGED volume \/ \E v : SetVolume(t, v))
      BY <2>3 DEF VolumeEnsured
    <3> HIDE DEF c, p
    <3>4. /\ Moved(r) /\ r.pc = p /\ r.id = nextId /\ r.fresh = k.fresh
          /\ r.mode = k.mode /\ r.name = k.name /\ r.host = k.host
      BY <1>0, <2>3 DEF TaskRecord, p
    <3> HIDE DEF r
    <3>5. engine'[k.host][k.name] # None /\ engine'[k.host][k.name].id = r.id
      BY <1>t, <2>1, <3>2, <3>3, <3>4, LiveSet
    <3>6. config[k.name] = None =>
            /\ \A h \in Hosts : h # k.host => CleanAt(h, k.name, engine', volume')
            /\ k.fresh \/ faults' >= 1
      BY <1>0, <1>t, <1>w, <2>1, <3>3 DEF FirstIn
    <3>7. FirstNext(r)
      BY <2>1, <3>1, <3>4, <3>5, <3>6 DEF FirstNext, FirstIn, Creating
    <3> QED BY <1>0, <3>1, <3>4, <3>7, FirstMoves
  <2> QED BY <1>9, <2>2, <2>3 DEF CreateContainer
\* a create that has made its container and lost nothing to a failure yet
<1>s. ASSUME k.pc \in {"startNew", "storeNew", "removeNew"}, config[k.name] = None
      PROVE  StillThere(t)
  BY <1>0, <1>h, <1>s DEF StillThere, FirstIn
<1>r. ASSUME k.pc \in {"startNew", "storeNew"}, Continue(t, "removeNew"), Still,
             config[k.name] = None => Fault
      PROVE  CleanSoFar'
  <2>1. PICK r : Moved(r) /\ r.pc = "removeNew" /\ Same(r)
    BY <1>c, <1>r
  <2>2. config[k.name] = None =>
          /\ \A h \in Hosts : h # k.host => CleanAt(h, k.name, engine, volume)
          /\ k.fresh /\ faults' >= 1
          /\ engine[k.host][k.name] # None /\ engine[k.host][k.name].id = k.id
    BY <1>0, <1>f, <1>r, <1>v DEF FirstIn
  <2>3. k.mode = "create"
    BY <1>0, <1>r DEF FirstIn
  <2>4. FirstNext(r)
    BY <1>r, <2>1, <2>2, <2>3 DEF FirstNext, FirstIn, Creating
  <2> QED BY <1>0, <2>1, <2>4, FirstMoves
<1>10. CASE StartNew(t)
  <2>1. k.pc = "startNew" /\ UNCHANGED config /\ k.mode = "create"
    BY <1>0, <1>10 DEF StartNew, At, FirstIn
  <2>2. CASE (Fault \/ ~StillThere(t)) /\ Continue(t, "removeNew") /\ UNCHANGED engineVars
    BY <1>r, <1>s, <2>1, <2>2 DEF engineVars
  <2>3. CASE StillThere(t) /\ RunLive(t) /\ Continue(t, "storeNew")
    <3>1. PICK r : Moved(r) /\ r.pc = "storeNew" /\ Same(r)
      BY <1>c, <2>3
    <3> DEFINE c == [Live(t) EXCEPT !.state = "running"]
    <3>2. SetLive(t, c) /\ \E v : SetVolume(t, v)
      BY <2>3 DEF RunLive
    <3>3. Live(t) \in Container /\ Live(t).id = k.id
      BY <1>t, <2>1, <2>3, <3>2, LiveSet DEF StillThere
    <3>4. c # None /\ c.id = k.id
      BY <3>3, NoneAssumption DEF Container
    <3> HIDE DEF c
    <3>5. engine'[k.host][k.name] # None /\ engine'[k.host][k.name].id = k.id
      BY <1>t, <2>1, <3>2, <3>4, LiveSet
    <3>6. config[k.name] = None =>
            /\ \A h \in Hosts : h # k.host => CleanAt(h, k.name, engine', volume')
            /\ k.fresh \/ faults' >= 1
      BY <1>0, <1>t, <1>w, <2>1, <3>2 DEF FirstIn
    <3>7. FirstNext(r)
      BY <2>1, <3>1, <3>5, <3>6 DEF FirstNext, FirstIn, Creating
    <3> QED BY <1>0, <3>1, <3>7, FirstMoves
  <2> QED BY <1>10, <2>2, <2>3 DEF StartNew
<1>11. CASE StoreNew(t)
  <2>1. k.pc = "storeNew" /\ UNCHANGED <<engine, volume>>
    BY <1>11 DEF StoreNew, At, engineVars
  <2>2. CASE PutConfig(t) /\ Finish(t)
    <3>1. k.cfg \in Definition /\ config'[k.name] = k.cfg
      BY <1>0, <1>t, <2>1, <2>2 DEF Shape, HoldsDefinition, PutConfig
    <3> QED BY <2>2, <3>1, NoneAssumption, FirstEnds DEF LeavesNothing
  <2>3. CASE Fault /\ Continue(t, "removeNew") /\ UNCHANGED config
    BY <1>r, <2>1, <2>3
  <2> QED BY <1>11, <2>2, <2>3 DEF StoreNew
<1>12. CASE RemoveNew(t)
  <2>1. /\ k.pc = "removeNew" /\ UNCHANGED <<config, volume>> /\ k.mode = "create"
        /\ Continue(t, "dropFresh")
    BY <1>0, <1>12 DEF RemoveNew, At, FirstIn
  <2>2. PICK r : Moved(r) /\ r.pc = "dropFresh" /\ Same(r)
    BY <1>c, <2>1
  <2>3. ASSUME config[k.name] = None
        PROVE  /\ engine'[k.host][k.name] = None
               /\ \A h \in Hosts : h # k.host => CleanAt(h, k.name, engine', volume')
               /\ k.fresh /\ faults' >= 1
    <3>1. StillThere(t) /\ k.fresh /\ faults >= 1
      BY <1>0, <1>s, <2>1, <2>3 DEF FirstIn
    <3>2. SetLive(t, None)
      BY <1>f, <1>t, <1>12, <3>1 DEF RemoveNew
    <3>3. engine'[k.host][k.name] = None
      BY <1>t, <2>1, <3>2, LiveSet
    <3>4. faults' >= 1
      BY <1>t, <3>1
    <3> QED BY <1>w, <2>1, <2>3, <3>1, <3>2, <3>3, <3>4
  <2>4. FirstNext(r)
    BY <2>1, <2>2, <2>3 DEF FirstNext, FirstIn, Creating
  <2> QED BY <1>0, <2>2, <2>4, FirstMoves
<1>13. CASE DropFresh(t)
  <2>1. k.pc = "dropFresh" /\ UNCHANGED <<config, engine>> /\ Finish(t)
    BY <1>13 DEF DropFresh, At
  <2>2. ASSUME config[k.name] = None
        PROVE  Untouched(k.name, engine', volume')
    <3>1. engine[k.host][k.name] = None /\ k.fresh /\ faults >= 1 /\ Live(t) = None
      BY <1>0, <1>h, <2>1, <2>2 DEF FirstIn
    <3>2. SetVolume(t, None)
      BY <1>f, <1>t, <1>13, <3>1 DEF DropFresh
    <3>3. volume'[k.host][k.name] = None
      BY <1>t, <2>1, <3>2, VolumeSet
    <3>4. \A h \in Hosts : h # k.host => CleanAt(h, k.name, engine', volume')
      BY <1>w, <2>1, <2>2, <3>2
    <3> QED BY <2>1, <3>1, <3>3, <3>4 DEF Untouched, CleanAt
  <2> QED BY <2>1, <2>2, FirstEnds DEF LeavesNothing
<1>14. CASE Locate(t)
  <2>1. /\ k.pc = "locate" /\ k.host = None /\ Untouched(k.name, engine, volume)
    BY <1>0, <1>14 DEF Locate, At, FirstIn
  <2>2. Still
    BY <1>14 DEF Locate, engineVars
  <2>3. \A h \in hosts : engine[h][k.name] = None
    BY <1>t, <2>1 DEF Untouched, CleanAt
  <2>4. Finish(t)
    BY <1>14, <2>1, <2>3 DEF Locate
  <2> QED BY <1>e, <2>1, <2>2, <2>4
\* and no other await is one of a create, or of a call that has found nothing
<1>15. CASE k.pc \in Creating \cup {"locate"}
  <2>1. ~LoadConfig(t) /\ ~StartPreparing(t) /\ ~CheckAdopt(t) /\ ~StoreAdopted(t)
    BY <1>15 DEF LoadConfig, StartPreparing, CheckAdopt, StoreAdopted, At, Creating
  <2>2. ~FindPrevious(t) /\ ~StopPrevious(t) /\ ~RemovePrevious(t) /\ ~StoreReplaced(t)
        /\ ~StartReplaced(t)
    BY <1>15 DEF FindPrevious, StopPrevious, RemovePrevious, StoreReplaced,
       StartReplaced, At, Creating
  <2>3. ~StartExisting(t) /\ ~StopContainer(t) /\ ~RestartContainer(t) /\ ~StopToRemove(t)
        /\ ~RemoveContainer(t) /\ ~DropVolume(t) /\ ~Forget(t)
    BY <1>15 DEF StartExisting, StopContainer, RestartContainer, StopToRemove,
       RemoveContainer, DropVolume, Forget, At, Creating
  <2> QED BY <1>1, <1>2, <1>3, <1>4, <1>5, <1>6, <1>7, <1>8, <1>9, <1>10, <1>11, <1>12,
             <1>13, <1>14, <2>1, <2>2, <2>3 DEF Step
<1> QED BY <1>0, <1>15 DEF FirstIn

\* The first call finds no definition, no container and no volume.
LEMMA ApiClean ==
  ASSUME IInv, OneAtATime, CleanSoFar, NEW t \in Requests, Api(t)
  PROVE  CleanSoFar'
<1>0. task \in [Tasks -> TaskRecord] /\ t \in Tasks /\ calls \in Nat
  BY DEF IInv, TypeOK, Tasks
<1>1. ASSUME NEW kind, NEW k, Call(t, kind, k),
             calls = 0 => k.pc # "idle" /\ FirstIn(k, config, engine, volume, faults)
      PROVE  CleanSoFar'
  <2>1. /\ task' = [task EXCEPT ![t] = k] /\ AllIdle /\ calls' = calls + 1
        /\ UNCHANGED <<config, engine, volume, faults>>
    BY <1>1 DEF Call, engineVars
  <2>2. task'[t] = k /\ \A u \in Tasks : u # t => task'[u].pc = "idle"
    BY <1>0, <2>1 DEF AllIdle, At
  <2>3. CASE calls # 0
    <3>1. calls' # 0 /\ calls' # 1
      BY <1>0, <2>1, <2>3
    <3> QED BY <3>1 DEF CleanSoFar
  <2>4. CASE calls = 0
    <3>1. calls' = 1 /\ \A n \in Names : Untouched(n, engine, volume)
      BY <2>1, <2>4 DEF CleanSoFar
    <3> QED BY <1>1, <2>1, <2>2, <2>4, <3>1 DEF CleanSoFar, Untouched, At
  <2> QED BY <2>3, <2>4
<1>2. calls = 0 => \A n \in Names : config[n] = None /\ Untouched(n, engine, volume)
  BY DEF CleanSoFar
<1>3. ASSUME NEW n \in Names, NEW h, NEW v, CallCreate(t, n, h, v) PROVE CleanSoFar'
  <2> DEFINE k == [Idle EXCEPT !.pc = "checkName", !.mode = "create", !.name = n,
                     !.host = h, !.cfg = [host |-> h, ver |-> v]]
  <2>1. Call(t, "create", k) /\ k.pc = "checkName" /\ k.mode = "create" /\ k.name = n
    BY <1>3 DEF CallCreate, Idle
  <2> HIDE DEF k
  <2>2. calls = 0 => FirstIn(k, config, engine, volume, faults)
    BY <1>2, <2>1 DEF FirstIn, Creating
  <2> QED BY <1>1, <2>1, <2>2
<1>4. ASSUME NEW n \in Names, NEW mode, NEW v, NEW vols, CallLocated(t, n, mode, v, vols)
      PROVE  CleanSoFar'
  <2> DEFINE k == [Idle EXCEPT !.pc = "locate", !.mode = mode, !.name = n,
                     !.host = LocateFrom(n), !.input = v, !.vols = vols]
             kind == IF mode = "replace" /\ v = None THEN "recreate" ELSE mode
  <2>1. Call(t, kind, k) /\ k.pc = "locate" /\ k.name = n /\ k.host = LocateFrom(n)
    BY <1>4 DEF CallLocated, Idle
  <2> HIDE DEF k, kind
  <2>2. calls = 0 => FirstIn(k, config, engine, volume, faults)
    BY <1>2, <2>1 DEF FirstIn, LocateFrom
  <2> QED BY <1>1, <2>1, <2>2
<1>5. ASSUME NEW n \in Names,
             \/ \E v : CallReplace(t, n, v)
             \/ CallRemoveDangling(t, n)
             \/ \E h \in Hosts : CallReconcile(t, n, h)
      PROVE  CleanSoFar'
  <2>1. calls # 0
    BY <1>2, <1>5 DEF CallReplace, CallRemoveDangling, Locatable, CallReconcile, Untouched,
       CleanAt
  <2>2. \E kind, k : Call(t, kind, k)
    BY ApiCalls
  <2> QED BY <1>1, <2>1, <2>2
<1> QED BY <1>3, <1>4, <1>5 DEF Api

\* Where calls come one at a time, every definition is left with the container it asks
\* for, unless something failed; and a create that failed, at whichever single call to
\* the engine or to the config store, has left no container and no volume behind
\* (containers/service.ts: createContainerFor, materialize, doReplace, start, remove).
THEOREM RestIsSettled ==
  ASSUME OneAtATime, MaxFaults <= 1
  PROVE  Spec => []Settled
<1> DEFINE J == IInv /\ Alone /\ PreparationExclusive /\ Numbered /\ WholeSoFar /\ CleanSoFar
<1>1. Init => J
  <2> SUFFICES ASSUME Init PROVE J
    OBVIOUS
  <2>1. /\ task = [t \in Tasks |-> Idle] /\ preparations = {} /\ nextId = 1 /\ calls = 0
        /\ \A n \in Names : config[n] = None
        /\ \A h \in Hosts, n \in Names : engine[h][n] = None /\ volume[h][n] = None
    BY DEF Init
  <2>2. \A t \in Tasks : task[t].pc = "idle"
    BY <2>1 DEF Idle
  <2>3. Alone /\ PreparationExclusive
    BY <2>1, <2>2 DEF Alone, PreparationExclusive, At, Tasks
  <2>4. Numbered /\ CleanSoFar
    BY <2>1, <2>2 DEF Numbered, CleanSoFar, AllIdle, At, Untouched, CleanAt
  <2>5. WholeSoFar
    BY <2>1, <2>2 DEF WholeSoFar, WholeIn, Handed, At, Tasks
  <2> QED BY <2>3, <2>4, <2>5, Inductive
<1>2. J /\ [Next]_vars => J'
  <2> SUFFICES ASSUME J, [Next]_vars
               PROVE  Alone' /\ PreparationExclusive' /\ Numbered' /\ WholeSoFar' /\ CleanSoFar'
    BY Inductive
  <2>0. task \in [Tasks -> TaskRecord] /\ Runners \subseteq Tasks /\ crashes \in Nat
        /\ calls \in Nat /\ faults \in Nat
    BY DEF IInv, TypeOK, Tasks
  <2>1. ASSUME NEW t \in Requests, Api(t)
        PROVE  Alone' /\ PreparationExclusive' /\ Numbered' /\ WholeSoFar' /\ CleanSoFar'
    <3>1. PICK kind, k : Call(t, kind, k)
      BY <2>1, ApiCalls
    <3>2. /\ task' = [task EXCEPT ![t] = k] /\ AllIdle
          /\ UNCHANGED <<preparations, engine, nextId>>
      BY <3>1 DEF Call, engineVars
    <3>3. \A u \in Tasks : u # t => task'[u].pc = "idle"
      BY <2>0, <3>2 DEF AllIdle, At
    <3>4. \A w \in Runners : task'[w] = task[w]
      BY <2>0, <3>2, ConstantsAssumption
    <3>5. Alone' /\ PreparationExclusive'
      BY <3>2, <3>3, <3>4 DEF Alone, PreparationExclusive, At
    <3>6. Numbered'
      BY <3>2 DEF Numbered
    <3> QED BY <2>1, <3>5, <3>6, ApiWhole, ApiClean
  <2>2. ASSUME NEW t \in Tasks, Step(t)
        PROVE  Alone' /\ PreparationExclusive' /\ Numbered' /\ WholeSoFar' /\ CleanSoFar'
    <3>1. Alone' /\ PreparationExclusive' /\ Numbered'
      BY <2>2, StepTasks, StepAlone, StepExclusive, StepNumbered
    <3>2. faults' \in Nat /\ faults' >= faults /\ UNCHANGED <<calls, crashes>>
      BY <2>2, FaultsGrow, Inductive DEF IInv, TypeOK, Next
    <3>3. WholeSoFar'
      <4>1. CASE faults' = 0 /\ crashes' = 0
        <5>1. Calm
          BY <2>0, <3>2, <4>1 DEF Calm
        <5> QED BY <2>2, <4>1, <5>1, StepWhole
      <4>2. CASE ~(faults' = 0 /\ crashes' = 0)
        BY <4>2 DEF WholeSoFar
      <4> QED BY <4>1, <4>2
    <3>4. CleanSoFar'
      <4>1. ~At(t, "idle")
        BY <2>2, StepTasks DEF TaskStep
      <4>2. calls # 0
        BY <4>1 DEF CleanSoFar, AllIdle
      <4>3. CASE calls = 1 /\ crashes = 0
        BY <2>2, <4>3, StepClean DEF First
      <4>4. CASE ~(calls = 1 /\ crashes = 0)
        BY <3>2, <4>2, <4>4 DEF CleanSoFar
      <4> QED BY <4>3, <4>4
    <3> QED BY <3>1, <3>3, <3>4
  <2>3. ASSUME NEW h \in Hosts, DeleteHost(h)
        PROVE  Alone' /\ PreparationExclusive' /\ Numbered' /\ WholeSoFar' /\ CleanSoFar'
    <3>1. UNCHANGED <<config, preparations, task, engine, volume, nextId, built, synced,
                      faults, calls, crashes>>
      BY <2>3 DEF DeleteHost, engineVars, boundVars
    <3>2. Alone' /\ PreparationExclusive' /\ Numbered'
      BY <3>1 DEF Alone, PreparationExclusive, Numbered, At
    <3>3. WholeSoFar'
      BY <3>1 DEF WholeSoFar, At
    <3>4. CleanSoFar'
      BY <3>1 DEF CleanSoFar, AllIdle, At
    <3> QED BY <3>2, <3>3, <3>4
  <2>4. CASE Restart
    <3>1. /\ crashes' # 0 /\ task' = [u \in Tasks |-> Idle] /\ preparations' = {}
          /\ UNCHANGED <<config, engine, volume, nextId, calls>>
      BY <2>0, <2>4 DEF Restart, engineVars
    <3>2. \A u \in Tasks : task'[u].pc = "idle"
      BY <3>1 DEF Idle
    <3>3. Alone' /\ PreparationExclusive' /\ Numbered'
      BY <2>0, <3>1, <3>2 DEF Alone, PreparationExclusive, Numbered, At
    <3>4. WholeSoFar' /\ CleanSoFar'
      BY <3>1, <3>2 DEF WholeSoFar, CleanSoFar, AllIdle, At
    <3> QED BY <3>3, <3>4
  <2>5. CASE UNCHANGED vars
    <3>1. Alone' /\ PreparationExclusive' /\ Numbered'
      BY <2>5 DEF vars, Alone, PreparationExclusive, Numbered, At
    <3>2. WholeSoFar'
      BY <2>5 DEF vars, WholeSoFar, At
    <3>3. CleanSoFar'
      BY <2>5 DEF vars, CleanSoFar, AllIdle, At
    <3> QED BY <3>1, <3>2, <3>3
  <2> QED BY <2>1, <2>2, <2>3, <2>4, <2>5 DEF Next, Rest
<1>3. J => Settled
  <2> SUFFICES ASSUME J, AllIdle, crashes = 0, NEW n \in Names
               PROVE  /\ faults = 0 => WholeIn(n, config, engine)
                      /\ calls = 1 /\ config[n] = None =>
                           \A h \in Hosts : engine[h][n] = None /\ volume[h][n] = None
    BY DEF Settled, WholeIn
  <2>1. faults = 0 => WholeIn(n, config, engine)
    BY DEF WholeSoFar, AllIdle
  <2>2. calls = 1 /\ config[n] = None => Untouched(n, engine, volume)
    BY DEF CleanSoFar, AllIdle
  <2> QED BY <2>1, <2>2 DEF Untouched, CleanAt
<1> QED BY <1>1, <1>2, <1>3, PTL DEF Spec
==============================================================================
