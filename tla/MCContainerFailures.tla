------------------------- MODULE MCContainerFailures -------------------------
(* Two instances of ContainerService for TLC, about what one failure        *)
(* leaves behind; a behaviour is about one of them.  In the one extended    *)
(* here two calls that make containers run at once, on one host.  In        *)
(* Sequential calls of any kind come one at a time, on two hosts of which   *)
(* one may be deleted, and the server may be restarted.                     *)
EXTENDS ContainerService, TLC

CONSTANTS h1, h2, n1, v1, v2, node, r1, r2, w1, w2

MCImageOf == [v \in Versions |-> node]

\* those of Sequential
VARIABLES sConfig, sPreparations, sTask, sHosts, sEngine, sVolume, sBuilt, sSynced,
          sNextId, sCalls, sFaults, sCrashes

VARIABLE part

sVars == <<sConfig, sPreparations, sTask, sHosts, sEngine, sVolume, sBuilt, sSynced,
           sNextId, sCalls, sFaults, sCrashes>>
serviceParts == <<part, vars, sVars>>

Sequential == INSTANCE ContainerService WITH
  Hosts <- {h1, h2}, Requests <- {r1}, Runners <- {w1}, Calls <- Modes \cup {"recreate"},
  OneAtATime <- TRUE, DeletableHosts <- {h1}, MaxCalls <- 5, MaxCrashes <- 1,
  config <- sConfig, preparations <- sPreparations, task <- sTask, hosts <- sHosts,
  engine <- sEngine, volume <- sVolume, built <- sBuilt, synced <- sSynced,
  nextId <- sNextId, calls <- sCalls, faults <- sFaults, crashes <- sCrashes

FailuresInit ==
  /\ Init /\ Sequential!Init
  /\ \/ part = "overlapping" /\ \A h \in {h1, h2} : sBuilt[h] = {} /\ ~sSynced[h]
     \/ part = "sequential" /\ \A h \in Hosts : built[h] = {} /\ ~synced[h]

FailuresNext ==
  /\ UNCHANGED part
  /\ \/ part = "overlapping" /\ Next /\ UNCHANGED sVars
     \/ part = "sequential" /\ Sequential!Next /\ UNCHANGED vars

\* every awaited operation settles and the event loop resumes its caller
FailuresSpec ==
  /\ FailuresInit /\ [][FailuresNext]_serviceParts
  /\ \A t \in Tasks : WF_vars(part = "overlapping" /\ Step(t) /\ UNCHANGED <<part, sVars>>)

-----------------------------------------------------------------------------
\* Every call returns and every preparation ends, also when the preparation
\* calls back into start() and another creator or a failure gets in its way.
TasksEnd == part = "overlapping" => \A t \in Tasks : ~At(t, "idle") ~> At(t, "idle")

\* What calls that come one at a time leave when they have ended is a container
\* made of the definition that is stored, and of a create that failed nothing.
SettlesInTurn == Sequential!Settled
=============================================================================
