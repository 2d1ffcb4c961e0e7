------------------------------ MODULE MCServer -------------------------------
(* Instances of ConfigStore, JobLog and ImageJobs for TLC, three parts of   *)
(* the server of which a behaviour is about one.  The config is a map from  *)
(* container names to definitions, put and delete as in putContainer and    *)
(* deleteContainer, and there is one definition the schema refuses.         *)
EXTENDS ConfigStore, JobLog, ImageJobs, TLC

CONSTANTS boot, u1, u2, d1, d2, good, bad, torn, j1, p1, p2, node, tools, c1, c2

VARIABLE part
serverParts == <<part, vars, logVars, jobsVars>>

MCNames == {d1, d2}
MCConfigs == [MCNames -> {good, bad, None}]
MCDefault == [n \in MCNames |-> None]
MCSeed == <<"seed", d1>>
MCOps == {MCSeed} \cup ({good, bad, None} \X MCNames)
MCApply(v, o) == IF o = MCSeed THEN v ELSE [v EXCEPT ![o[2]] = o[1]]
MCValid(v) == \A n \in MCNames : v[n] # bad

ServerInit == part \in {"store", "log", "jobs"} /\ Init /\ LogInit /\ JobsInit

ServerNext ==
  /\ UNCHANGED part
  /\ \/ part = "store" /\ Next /\ UNCHANGED <<logVars, jobsVars>>
     \/ part = "log" /\ LogNext /\ UNCHANGED <<vars, jobsVars>>
     \/ part = "jobs" /\ JobsNext /\ UNCHANGED <<vars, logVars>>

\* the fairness of the part a behaviour is about
ServerSpec ==
  /\ ServerInit /\ [][ServerNext]_serverParts
  /\ \A p \in Polls : WF_logVars(part = "log" /\ Answering(p))
  /\ WF_logVars(part = "log" /\ Timers)
  /\ WF_jobsVars(part = "jobs" /\ SomeJobRuns)
  /\ \A c \in Callers : WF_jobsVars(part = "jobs" /\ CallerStep(c))
=============================================================================
