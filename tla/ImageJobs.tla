------------------------------ MODULE ImageJobs ------------------------------
(***************************************************************************)
(* The job registry of server/src/images/service.ts: builds, pulls and     *)
(* tools syncs as background jobs, started by a user's click (who is       *)
(* refused while the same job runs) or by a preparation of                 *)
(* containers/service.ts (which asks for the image or the tools volume to  *)
(* be there, and waits for the job that makes it so).                      *)
(*                                                                         *)
(* A job works on a key: the host, the kind and the target of startJob.    *)
(* Its function looks at what is there, reads the progress stream of a     *)
(* build or a pull to its end, and finishes up; "settled" says that it has *)
(* ended.  It goes on after the job was cancelled, unless the cancel finds *)
(* it at the stream: consumeJsonLineStream of backends/socket.ts destroys  *)
(* the stream, and one that is destroyed tells neither 'end' nor 'error',  *)
(* which is all its promise listens to.                                    *)
(***************************************************************************)
EXTENDS Naturals, Sequences, FiniteSets, FiniteSetsExt

CONSTANTS
  Keys,         \* what a job can be about
  Syncs,        \* the keys of kind "tools-sync"
  Callers,      \* slots for preparations
  JobLimit,     \* MAX_JOBS, 50 in the code
  MaxCalls,     \* bound: clicks on build, and preparations begun
  MaxFailures,  \* bound: clicks on cancel, jobs and probes that fail
  NoKey

ASSUME JobsAssumption ==
  /\ Syncs \subseteq Keys
  /\ IsFiniteSet(Callers)
  /\ JobLimit \in Nat \ {0}
  /\ MaxCalls \in Nat /\ MaxFailures \in Nat
  /\ NoKey \notin Keys \cup {"ready", "failed", "conflict"}

VARIABLES
  jobs,      \* every job ever started, oldest first; its index is its id
  registry,  \* the ids the jobs map still holds
  present,   \* is what the key is about on the engine, up to date
  caller,    \* what every preparation is doing
  calls, failures

jobsVars == <<jobs, registry, present, caller, calls, failures>>
bounds == <<calls, failures>>

Status  == {"running", "success", "error", "cancelled"}
Outcome == {"ready", "failed", "conflict"}
Job == [key : Keys, status : Status, settled : BOOLEAN,
        at   : {"before", "stream", "after"},  \* where its function is
        deaf : BOOLEAN]                        \* at a stream that was destroyed
CallerRecord ==
  [pc   : {"idle", "probing", "resume", "joining", "awaiting"},
   key  : Keys \cup {NoKey},
   job  : Nat,                  \* the job it waits for, 0 = none
   seen : BOOLEAN,              \* what the probe answered
   blind : BOOLEAN,             \* it did not: nobody knows
   told : Outcome \cup {NoKey}]  \* how its last call ended

JobsInit ==
  /\ jobs = <<>>
  /\ registry = {}
  /\ present = [key \in Keys |-> FALSE]
  /\ caller = [c \in Callers |-> [pc |-> "idle", key |-> NoKey, job |-> 0,
                                  seen |-> FALSE, blind |-> FALSE, told |-> NoKey]]
  /\ calls = 0 /\ failures = 0

Fails == failures < MaxFailures /\ failures' = failures + 1

-----------------------------------------------------------------------------
(* The registry. *)

\* the ids runningJobFor may answer
RunningJobs(key) ==
  {i \in registry : jobs[i].key = key /\ jobs[i].status = "running"}

\* evict: the oldest job that has ended, the oldest of all when none has
Evict(ids, js) ==
  LET ended == {i \in ids : js[i].status # "running"}
  IN  IF Cardinality(ids) <= JobLimit THEN ids
      ELSE ids \ {Min(IF ended = {} THEN ids ELSE ended)}

\* startJob
StartJob(key) ==
  LET js == Append(jobs, [key |-> key, status |-> "running", settled |-> FALSE,
                          at |-> "before", deaf |-> FALSE])
  IN  /\ jobs' = js
      /\ registry' = Evict(registry \cup {Len(js)}, js)

Newest == Len(jobs) + 1

\* what is left of a job's status when its function ends
StatusAfter(job, ok) ==
  IF job.status # "running" THEN job.status
  ELSE IF ok THEN "success" ELSE "error"

\* the engine answers with the stream of the build or the pull; a job that was
\* cancelled before listens to a signal that has already been given
OpenStream(i) ==
  /\ ~jobs[i].settled
  /\ jobs[i].at = "before"
  /\ jobs' = [jobs EXCEPT ![i].at = "stream"]
  /\ UNCHANGED <<registry, present, caller, bounds>>

\* 'end' without an error line: what the key is about is there
EndStream(i) ==
  /\ jobs[i].at = "stream"
  /\ ~jobs[i].settled /\ ~jobs[i].deaf
  /\ jobs' = [jobs EXCEPT ![i].at = "after"]
  /\ present' = [present EXCEPT ![jobs[i].key] = TRUE]
  /\ UNCHANGED <<registry, caller, bounds>>

\* the function returns, at once when everything is up to date
Return(i) ==
  /\ ~jobs[i].settled
  /\ jobs[i].at = "after" \/ (jobs[i].at = "before" /\ present[jobs[i].key])
  /\ jobs' = [jobs EXCEPT ![i].settled = TRUE, ![i].at = "after",
                          ![i].status = StatusAfter(jobs[i], TRUE)]
  /\ UNCHANGED <<registry, present, caller, bounds>>

\* or it throws: an engine call failed, the stream had an error line, or it was
\* cancelled
Throw(i) ==
  /\ ~jobs[i].settled /\ ~jobs[i].deaf
  /\ IF jobs[i].status = "cancelled" THEN UNCHANGED failures ELSE Fails
  /\ jobs' = [jobs EXCEPT ![i].settled = TRUE, ![i].at = "after",
                          ![i].status = StatusAfter(jobs[i], FALSE)]
  /\ UNCHANGED <<registry, present, caller, calls>>

Runs(i) == OpenStream(i) \/ EndStream(i) \/ Return(i)

-----------------------------------------------------------------------------
(* Users. *)

\* buildRecipe, pull or syncTools; 409 while the same job runs
Click(key) ==
  /\ calls < MaxCalls
  /\ RunningJobs(key) = {}
  /\ StartJob(key)
  /\ calls' = calls + 1
  /\ UNCHANGED <<present, caller, failures>>

\* the job counts as ended at once; a stream its function reads is destroyed
CancelJob(i) ==
  /\ Fails
  /\ i \in registry
  /\ jobs[i].status = "running"
  /\ jobs' = [jobs EXCEPT ![i].status = "cancelled",
                          ![i].deaf = jobs[i].at = "stream"]
  /\ UNCHANGED <<registry, present, caller, calls>>

-----------------------------------------------------------------------------
(* Preparations: ensureRecipeImage or ensureToolsSynced, then awaitJob.    *)

At(c, p) == caller[c].pc = p

Tell(c, outcome) ==
  caller' = [caller EXCEPT ![c].pc = "idle", ![c].job = 0, ![c].told = outcome]

Join(c, i) == caller' = [caller EXCEPT ![c].pc = "joining", ![c].job = i]

\* a job that runs is joined, otherwise the engine is asked
Ensure(c, key) ==
  /\ At(c, "idle")
  /\ calls < MaxCalls
  /\ calls' = calls + 1
  /\ \/ \E i \in RunningJobs(key) :
          caller' = [caller EXCEPT ![c].pc = "joining", ![c].key = key, ![c].job = i,
                                      ![c].blind = FALSE]
     \/ /\ RunningJobs(key) = {}
        /\ caller' = [caller EXCEPT ![c].pc = "probing", ![c].key = key]
  /\ UNCHANGED <<jobs, registry, present, failures>>

\* the engine answers; a failed look at an image counts as absent, a failed
\* look at the tools never starts a sync
Probe(c) ==
  LET key == caller[c].key IN
  /\ At(c, "probing")
  /\ \E answered \in BOOLEAN :
       /\ IF answered THEN UNCHANGED failures
                      ELSE Fails
       /\ caller' = [caller EXCEPT ![c].pc = "resume",
            ![c].seen = IF answered THEN present[key] ELSE key \in Syncs,
            ![c].blind = ~answered]
  /\ UNCHANGED <<jobs, registry, present, calls>>

\* mutant: starts the job without asking again who runs it
ResumeRebuilds(c) ==
  LET key == caller[c].key IN
  /\ At(c, "resume")
  /\ \/ /\ caller[c].seen
        /\ Tell(c, "ready")
        /\ UNCHANGED <<jobs, registry>>
     \/ /\ ~caller[c].seen
        /\ StartJob(key)
        /\ Join(c, Newest)
  /\ UNCHANGED <<present, bounds>>

\* the answer is used: by now somebody else may have started the job, and
\* buildRecipe and syncTools refuse a second one
Resume(c) ==
  LET key == caller[c].key IN
  /\ At(c, "resume")
  /\ \/ /\ caller[c].seen
        /\ Tell(c, "ready")
        /\ UNCHANGED <<jobs, registry>>
     \/ /\ ~caller[c].seen
        /\ RunningJobs(key) # {}
        /\ Tell(c, "conflict")
        /\ UNCHANGED <<jobs, registry>>
     \/ /\ ~caller[c].seen
        /\ RunningJobs(key) = {}
        /\ StartJob(key)
        /\ Join(c, Newest)
  /\ UNCHANGED <<present, bounds>>

\* awaitJob: a job that is no longer in the map is not waited for, and the
\* stale summary, still "running", counts as a failure
Await(c) ==
  /\ At(c, "joining")
  /\ IF caller[c].job \in registry
     THEN caller' = [caller EXCEPT ![c].pc = "awaiting"]
     ELSE Tell(c, "failed")
  /\ UNCHANGED <<jobs, registry, present, bounds>>

\* mutant: a job that was cancelled is taken for one that is done
AwaitedCancelled(c) ==
  LET job == jobs[caller[c].job] IN
  /\ At(c, "awaiting")
  /\ job.settled
  /\ Tell(c, IF job.status = "error" THEN "failed" ELSE "ready")
  /\ UNCHANGED <<jobs, registry, present, bounds>>

\* mutant: waits for a cancelled job again
AwaitedAgain(c) ==
  LET job == jobs[caller[c].job] IN
  /\ At(c, "awaiting")
  /\ job.settled
  /\ IF job.status = "cancelled" THEN Join(c, caller[c].job)
     ELSE Tell(c, IF job.status = "success" THEN "ready" ELSE "failed")
  /\ UNCHANGED <<jobs, registry, present, bounds>>

\* job.done settled
Awaited(c) ==
  LET job == jobs[caller[c].job] IN
  /\ At(c, "awaiting")
  /\ job.settled
  /\ Tell(c, IF job.status = "success" THEN "ready" ELSE "failed")
  /\ UNCHANGED <<jobs, registry, present, bounds>>

-----------------------------------------------------------------------------
\* the job whose stream was destroyed under it never settles
Deserted(c) == At(c, "awaiting") /\ jobs[caller[c].job].deaf

\* nothing goes on and nobody asks for more
JobsRest ==
  /\ \A i \in DOMAIN jobs : jobs[i].settled \/ jobs[i].deaf
  /\ \A c \in Callers : At(c, "idle") \/ Deserted(c)
  /\ UNCHANGED jobsVars

CallerStep(c) == Probe(c) \/ Resume(c) \/ Await(c) \/ Awaited(c)

JobsNext ==
  \/ \E key \in Keys : Click(key)
  \/ \E i \in DOMAIN jobs : CancelJob(i) \/ Runs(i) \/ Throw(i)
  \/ \E c \in Callers, key \in Keys : Ensure(c, key)
  \/ \E c \in Callers : CallerStep(c)
  \/ JobsRest

JobsSpec == JobsInit /\ [][JobsNext]_jobsVars

\* every engine call is answered one day, and every stream that is left alone
\* ends
SomeJobRuns == \E i \in DOMAIN jobs : Runs(i)
JobsFairSpec ==
  /\ JobsSpec
  /\ WF_jobsVars(SomeJobRuns)
  /\ \A c \in Callers : WF_jobsVars(CallerStep(c))

-----------------------------------------------------------------------------
(* Properties. *)

JobsTypeOK ==
  /\ jobs \in Seq(Job)
  /\ registry \subseteq DOMAIN jobs
  /\ present \in [Keys -> BOOLEAN]
  /\ caller \in [Callers -> CallerRecord]
  /\ calls \in Nat /\ failures \in Nat

\* While there are no more keys than the map has room for: whoever asks, and
\* however long the engine took to answer before the job was started, never two
\* jobs of one key that count as running; and a job that runs is in the map, to
\* be found, joined and cancelled.
JobsExclusive ==
  IsFiniteSet(Keys) /\ Cardinality(Keys) <= JobLimit =>
    \A i \in DOMAIN jobs : jobs[i].status = "running" =>
      /\ i \in registry
      /\ \A j \in DOMAIN jobs :
           jobs[j].key = jobs[i].key /\ jobs[j].status = "running" => j = i

\* A preparation that is told to go on finds what it asked for on the engine:
\* the job it joined did succeed.  But for the tools that nobody could look at.
ReadyIsPresent ==
  \A c \in Callers : caller[c].told = "ready" /\ At(c, "idle") /\ ~caller[c].blind
    => present[caller[c].key]

\* Every preparation gets an answer, also when its job is cancelled or evicted
\* while it waits, unless the cancel found the job at its stream.
CallersAnswered ==
  \A c \in Callers : ~At(c, "idle") ~> (At(c, "idle") \/ Deserted(c))

\* What awaitJob says of itself, "wait for a job to settle and return its final
\* state", also of a job that is cancelled: the one who waits hears of it.
CancelIsHeard ==
  \A c \in Callers :
    (At(c, "awaiting") /\ jobs[caller[c].job].status = "cancelled") ~> At(c, "idle")
=============================================================================
