------------------------------ MODULE JobProofs ------------------------------
(***************************************************************************)
(* Two safety properties of the job registry, for any number of keys,      *)
(* callers, jobs, failures and cancels, and any size of the map.           *)
(*                                                                         *)
(* JobsExclusive is not inductive: that startJob's refusal looks at the    *)
(* map alone is sound only while no job that runs was evicted, and that    *)
(* rests on how many ids the map holds (Bounded): with one id too many,    *)
(* and none of them ended, there would be more keys than there is room.    *)
(* ReadyIsPresent needs what a job's state says of the engine (Delivered)  *)
(* and what each caller knows at each of its steps (Informed).             *)
(*                                                                         *)
(* For any size of the buffer and any number of jobs, requests and lines:  *)
(* a job's log is its newest lines, and the modal implements TailedLog     *)
(* until it is opened again.                                               *)
(*                                                                         *)
(* The second rests on Chain: during the first opening there is at most    *)
(* one request or one timer, so an answer is appended to what the cursor   *)
(* it was asked with stands for; and on the arithmetic of the ring buffer  *)
(* (ServesNewest), by which an answer is what follows that cursor among    *)
(* the newest MaxLines lines of when it was served.                        *)
(***************************************************************************)
EXTENDS ImageJobs, JobLog, FiniteSetTheorems, SequenceTheorems, WellFoundedInduction, TLAPS

-----------------------------------------------------------------------------
(* The registry.                                                           *)

Bounded == IsFiniteSet(registry) /\ Cardinality(registry) <= JobLimit

\* a job that succeeded, or whose stream has ended, has made what it is about
Delivered ==
  \A i \in DOMAIN jobs :
    jobs[i].status = "success" \/ (jobs[i].at = "after" /\ ~jobs[i].settled)
      => present[jobs[i].key]

\* what a caller at its step knows of its key and of the job it joined
Knows(c) ==
  /\ ~At(c, "idle") \/ caller[c].told # NoKey => caller[c].key \in Keys
  /\ At(c, "joining") \/ At(c, "awaiting") =>
       /\ caller[c].job \in DOMAIN jobs
       /\ jobs[caller[c].job].key = caller[c].key
  /\ At(c, "resume") /\ caller[c].seen /\ ~caller[c].blind => present[caller[c].key]
  /\ At(c, "idle") /\ caller[c].told = "ready" /\ ~caller[c].blind
       => present[caller[c].key]

Informed == \A c \in Callers : Knows(c)

IInv == JobsTypeOK /\ Bounded /\ JobsExclusive /\ Delivered /\ Informed

-----------------------------------------------------------------------------
(* The map.                                                                *)

\* A set of ids that is not empty has an oldest.
LEMMA OldestExists ==
  ASSUME NEW S \in SUBSET Nat, S # {}
  PROVE  Min(S) \in S
<1>1. PICK x \in S : \A y \in S : ~(<<y, x>> \in OpToRel(<, Nat))
  BY WFMin, NatLessThanWellFounded
<1>2. \A y \in S : x <= y
  <2>1. \A y \in S : ~(y < x)
    BY <1>1, Zenon DEF OpToRel
  <2> QED BY <2>1
<1> QED BY <1>1, <1>2, Zenon DEF Min

\* Whatever evict is given with one id too many, it makes room, it takes one id
\* at most, and that one has ended if any has.
LEMMA EvictKeeps ==
  ASSUME NEW ids \in SUBSET Nat, IsFiniteSet(ids), Cardinality(ids) <= JobLimit + 1,
         NEW js
  PROVE  /\ Evict(ids, js) \subseteq ids
         /\ IsFiniteSet(Evict(ids, js)) /\ Cardinality(Evict(ids, js)) <= JobLimit
         /\ (Cardinality(ids) <= JobLimit \/ \E i \in ids : js[i].status # "running") =>
              \A i \in ids : js[i].status = "running" => i \in Evict(ids, js)
<1> DEFINE ended == {i \in ids : js[i].status # "running"}
           victim == Min(IF ended = {} THEN ids ELSE ended)
<1>1. Cardinality(ids) \in Nat /\ JobLimit \in Nat \ {0}
  BY FS_CardinalityType, JobsAssumption
<1>2. CASE Cardinality(ids) <= JobLimit
  BY <1>2 DEF Evict
<1>3. CASE Cardinality(ids) > JobLimit
  <2>1. Evict(ids, js) = ids \ {victim}
    BY <1>1, <1>3 DEF Evict
  <2>2. ids # {}
    BY <1>1, <1>3, FS_EmptySet
  <2>3. victim \in IF ended = {} THEN ids ELSE ended
    BY <2>2, OldestExists
  <2>4. IsFiniteSet(ids \ {victim}) /\ Cardinality(ids \ {victim}) = Cardinality(ids) - 1
    BY <2>3, FS_RemoveElement
  <2>5. Cardinality(Evict(ids, js)) <= JobLimit
    <3> HIDE DEF victim
    <3> QED BY <1>1, <2>1, <2>4
  <2>6. (\E i \in ids : js[i].status # "running") =>
          \A i \in ids : js[i].status = "running" => i \in Evict(ids, js)
    <3>1. SUFFICES ASSUME \E i \in ids : js[i].status # "running"
                   PROVE  \A i \in ids : js[i].status = "running" => i # victim
      BY <2>1
    <3>2. js[victim].status # "running"
      BY <3>1, <2>3
    <3> HIDE DEF victim
    <3> QED BY <3>2
  <2> QED BY <1>1, <1>3, <2>1, <2>4, <2>5, <2>6
<1> QED BY <1>1, <1>2, <1>3

\* More jobs than keys: two of them have the same key, so when no two that run do,
\* one of them has ended.
LEMMA SomeHasEnded ==
  ASSUME IsFiniteSet(Keys), NEW ids, IsFiniteSet(ids),
         Cardinality(ids) > Cardinality(Keys),
         NEW js, \A i \in ids : js[i].key \in Keys,
         \A i, j \in ids :
           js[i].key = js[j].key /\ js[i].status = "running" /\ js[j].status = "running"
             => i = j
  PROVE  \E i \in ids : js[i].status # "running"
<1> DEFINE key == [i \in ids |-> js[i].key]
<1>1. key \in [ids -> Keys]
  OBVIOUS
<1>2. Cardinality(Keys) \in Nat /\ Cardinality(ids) \in Nat
  BY FS_CardinalityType
<1>3. PICK i, j \in ids : i # j /\ key[i] = key[j]
  <2> HIDE DEF key
  <2> QED BY <1>1, <1>2, FS_PigeonHole
<1> QED BY <1>3

\* What startJob leaves, when no job of its key was found.
LEMMA StartKeeps ==
  ASSUME IInv, NEW key \in Keys, RunningJobs(key) = {}, StartJob(key)
  PROVE  /\ jobs' \in Seq(Job) /\ DOMAIN jobs' = DOMAIN jobs \cup {Newest}
         /\ Newest \notin DOMAIN jobs
         /\ \A i \in DOMAIN jobs : jobs'[i] = jobs[i]
         /\ jobs'[Newest] = [key |-> key, status |-> "running", settled |-> FALSE,
                             at |-> "before", deaf |-> FALSE]
         /\ registry' \subseteq DOMAIN jobs'
         /\ Bounded' /\ JobsExclusive'
<1> DEFINE job == [key |-> key, status |-> "running", settled |-> FALSE,
                   at |-> "before", deaf |-> FALSE]
<1>1. job \in Job /\ job.key = key /\ job.status = "running"
  BY DEF Job, Status
<1>2. jobs \in Seq(Job) /\ registry \subseteq DOMAIN jobs
  BY DEF IInv, JobsTypeOK
<1>3. jobs' = Append(jobs, job) /\ registry' = Evict(registry \cup {Newest}, jobs')
  <2>1. jobs' = Append(jobs, job)
    BY DEF StartJob
  <2>2. Len(jobs') = Newest
    <3> HIDE DEF job
    <3> QED BY <1>1, <1>2, <2>1 DEF Newest
  <2> QED BY <2>1, <2>2 DEF StartJob
<1> HIDE DEF job
<1>4. /\ jobs' \in Seq(Job) /\ DOMAIN jobs' = DOMAIN jobs \cup {Newest}
      /\ Newest \notin DOMAIN jobs /\ DOMAIN jobs \subseteq Nat /\ Newest \in Nat
      /\ \A i \in DOMAIN jobs : jobs'[i] = jobs[i]
      /\ jobs'[Newest] = job
  BY <1>1, <1>2, <1>3 DEF Newest
<1> DEFINE ids == registry \cup {Newest}
<1>5. ids \in SUBSET Nat /\ ids \subseteq DOMAIN jobs'
  BY <1>2, <1>4
<1>6. IsFiniteSet(ids) /\ Cardinality(ids) \in Nat /\ Cardinality(ids) <= JobLimit + 1
  <2>1. Cardinality(registry) \in Nat /\ JobLimit \in Nat
    BY FS_CardinalityType, JobsAssumption DEF IInv, Bounded
  <2>2. IsFiniteSet(registry) /\ Cardinality(registry) <= JobLimit
    BY DEF IInv, Bounded
  <2>3. /\ IsFiniteSet(ids)
        /\ Cardinality(ids) = IF Newest \in registry THEN Cardinality(registry)
                             ELSE Cardinality(registry) + 1
    BY <2>2, FS_AddElement
  <2> HIDE DEF ids
  <2> QED BY <2>1, <2>2, <2>3
<1> HIDE DEF ids
<1>7. /\ registry' \subseteq ids
      /\ IsFiniteSet(registry') /\ Cardinality(registry') <= JobLimit
      /\ (Cardinality(ids) <= JobLimit \/ \E i \in ids : jobs'[i].status # "running") =>
           \A i \in ids : jobs'[i].status = "running" => i \in registry'
  <2>1. registry' = Evict(ids, jobs')
    BY <1>3 DEF ids
  <2> QED BY <2>1, <1>5, <1>6, EvictKeeps
<1>8. JobsExclusive'
  <2>1. SUFFICES ASSUME IsFiniteSet(Keys), Cardinality(Keys) <= JobLimit
                 PROVE  \A i \in DOMAIN jobs' : jobs'[i].status = "running" =>
                          /\ i \in registry'
                          /\ \A j \in DOMAIN jobs' :
                               jobs'[j].key = jobs'[i].key /\ jobs'[j].status = "running"
                                 => j = i
    BY DEF JobsExclusive
  <2>2. \A i \in DOMAIN jobs : jobs[i].status = "running" =>
          /\ i \in registry /\ jobs[i].key # key
          /\ \A j \in DOMAIN jobs :
               jobs[j].key = jobs[i].key /\ jobs[j].status = "running" => j = i
    <3>1. \A i \in DOMAIN jobs : jobs[i].status = "running" =>
            /\ i \in registry
            /\ \A j \in DOMAIN jobs :
                 jobs[j].key = jobs[i].key /\ jobs[j].status = "running" => j = i
      BY <2>1, Zenon DEF IInv, JobsExclusive
    <3>2. \A i \in registry : jobs[i].status = "running" => jobs[i].key # key
      BY Zenon DEF RunningJobs
    <3> QED BY <3>1, <3>2, Zenon
  <2>3. ASSUME NEW i \in DOMAIN jobs', NEW j \in DOMAIN jobs',
               /\ jobs'[i].key = jobs'[j].key
               /\ jobs'[i].status = "running"
               /\ jobs'[j].status = "running"
        PROVE  i = j
    <3>2. CASE i \in DOMAIN jobs /\ j \in DOMAIN jobs
      <4>1. jobs'[i] = jobs[i] /\ jobs'[j] = jobs[j]
        BY <1>4, <3>2
      <4> QED BY <4>1, <2>3, <3>2, <2>2
    <3>3. ASSUME NEW q \in DOMAIN jobs, jobs'[q].status = "running" PROVE jobs'[q].key # key
      <4>1. jobs'[q] = jobs[q]
        BY <1>4
      <4> QED BY <4>1, <3>3, <2>2
    <3>4. jobs'[Newest].key = key
      BY <1>1, <1>4
    <3>5. i \in DOMAIN jobs \/ i = Newest
      BY <1>4
    <3>6. j \in DOMAIN jobs \/ j = Newest
      BY <1>4
    <3> QED BY <2>3, <3>2, <3>3, <3>4, <3>5, <3>6
  <2>4. \A i \in DOMAIN jobs' : jobs'[i].key \in Keys
    <3>1. jobs' \in Seq(Job)
      BY <1>4
    <3>2. \A i \in DOMAIN jobs' : jobs'[i] \in Job
      BY <3>1
    <3> QED BY <3>2 DEF Job
  <2>5. Cardinality(ids) <= JobLimit \/ \E i \in ids : jobs'[i].status # "running"
    <3>1. Cardinality(Keys) \in Nat /\ JobLimit \in Nat
      BY <2>1, FS_CardinalityType, JobsAssumption
    <3>2. CASE Cardinality(ids) > Cardinality(Keys)
      <4>1. \A i, j \in ids :
              jobs'[i].key = jobs'[j].key /\ jobs'[i].status = "running"
                /\ jobs'[j].status = "running" => i = j
        <5>1. \A i \in ids : i \in DOMAIN jobs'
          BY <1>5
        <5> QED BY <5>1, <2>3
      <4>2. \A i \in ids : jobs'[i].key \in Keys
        BY <1>5, <2>4
      <4> QED BY <4>1, <4>2, <3>2, <2>1, <1>6, SomeHasEnded
    <3>3. CASE Cardinality(ids) <= Cardinality(Keys)
      BY <3>1, <3>3, <2>1, <1>6
    <3> QED BY <3>1, <3>2, <3>3, <1>6
  <2>6. \A i \in DOMAIN jobs' : jobs'[i].status = "running" => i \in ids
    <3>1. ids = registry \cup {Newest}
      BY DEF ids
    <3> QED BY <2>2, <1>4, <3>1, Zenon
  <2> QED BY <2>3, <2>5, <2>6, <1>7, Zenon
<1>9. jobs'[Newest] = [key |-> key, status |-> "running", settled |-> FALSE,
                       at |-> "before", deaf |-> FALSE]
  BY <1>4 DEF job
<1> QED BY <1>4, <1>5, <1>7, <1>8, <1>9 DEF Bounded
-----------------------------------------------------------------------------
(* What the kinds of step do to the rest of the invariant.                 *)

\* A step that only moves on one job, which may put what it is about in place: it
\* does not bring back a job that has ended.
LEMMA JobMoves ==
  ASSUME IInv, NEW i \in DOMAIN jobs, NEW job \in Job,
         jobs' = [jobs EXCEPT ![i] = job], job.key = jobs[i].key,
         job.status = "running" => jobs[i].status = "running",
         present' \in [Keys -> BOOLEAN], \A key \in Keys : present[key] => present'[key],
         job.status = "success" \/ (job.at = "after" /\ ~job.settled)
           => present'[job.key],
         UNCHANGED <<registry, caller>>
  PROVE  /\ jobs' \in Seq(Job) /\ registry' \subseteq DOMAIN jobs'
         /\ Bounded' /\ JobsExclusive' /\ Delivered' /\ Informed'
<1>1. /\ jobs \in Seq(Job) /\ registry \subseteq DOMAIN jobs
      /\ caller \in [Callers -> CallerRecord]
  BY DEF IInv, JobsTypeOK
<1>2. /\ jobs' \in Seq(Job) /\ DOMAIN jobs' = DOMAIN jobs
      /\ jobs'[i] = job /\ \A j \in DOMAIN jobs : j # i => jobs'[j] = jobs[j]
  BY <1>1
<1>3. \A j \in DOMAIN jobs : jobs[j].key \in Keys /\ jobs'[j].key = jobs[j].key
  <2>1. \A j \in DOMAIN jobs : jobs[j] \in Job
    BY <1>1
  <2> QED BY <1>2, <2>1 DEF Job
<1>4. \A j \in DOMAIN jobs : jobs'[j].status = "running" => jobs[j].status = "running"
  BY <1>2
<1>5. JobsExclusive'
  BY <1>2, <1>3, <1>4 DEF IInv, JobsExclusive
<1>6. Delivered'
  BY <1>2, <1>3 DEF IInv, Delivered
<1>7. Informed'
  <2>1. ASSUME NEW c \in Callers, Knows(c) PROVE Knows(c)'
    <3>1. caller'[c] = caller[c] /\ caller[c] \in CallerRecord
      BY <1>1
    <3>2. caller[c].key \in Keys /\ present[caller[c].key] => present'[caller[c].key]
      OBVIOUS
    <3>3. caller[c].job \in DOMAIN jobs =>
            caller[c].job \in DOMAIN jobs' /\ jobs'[caller[c].job].key = jobs[caller[c].job].key
      BY <1>2, <1>3
    <3>4. /\ (~At(c, "idle") \/ caller[c].told # NoKey => caller[c].key \in Keys)'
          /\ (At(c, "joining") \/ At(c, "awaiting") =>
                /\ caller[c].job \in DOMAIN jobs
                /\ jobs[caller[c].job].key = caller[c].key)'
      BY <2>1, <3>1, <3>3, Zenon DEF Knows, At
    <3>5. /\ (At(c, "resume") /\ caller[c].seen /\ ~caller[c].blind
                => present[caller[c].key])'
          /\ (At(c, "idle") /\ caller[c].told = "ready" /\ ~caller[c].blind
                => present[caller[c].key])'
      <4>1. caller[c].told = "ready" => caller[c].told # NoKey
        BY JobsAssumption
      <4>2. At(c, "resume") => ~At(c, "idle")
        BY DEF At
      <4> QED BY <2>1, <3>1, <3>2, <4>1, <4>2, Zenon DEF Knows, At
    <3> QED BY <3>4, <3>5 DEF Knows
  <2> QED BY <2>1 DEF IInv, Informed
<1>8. Bounded'
  BY DEF IInv, Bounded
<1> QED BY <1>1, <1>2, <1>5, <1>6, <1>7, <1>8

\* A new job tells nobody anything, and is no job that somebody has joined.
LEMMA StartInforms ==
  ASSUME IInv, NEW key \in Keys, RunningJobs(key) = {}, StartJob(key),
         UNCHANGED present
  PROVE  Delivered' /\ \A c \in Callers : caller'[c] = caller[c] => Knows(c)'
<1>1. /\ DOMAIN jobs' = DOMAIN jobs \cup {Newest}
      /\ \A i \in DOMAIN jobs : jobs'[i] = jobs[i]
      /\ jobs'[Newest] = [key |-> key, status |-> "running", settled |-> FALSE,
                          at |-> "before", deaf |-> FALSE]
  BY StartKeeps
<1>2. Delivered'
  <2>1. jobs'[Newest].status = "running" /\ jobs'[Newest].at = "before"
    BY <1>1
  <2> QED BY <1>1, <2>1 DEF IInv, Delivered
<1>3. ASSUME NEW c \in Callers, caller'[c] = caller[c] PROVE Knows(c)'
  <2>1. Knows(c)
    BY DEF IInv, Informed
  <2> QED BY <1>1, <1>3, <2>1 DEF Knows, At
<1> QED BY <1>2, <1>3

\* A step of one caller that leaves the jobs and the engine alone.
LEMMA CallerMoves ==
  ASSUME IInv, NEW c \in Callers, NEW rec \in CallerRecord,
         caller' = [caller EXCEPT ![c] = rec],
         UNCHANGED <<jobs, registry, present>>, Knows(c)'
  PROVE  /\ caller' \in [Callers -> CallerRecord]
         /\ Bounded' /\ JobsExclusive' /\ Delivered' /\ Informed'
<1>1. caller \in [Callers -> CallerRecord]
  BY DEF IInv, JobsTypeOK
<1>2. caller' \in [Callers -> CallerRecord] /\ \A d \in Callers : d # c => caller'[d] = caller[d]
  BY <1>1
<1>3. Informed'
  <2>1. ASSUME NEW d \in Callers, d # c PROVE Knows(d)'
    <3>1. Knows(d) /\ caller'[d] = caller[d]
      BY <2>1, <1>2 DEF IInv, Informed
    <3> QED BY <3>1 DEF Knows, At
  <2> QED BY <2>1 DEF Informed
<1> QED BY <1>2, <1>3 DEF IInv, Bounded, JobsExclusive, Delivered

-----------------------------------------------------------------------------
(* The steps.                                                              *)

\* Before the first click nothing runs.
LEMMA JobsStart == JobsInit => IInv
<1>1. SUFFICES ASSUME JobsInit PROVE IInv
  OBVIOUS
<1>2. jobs = <<>> /\ DOMAIN jobs = {} /\ registry = {} /\ jobs \in Seq(Job)
  BY <1>1 DEF JobsInit
<1>3. JobsTypeOK
  BY <1>1, <1>2 DEF JobsInit, JobsTypeOK, CallerRecord, Outcome
<1>4. Bounded
  BY <1>2, FS_EmptySet, JobsAssumption DEF Bounded
<1>5. JobsExclusive /\ Delivered
  BY <1>2 DEF JobsExclusive, Delivered
<1>6. Informed
  BY <1>1, JobsAssumption DEF JobsInit, Informed, Knows, At
<1> QED BY <1>3, <1>4, <1>5, <1>6 DEF IInv

\* Each step of a job's function, and a cancel, is a move of that job.
LEMMA JobStep ==
  ASSUME IInv, NEW i \in DOMAIN jobs, CancelJob(i) \/ Runs(i) \/ Throw(i)
  PROVE  IInv'
<1>1. /\ jobs \in Seq(Job) /\ jobs[i] \in Job /\ present \in [Keys -> BOOLEAN]
      /\ caller \in [Callers -> CallerRecord] /\ calls \in Nat /\ failures \in Nat
  BY DEF IInv, JobsTypeOK
<1>2. jobs[i].status = "success" \/ (jobs[i].at = "after" /\ ~jobs[i].settled)
        => present[jobs[i].key]
  BY DEF IInv, Delivered
<1>3. calls' \in Nat /\ failures' \in Nat /\ UNCHANGED <<registry, caller>>
  BY <1>1 DEF CancelJob, Runs, Throw, OpenStream, EndStream, Return, Fails, bounds
<1>4. present' \in [Keys -> BOOLEAN] /\ \A key \in Keys : present[key] => present'[key]
  BY <1>1 DEF CancelJob, Runs, Throw, OpenStream, EndStream, Return
<1>5. PICK job \in Job :
        /\ jobs' = [jobs EXCEPT ![i] = job] /\ job.key = jobs[i].key
        /\ job.status = "running" => jobs[i].status = "running"
        /\ job.status = "success" \/ (job.at = "after" /\ ~job.settled)
             => present'[job.key]
  <2>1. CASE CancelJob(i)
    <3> DEFINE job == [jobs[i] EXCEPT !.status = "cancelled", !.deaf = jobs[i].at = "stream"]
    <3>1. jobs' = [jobs EXCEPT ![i] = job] /\ present' = present
      BY <2>1 DEF CancelJob
    <3>2. job \in Job
      BY <1>1 DEF Job, Status
    <3> QED BY <1>1, <1>2, <3>1, <3>2 DEF Job
  <2>2. CASE OpenStream(i)
    <3> DEFINE job == [jobs[i] EXCEPT !.at = "stream"]
    <3>1. jobs' = [jobs EXCEPT ![i] = job] /\ present' = present
      BY <2>2 DEF OpenStream
    <3>2. job \in Job
      BY <1>1 DEF Job
    <3> QED BY <1>1, <1>2, <3>1, <3>2 DEF Job
  <2>3. CASE EndStream(i)
    <3> DEFINE job == [jobs[i] EXCEPT !.at = "after"]
    <3>1. jobs' = [jobs EXCEPT ![i] = job] /\ present' = [present EXCEPT ![jobs[i].key] = TRUE]
      BY <2>3 DEF EndStream
    <3>2. job \in Job
      BY <1>1 DEF Job
    <3> QED BY <1>1, <1>2, <3>1, <3>2 DEF Job
  <2>4. CASE Return(i) \/ Throw(i)
    <3>1. PICK ok \in BOOLEAN :
            /\ jobs' = [jobs EXCEPT ![i].settled = TRUE, ![i].at = "after",
                                    ![i].status = StatusAfter(jobs[i], ok)]
            /\ ok => present[jobs[i].key]
      BY <2>4, <1>2 DEF Return, Throw
    <3>2. present' = present
      BY <2>4 DEF Return, Throw
    <3> DEFINE job == [jobs[i] EXCEPT !.settled = TRUE, !.at = "after",
                                      !.status = StatusAfter(jobs[i], ok)]
    <3>3. jobs' = [jobs EXCEPT ![i] = job]
      BY <3>1
    <3>4. job \in Job
      BY <1>1 DEF Job, Status, StatusAfter
    <3>5. job.status = StatusAfter(jobs[i], ok) /\ job.settled /\ job.key = jobs[i].key
      BY <1>1 DEF Job
    <3>6. /\ job.status = "running" => jobs[i].status = "running"
          /\ job.status = "success" => present[jobs[i].key]
      <4> HIDE DEF job
      <4> QED BY <3>1, <3>5, <1>2 DEF StatusAfter
    <3> HIDE DEF job
    <3> QED BY <3>2, <3>3, <3>4, <3>5, <3>6
  <2> QED BY <2>1, <2>2, <2>3, <2>4 DEF Runs
<1>6. /\ jobs' \in Seq(Job) /\ registry' \subseteq DOMAIN jobs'
      /\ Bounded' /\ JobsExclusive' /\ Delivered' /\ Informed'
  BY <1>3, <1>4, <1>5, JobMoves
<1> QED BY <1>1, <1>3, <1>4, <1>6 DEF IInv, JobsTypeOK

\* Each step of a preparation.
LEMMA CallerStepKeeps ==
  ASSUME IInv, NEW c \in Callers,
         CallerStep(c) \/ \E key \in Keys : Ensure(c, key)
  PROVE  IInv'
<1>1. /\ JobsTypeOK /\ Knows(c) /\ caller[c] \in CallerRecord
      /\ Delivered
  BY DEF IInv, JobsTypeOK, Informed
<1>2. ASSUME NEW rec \in CallerRecord, caller' = [caller EXCEPT ![c] = rec],
             UNCHANGED <<jobs, registry, present>>, calls' \in Nat, failures' \in Nat,
             Knows(c)'
      PROVE  IInv'
  BY <1>1, <1>2, CallerMoves DEF IInv, JobsTypeOK
<1>3. ASSUME NEW outcome \in Outcome, Tell(c, outcome),
             outcome = "ready" /\ ~caller[c].blind => present[caller[c].key],
             ~At(c, "idle"), UNCHANGED <<jobs, registry, present, calls, failures>>
      PROVE  IInv'
  <2> DEFINE rec == [caller[c] EXCEPT !.pc = "idle", !.job = 0, !.told = outcome]
  <2>1. caller' = [caller EXCEPT ![c] = rec]
    BY <1>3 DEF Tell
  <2>2. rec \in CallerRecord
    BY <1>1 DEF CallerRecord
  <2>3. /\ rec.pc = "idle" /\ rec.told = outcome
        /\ rec.key = caller[c].key /\ rec.blind = caller[c].blind
    BY <1>1 DEF CallerRecord
  <2> HIDE DEF rec
  <2>4. caller'[c] = rec
    BY <2>1, <1>1 DEF JobsTypeOK
  <2>5. Knows(c)'
    BY <2>3, <2>4, <1>1, <1>3 DEF Knows, At
  <2> QED BY <1>1, <1>2, <1>3, <2>1, <2>2, <2>5 DEF JobsTypeOK
<1>4. ASSUME NEW key \in Keys, Ensure(c, key) PROVE IInv'
  <2>1. calls' \in Nat /\ failures' \in Nat /\ UNCHANGED <<jobs, registry, present>>
    <3>1. calls' = calls + 1 /\ failures' = failures /\ UNCHANGED <<jobs, registry, present>>
      BY <1>4, Zenon DEF Ensure
    <3> QED BY <3>1, <1>1 DEF JobsTypeOK
  <2>2. CASE \E i \in RunningJobs(key) :
               caller' = [caller EXCEPT ![c].pc = "joining", ![c].key = key, ![c].job = i,
                                       ![c].blind = FALSE]
    <3>1. PICK i \in RunningJobs(key) :
               caller' = [caller EXCEPT ![c].pc = "joining", ![c].key = key, ![c].job = i,
                                       ![c].blind = FALSE]
      BY <2>2
    <3>2. i \in DOMAIN jobs /\ i \in Nat /\ jobs[i].key = key
      BY <1>1 DEF RunningJobs, JobsTypeOK
    <3> DEFINE rec == [caller[c] EXCEPT !.pc = "joining", !.key = key, !.job = i,
                                        !.blind = FALSE]
    <3>3. caller' = [caller EXCEPT ![c] = rec]
      BY <3>1
    <3>4. rec \in CallerRecord /\ rec.pc = "joining" /\ rec.key = key /\ rec.job = i
      BY <1>1, <3>2 DEF CallerRecord
    <3> HIDE DEF rec
    <3>5. caller'[c] = rec
      BY <3>3, <1>1 DEF JobsTypeOK
    <3>6. Knows(c)'
      BY <3>2, <3>4, <3>5, <2>1 DEF Knows, At
    <3> QED BY <1>2, <2>1, <3>3, <3>4, <3>6
  <2>3. CASE caller' = [caller EXCEPT ![c].pc = "probing", ![c].key = key]
    <3> DEFINE rec == [caller[c] EXCEPT !.pc = "probing", !.key = key]
    <3>1. caller' = [caller EXCEPT ![c] = rec]
      BY <2>3
    <3>2. rec \in CallerRecord /\ rec.pc = "probing" /\ rec.key = key
      BY <1>1 DEF CallerRecord
    <3> HIDE DEF rec
    <3>3. caller'[c] = rec
      BY <3>1, <1>1 DEF JobsTypeOK
    <3>4. Knows(c)'
      BY <3>2, <3>3 DEF Knows, At
    <3> QED BY <1>2, <2>1, <3>1, <3>2, <3>4
  <2> QED BY <1>4, <2>2, <2>3 DEF Ensure
<1>5. CASE Probe(c)
  <2>1. PICK answered \in BOOLEAN :
          caller' = [caller EXCEPT ![c].pc = "resume",
            ![c].seen = IF answered THEN present[caller[c].key] ELSE caller[c].key \in Syncs,
            ![c].blind = ~answered]
    BY <1>5 DEF Probe
  <2>2. /\ calls' \in Nat /\ failures' \in Nat /\ UNCHANGED <<jobs, registry, present>>
        /\ At(c, "probing")
    BY <1>1, <1>5 DEF Probe, Fails, JobsTypeOK
  <2>3. caller[c].key \in Keys
    BY <1>1, <2>2 DEF Knows, At
  <2> DEFINE seen == IF answered THEN present[caller[c].key] ELSE caller[c].key \in Syncs
             rec == [caller[c] EXCEPT !.pc = "resume", !.seen = seen, !.blind = ~answered]
  <2>4. caller' = [caller EXCEPT ![c] = rec]
    BY <2>1
  <2>5. seen \in BOOLEAN /\ (seen /\ answered => present[caller[c].key])
    <3>1. present[caller[c].key] \in BOOLEAN
      BY <1>1, <2>3 DEF JobsTypeOK
    <3>2. answered => seen = present[caller[c].key]
      OBVIOUS
    <3>3. ~answered => seen = (caller[c].key \in Syncs)
      OBVIOUS
    <3> HIDE DEF seen
    <3>4. seen \in BOOLEAN
      <4>1. CASE answered
        BY <3>1, <3>2, <4>1, Zenon
      <4>2. CASE ~answered
        <5>1. (caller[c].key \in Syncs) \in BOOLEAN
          OBVIOUS
        <5> QED BY <3>3, <4>2, <5>1, Zenon
      <4> QED BY <4>1, <4>2
    <3>5. seen /\ answered => present[caller[c].key]
      BY <3>2, Zenon
    <3> QED BY <3>4, <3>5, Zenon
  <2> HIDE DEF seen
  <2>6. /\ rec \in CallerRecord /\ rec.pc = "resume" /\ rec.key = caller[c].key
        /\ rec.seen = seen /\ rec.blind = ~answered
    BY <1>1, <2>5 DEF CallerRecord
  <2> HIDE DEF rec
  <2>7. caller'[c] = rec
    BY <2>4, <1>1 DEF JobsTypeOK
  <2>8. Knows(c)'
    BY <2>2, <2>3, <2>5, <2>6, <2>7 DEF Knows, At
  <2> QED BY <1>2, <2>2, <2>4, <2>6, <2>8
<1>6. CASE Resume(c)
  <2>1. At(c, "resume") /\ caller[c].key \in Keys /\ UNCHANGED <<present, calls, failures>>
    BY <1>1, <1>6 DEF Resume, Knows, At, bounds
  <2>2. CASE caller[c].seen /\ Tell(c, "ready") /\ UNCHANGED <<jobs, registry>>
    BY <1>1, <1>3, <2>1, <2>2 DEF Knows, At, Outcome
  <2>3. CASE Tell(c, "conflict") /\ UNCHANGED <<jobs, registry>>
    BY <1>3, <2>1, <2>3 DEF At, Outcome
  <2>4. CASE /\ RunningJobs(caller[c].key) = {} /\ StartJob(caller[c].key)
             /\ Join(c, Newest)
    <3> DEFINE key == caller[c].key
               rec == [caller[c] EXCEPT !.pc = "joining", !.job = Newest]
    <3>1. /\ jobs' \in Seq(Job) /\ DOMAIN jobs' = DOMAIN jobs \cup {Newest}
          /\ jobs'[Newest].key = key /\ registry' \subseteq DOMAIN jobs'
          /\ Bounded' /\ JobsExclusive'
      <4>1. jobs'[Newest] = [key |-> key, status |-> "running", settled |-> FALSE,
                             at |-> "before", deaf |-> FALSE]
        BY <2>1, <2>4, StartKeeps
      <4>2. jobs'[Newest].key = key
        BY <4>1
      <4> QED BY <4>2, <2>1, <2>4, StartKeeps, Zenon
    <3>2. Delivered' /\ \A d \in Callers : caller'[d] = caller[d] => Knows(d)'
      BY <2>1, <2>4, StartInforms
    <3>3. caller' = [caller EXCEPT ![c] = rec]
      BY <2>4 DEF Join
    <3>4. Newest \in Nat
      BY <1>1 DEF JobsTypeOK, Newest
    <3>5. rec \in CallerRecord /\ rec.pc = "joining" /\ rec.job = Newest /\ rec.key = key
      BY <1>1, <3>4 DEF CallerRecord
    <3> HIDE DEF rec
    <3>6. /\ caller' \in [Callers -> CallerRecord] /\ caller'[c] = rec
          /\ \A d \in Callers : d # c => caller'[d] = caller[d]
      BY <3>3, <3>5, <1>1 DEF JobsTypeOK
    <3>7. Knows(c)'
      BY <2>1, <3>1, <3>5, <3>6 DEF Knows, At
    <3>8. Informed'
      BY <3>2, <3>6, <3>7 DEF Informed
    <3> QED BY <1>1, <2>1, <3>1, <3>2, <3>6, <3>8 DEF IInv, JobsTypeOK
  <2> QED BY <1>6, <2>2, <2>3, <2>4 DEF Resume
<1>7. CASE Await(c)
  <2>1. At(c, "joining") /\ UNCHANGED <<jobs, registry, present, calls, failures>>
    BY <1>7 DEF Await, bounds
  <2>2. CASE Tell(c, "failed")
    BY <1>3, <2>1, <2>2 DEF At, Outcome
  <2>3. CASE caller' = [caller EXCEPT ![c].pc = "awaiting"]
    <3> DEFINE rec == [caller[c] EXCEPT !.pc = "awaiting"]
    <3>1. caller' = [caller EXCEPT ![c] = rec]
      BY <2>3
    <3>2. /\ rec \in CallerRecord /\ rec.pc = "awaiting" /\ rec.key = caller[c].key
          /\ rec.job = caller[c].job
      BY <1>1 DEF CallerRecord
    <3> HIDE DEF rec
    <3>3. caller'[c] = rec
      BY <3>1, <1>1 DEF JobsTypeOK
    <3>4. Knows(c)'
      BY <1>1, <2>1, <3>2, <3>3 DEF Knows, At
    <3> QED BY <1>1, <1>2, <2>1, <3>1, <3>2, <3>4 DEF JobsTypeOK
  <2> QED BY <1>7, <2>2, <2>3 DEF Await
<1>8. CASE Awaited(c)
  <2> DEFINE job == jobs[caller[c].job]
             outcome == IF job.status = "success" THEN "ready" ELSE "failed"
  <2>1. /\ At(c, "awaiting") /\ UNCHANGED <<jobs, registry, present, calls, failures>>
        /\ Tell(c, outcome)
    BY <1>8 DEF Awaited, bounds
  <2>2. job.status = "success" => present[caller[c].key]
    BY <1>1, <2>1 DEF Knows, Delivered
  <2>3. outcome \in Outcome /\ (outcome = "ready" => present[caller[c].key])
    BY <2>2 DEF Outcome
  <2> HIDE DEF outcome
  <2> QED BY <1>3, <2>1, <2>3 DEF At
<1> QED BY <1>4, <1>5, <1>6, <1>7, <1>8 DEF CallerStep

\* A click joins the job of its key, or starts the only one.
LEMMA ClickKeeps ==
  ASSUME IInv, NEW key \in Keys, Click(key)
  PROVE  IInv'
<1>1. /\ RunningJobs(key) = {} /\ StartJob(key)
      /\ UNCHANGED <<present, caller, failures>> /\ calls' = calls + 1
  BY DEF Click
<1>2. Delivered' /\ Informed'
  BY <1>1, StartInforms DEF Informed
<1>3. jobs' \in Seq(Job) /\ registry' \subseteq DOMAIN jobs' /\ Bounded' /\ JobsExclusive'
  BY <1>1, StartKeeps
<1> QED BY <1>1, <1>2, <1>3 DEF IInv, JobsTypeOK

\* So the invariant always holds.
LEMMA Inductive == JobsSpec => []IInv
<1>1. IInv /\ [JobsNext]_jobsVars => IInv'
  <2>1. ASSUME IInv, UNCHANGED jobsVars PROVE IInv'
    BY <2>1 DEF jobsVars, IInv, JobsTypeOK, Bounded, JobsExclusive, Delivered,
                Informed, Knows, At
  <2> QED BY <2>1, JobStep, CallerStepKeeps, ClickKeeps DEF JobsNext, JobsRest
<1> QED BY <1>1, JobsStart, PTL DEF JobsSpec

\* However long the engine takes between the question who runs a job and its start,
\* and whatever evict throws out: while the map has room for every key there are no
\* two jobs of one key that count as running, and one that runs can be found
\* (images/service.ts: startJob, runningJobFor, evict).
THEOREM OneJobPerKey == JobsSpec => []JobsExclusive
<1>1. IInv => JobsExclusive
  BY DEF IInv
<1> QED BY <1>1, Inductive, PTL

\* A preparation that is told that its image or its tools volume is ready finds it on
\* the engine, also when the job it joined was cancelled, evicted or replaced
\* (images/service.ts: ensureRecipeImage, ensureToolsSynced, awaitJob).
THEOREM ReadyIsTrue == JobsSpec => []ReadyIsPresent
<1>1. IInv => ReadyIsPresent
  <2>1. ASSUME NEW c \in Callers, Knows(c),
               caller[c].told = "ready", At(c, "idle"), ~caller[c].blind
        PROVE  present[caller[c].key]
    BY <2>1 DEF Knows
  <2> QED BY <2>1 DEF IInv, Informed, ReadyIsPresent
<1> QED BY <1>1, Inductive, PTL

-----------------------------------------------------------------------------
(* The log of a job, and the modal that tails it.                          *)

LogTypes ==
  /\ lines \in [Jobs -> Seq(Nat)]
  /\ dropped \in [Jobs -> Nat]

\* Only the two actions that append touch a log: every other step stutters on it.
LEMMA StepLog ==
  ASSUME [LogNext]_logVars
  PROVE  (\E j \in Jobs : AppendLine(j)) \/ UNCHANGED <<lines, dropped>>
<1>1. ASSUME NEW j \in Jobs, WriteLine(j) PROVE AppendLine(j)
  BY <1>1 DEF WriteLine
<1>2. ASSUME NEW j \in Jobs, NEW s \in {"cancelled", "ended"}, EndWith(j, s)
      PROVE  AppendLine(j)
  BY <1>2 DEF EndWith
<1>3. ASSUME NEW j \in Jobs, Succeed(j) PROVE UNCHANGED <<lines, dropped>>
  BY <1>3 DEF Succeed
<1>4. ASSUME NEW p \in Polls, NEW j \in Jobs, OpenJob(p, j)
      PROVE  UNCHANGED <<lines, dropped>>
  BY <1>4 DEF OpenJob, serverVars
<1>5. ASSUME HideModal PROVE UNCHANGED <<lines, dropped>>
  BY <1>5 DEF HideModal, serverVars
<1>6. ASSUME NEW p \in Polls, Answering(p) PROVE UNCHANGED <<lines, dropped>>
  BY <1>6 DEF Answering, Serve, Deliver, DeliverFailure, serverVars
<1>7. ASSUME NEW p \in Polls, TimerFires(p) PROVE UNCHANGED <<lines, dropped>>
  BY <1>7 DEF TimerFires, serverVars
<1>8. ASSUME LogRest \/ UNCHANGED logVars PROVE UNCHANGED <<lines, dropped>>
  BY <1>8 DEF LogRest, logVars
<1> QED
  BY <1>1, <1>2, <1>3, <1>4, <1>5, <1>6, <1>7, <1>8 DEF LogNext, Timers

\* An appended line has the next number, and the lines stay consecutive.
LEMMA AppendKeeps ==
  ASSUME LogTypes, LinesAreNewest, NEW j \in Jobs, AppendLine(j)
  PROVE  LogTypes' /\ LinesAreNewest'
<1> DEFINE all == Append(lines[j], Written(j) + 1)
<1>1. /\ lines[j] \in Seq(Nat) /\ dropped[j] \in Nat
      /\ Len(lines[j]) \in Nat /\ Len(lines[j]) <= MaxLines
      /\ Written(j) = dropped[j] + Len(lines[j])
  BY DEF LogTypes, LinesAreNewest, Written
<1>2. /\ all \in Seq(Nat)
      /\ Len(all) = Len(lines[j]) + 1
  BY <1>1
<1>3. \A i \in 1 .. Len(all) : all[i] = dropped[j] + i
  <2> TAKE i \in 1 .. Len(all)
  <2>1. CASE i <= Len(lines[j])
    BY <1>1, <2>1 DEF LinesAreNewest
  <2>2. CASE i = Len(lines[j]) + 1
    BY <1>1, <2>2
  <2> QED BY <1>1, <1>2, <2>1, <2>2
<1> HIDE DEF all
<1>4. CASE Len(all) > MaxLines
  <2>1. /\ lines' = [lines EXCEPT ![j] = Tail(all)]
        /\ dropped' = [dropped EXCEPT ![j] = @ + 1]
    BY <1>4 DEF AppendLine, all
  <2>2. /\ Tail(all) \in Seq(Nat) /\ Len(Tail(all)) = Len(all) - 1
        /\ \A i \in 1 .. Len(Tail(all)) : Tail(all)[i] = all[i + 1]
    BY <1>1, <1>2
  <2>3. \A i \in 1 .. Len(Tail(all)) : Tail(all)[i] = (dropped[j] + 1) + i
    <3> TAKE i \in 1 .. Len(Tail(all))
    <3>1. i \in Nat /\ i + 1 \in 1 .. Len(all)
      BY <1>1, <1>2, <2>2
    <3>2. all[i + 1] = dropped[j] + (i + 1)
      BY <1>3, <3>1
    <3>3. Tail(all)[i] = all[i + 1]
      BY <2>2
    <3>4. dropped[j] + (i + 1) = (dropped[j] + 1) + i
      BY <1>1, <3>1
    <3> QED BY <3>2, <3>3, <3>4
  <2>4. LogTypes'
    BY <1>1, <2>1, <2>2 DEF LogTypes
  <2>5. /\ lines'[j] = Tail(all) /\ dropped'[j] = dropped[j] + 1
        /\ \A k \in Jobs \ {j} : lines'[k] = lines[k] /\ dropped'[k] = dropped[k]
    BY <2>1 DEF LogTypes
  <2>6. LinesAreNewest'
    <3> SUFFICES ASSUME NEW k \in Jobs
                 PROVE  /\ Len(lines'[k]) <= MaxLines
                        /\ \A i \in 1 .. Len(lines'[k]) :
                             lines'[k][i] = dropped'[k] + i
      BY DEF LinesAreNewest
    <3>0. Len(Tail(all)) <= MaxLines
      BY <1>1, <1>2, <2>2, LogAssumption
    <3>1. CASE k = j
      BY <2>3, <2>5, <3>0, <3>1
    <3>2. CASE k # j
      BY <2>5, <3>2 DEF LinesAreNewest
    <3> QED BY <3>1, <3>2
  <2> QED BY <2>4, <2>6
<1>5. CASE ~(Len(all) > MaxLines)
  <2>1. lines' = [lines EXCEPT ![j] = all] /\ dropped' = dropped
    BY <1>5 DEF AppendLine, all
  <2>2. LogTypes'
    BY <1>2, <2>1 DEF LogTypes
  <2>3. LinesAreNewest'
    <3> SUFFICES ASSUME NEW k \in Jobs
                 PROVE  /\ Len(lines'[k]) <= MaxLines
                        /\ \A i \in 1 .. Len(lines'[k]) :
                             lines'[k][i] = dropped'[k] + i
      BY DEF LinesAreNewest
    <3>1. CASE k = j
      BY <1>2, <1>3, <1>5, <2>1, <3>1, LogAssumption DEF LogTypes
    <3>2. CASE k # j
      BY <2>1, <3>2 DEF LinesAreNewest, LogTypes
    <3> QED BY <3>1, <3>2
  <2> QED BY <2>2, <2>3
<1> QED BY <1>4, <1>5

\* Whatever the job writes and whoever reads it, a log is the newest MaxLines
\* lines of its job, and "dropped" is the number of the line before them.
THEOREM NewestLines == LogSpec => []LinesAreNewest
<1>1. LogInit => LogTypes /\ LinesAreNewest
  BY LogAssumption DEF LogInit, LogTypes, LinesAreNewest
<1>2. LogTypes /\ LinesAreNewest /\ [LogNext]_logVars => (LogTypes /\ LinesAreNewest)'
  <2> SUFFICES ASSUME LogTypes, LinesAreNewest, [LogNext]_logVars
               PROVE  (LogTypes /\ LinesAreNewest)'
    OBVIOUS
  <2>1. CASE \E j \in Jobs : AppendLine(j)
    BY <2>1, AppendKeeps
  <2>2. CASE UNCHANGED <<lines, dropped>>
    BY <2>2 DEF LogTypes, LinesAreNewest
  <2> QED BY <2>1, <2>2, StepLog
<1> QED BY <1>1, <1>2, PTL DEF LogSpec

-----------------------------------------------------------------------------
(* The modal.                                                              *)

\* how far the job that is tailed has got
Reached == IF tailed = NoJob THEN 0 ELSE Written(tailed)

\* what is served of the first n lines to one who has the first k
First(k, n)  == IF n > k + MaxLines THEN n - MaxLines + 1 ELSE k + 1
Served(k, n) == [i \in 1 .. (n + 1 - First(k, n)) |-> First(k, n) + i - 1]

\* where that is in the buffer
Start(k, d) == IF k < d THEN 1 ELSE k - d + 1

LastShown == IF shown = <<>> THEN 0 ELSE shown[Len(shown)].line

\* a request of the first opening
Asking(p) ==
  /\ poll[p].job = tailed /\ ~view.timer
  /\ \A q \in Polls : poll[q].pc # "free" => q = p
  /\ poll[p].pc = "asked" => poll[p].since = view.cursor
  /\ poll[p].pc = "answered" =>
       /\ view.cursor <= poll[p].next /\ poll[p].next <= Reached
       /\ poll[p].lines = Served(view.cursor, poll[p].next)

\* The first opening: there is one request or one timer, and the cursor is the last line
\* that is shown.
Chain ==
  /\ strays = 0 /\ view.id \in {NoJob, tailed}
  /\ view.cursor = LastShown /\ view.cursor <= Reached
  /\ \A p \in Polls : poll[p].pc # "free" => Asking(p)

\* before it
Unopened ==
  /\ tailed = NoJob /\ ~view.timer /\ shown = <<>>
  /\ \A p \in Polls : poll[p].pc = "free"

Full == \A j \in Jobs : dropped[j] > 0 => Len(lines[j]) = MaxLines

LogInv ==
  /\ LogTypeOK /\ LinesAreNewest /\ Full
  /\ opens > 0 => tailed # NoJob
  /\ opens = 0 => Unopened
  /\ opens <= 1 => Chain

\* A sequence of consecutive numbers is one.
LEMMA ServedType ==
  ASSUME NEW k \in Nat, NEW n \in Nat, k <= n
  PROVE  /\ Served(k, n) \in Seq(Nat)
         /\ Len(Served(k, n)) = 0 => n = k
         /\ n = k => Len(Served(k, n)) = 0
         /\ n > k => Len(Served(k, n)) > 0 /\ Served(k, n)[Len(Served(k, n))] = n
<1> DEFINE first == First(k, n)
           len   == n + 1 - first
<1>1. first \in Nat /\ first >= 1 /\ len \in Nat /\ (len = 0 <=> n = k)
  BY LogAssumption DEF First
<1>2. Served(k, n) = [i \in 1 .. len |-> first + i - 1]
  BY DEF Served
<1> HIDE DEF first, len
<1>3. \A i \in 1 .. len : first + i - 1 \in Nat
  BY <1>1
<1>4. Served(k, n) \in Seq(Nat) /\ Len(Served(k, n)) = len
  <2>1. Served(k, n) \in [1 .. len -> Nat]
    BY <1>2, <1>3
  <2>2. Served(k, n) \in Seq(Nat)
    BY <1>1, <2>1, SeqDef
  <2> QED BY <1>1, <2>1, <2>2, LenProperties
<1>5. len > 0 => Served(k, n)[len] = first + len - 1
  BY <1>1, <1>2
<1>6. first + len - 1 = n
  BY <1>1 DEF len
<1> QED BY <1>1, <1>4, <1>5, <1>6

\* getJobLines' index into the buffer and the first line it stands for.
LEMMA Cut ==
  ASSUME NEW d \in Nat, NEW have \in Nat, NEW k \in Nat,
         k <= d + have, have <= MaxLines, d > 0 => have = MaxLines
  PROVE  /\ Start(k, d) \in Nat /\ Start(k, d) >= 1 /\ Start(k, d) <= have + 1
         /\ d + Start(k, d) = First(k, d + have)
         /\ (have - Start(k, d)) + 1 = (d + have) + 1 - First(k, d + have)
         /\ (IF (IF k - d > have THEN have ELSE k - d) < 0 THEN 0
             ELSE (IF k - d > have THEN have ELSE k - d)) + 1 = Start(k, d)
BY LogAssumption DEF Start, First

\* getJobLines and the ring buffer: what follows the cursor, of what there still is.
LEMMA ServesNewest ==
  ASSUME LogTypeOK, LinesAreNewest, Full, NEW j \in Jobs, NEW since \in Nat, since <= Written(j)
  PROVE  NewLines(j, since) = Served(since, Written(j)) /\ Written(j) \in Nat
<1>1. PICK l \in Seq(Nat), d \in Nat : l = lines[j] /\ d = dropped[j]
  BY DEF LogTypeOK
<1>2. PICK have \in Nat : have = Len(l)
  BY <1>1, LenProperties
<1>3. /\ Written(j) = d + have /\ since <= d + have /\ have <= MaxLines
      /\ d > 0 => have = MaxLines /\ d + have \in Nat
  BY <1>1, <1>2 DEF LinesAreNewest, Written, Full
<1>4. \A i \in 1 .. have : l[i] = d + i /\ l[i] \in Nat
  BY <1>1, <1>2 DEF LinesAreNewest
<1>5. PICK start : start = Start(since, d)
  OBVIOUS
<1>6. PICK first : first = First(since, d + have)
  OBVIOUS
<1>7. /\ start \in Nat /\ start >= 1 /\ start <= have + 1 /\ d + start = first
      /\ (have - start) + 1 = (d + have) + 1 - first
  BY <1>3, <1>5, <1>6, Cut
<1>8. NewLines(j, since) = SubSeq(l, start, have)
  BY <1>1, <1>2, <1>3, <1>5, Cut DEF NewLines
<1>9. Served(since, d + have) = [i \in 1 .. (have - start) + 1 |-> first + i - 1]
  BY <1>6, <1>7 DEF Served
<1>10. /\ SubSeq(l, start, have) \in Seq(Nat)
       /\ Len(SubSeq(l, start, have)) = (have - start) + 1
       /\ \A i \in 1 .. (have - start) + 1 : SubSeq(l, start, have)[i] = l[start + i - 1]
  <2>1. \A i \in start .. have : l[i] \in Nat
    BY <1>4, <1>7
  <2>2. start \in Int /\ have \in Int /\ (IF start <= have THEN have - start + 1 ELSE 0) = (have - start) + 1
    BY <1>2, <1>7
  <2>3. /\ SubSeq(l, start, have) \in Seq(Nat)
        /\ Len(SubSeq(l, start, have)) = IF start <= have THEN have - start + 1 ELSE 0
        /\ \A i \in 1 .. have - start + 1 : SubSeq(l, start, have)[i] = l[start + i - 1]
    BY <2>1, <2>2, SubSeqProperties
  <2> QED BY <2>2, <2>3
<1>11. ASSUME NEW i \in 1 .. (have - start) + 1 PROVE SubSeq(l, start, have)[i] = first + i - 1
  <2>1. start + i - 1 \in 1 .. have
    BY <1>2, <1>7
  <2>2. l[start + i - 1] = d + (start + i - 1)
    BY <1>4, <2>1
  <2>3. d + (start + i - 1) = first + i - 1
    BY <1>1, <1>7
  <2> QED BY <1>10, <2>2, <2>3
<1>12. /\ Served(since, d + have) \in Seq(Nat)
       /\ Len(Served(since, d + have)) = (have - start) + 1
       /\ \A i \in 1 .. (have - start) + 1 : Served(since, d + have)[i] = first + i - 1
  <2>1. Served(since, d + have) \in Seq(Nat)
    <3>1. PICK n \in Nat : n = d + have /\ since <= n
      BY <1>3
    <3>2. Served(since, n) \in Seq(Nat)
      BY <3>1, ServedType
    <3> QED BY <3>1, <3>2
  <2>2. DOMAIN Served(since, d + have) = 1 .. (have - start) + 1 /\ (have - start) + 1 \in Nat
    BY <1>2, <1>7, <1>9
  <2> QED BY <1>9, <2>1, <2>2, LenProperties
<1>13. PICK a : a = SubSeq(l, start, have)
  OBVIOUS
<1>14. PICK b : b = Served(since, d + have)
  OBVIOUS
<1>15. a \in Seq(Nat) /\ b \in Seq(Nat) /\ Len(a) = Len(b) /\ \A i \in 1 .. Len(a) : a[i] = b[i]
  BY <1>10, <1>11, <1>12, <1>13, <1>14
<1>16. a = b
  BY <1>15, SeqEqual
<1> QED BY <1>3, <1>8, <1>13, <1>14, <1>16

\* What is appended to the modal is appended to its numbers.
LEMMA NumbersOf ==
  ASSUME NEW s \in Seq([job : Jobs, line : Nat]), NEW j \in Jobs, NEW ns \in Seq(Nat)
  PROVE  /\ s \o Lines(j, ns) \in Seq([job : Jobs, line : Nat])
         /\ Len(s \o Lines(j, ns)) = Len(s) + Len(ns)
         /\ \A i \in 1 .. Len(ns) : (s \o Lines(j, ns))[Len(s) + i].line = ns[i]
         /\ LineNumbers(s) \in Seq(Nat)
         /\ LineNumbers(s \o Lines(j, ns)) = LineNumbers(s) \o ns
<1>0. PICK R : R = [job : Jobs, line : Nat]
  OBVIOUS
<1> DEFINE t == Lines(j, ns)
           u == s \o t
<1>1. Len(ns) \in Nat /\ DOMAIN ns = 1 .. Len(ns) /\ \A i \in 1 .. Len(ns) : ns[i] \in Nat
  BY LenProperties
<1>2. t \in Seq(R) /\ Len(t) = Len(ns) /\ \A i \in 1 .. Len(ns) : t[i].line = ns[i]
  <2>1. t = [i \in 1 .. Len(ns) |-> [job |-> j, line |-> ns[i]]]
    BY <1>1 DEF Lines
  <2>2. t \in Seq(R)
    BY <1>0, <1>1, <2>1
  <2> QED BY <1>1, <2>1, <2>2, LenProperties
<1> HIDE DEF t
<1>3. s \in Seq(R) /\ Len(s) \in Nat /\ DOMAIN s = 1 .. Len(s) /\ \A i \in 1 .. Len(s) : s[i] \in R
  BY <1>0, LenProperties
<1>4. /\ u \in Seq(R) /\ Len(u) = Len(s) + Len(ns)
      /\ \A i \in 1 .. Len(s) + Len(ns) : u[i] = IF i <= Len(s) THEN s[i] ELSE t[i - Len(s)]
  <2>1. /\ s \o t \in Seq(R) /\ Len(s \o t) = Len(s) + Len(t)
        /\ \A i \in 1 .. Len(s) + Len(t) : (s \o t)[i] = IF i <= Len(s) THEN s[i] ELSE t[i - Len(s)]
    <3>1. s \in Seq(R) /\ t \in Seq(R)
      BY <1>2, <1>3
    <3> QED BY <3>1, ConcatProperties, Zenon
  <2> QED BY <1>2, <2>1
<1> HIDE DEF u
<1>5. \A i \in 1 .. Len(ns) : u[Len(s) + i].line = ns[i]
  <2> TAKE i \in 1 .. Len(ns)
  <2>1. Len(s) + i \in 1 .. Len(s) + Len(ns) /\ ~(Len(s) + i <= Len(s)) /\ (Len(s) + i) - Len(s) = i
    BY <1>1, <1>3
  <2> QED BY <1>2, <1>4, <2>1
<1>6. LineNumbers(s) \in Seq(Nat) /\ Len(LineNumbers(s)) = Len(s)
  <2>1. LineNumbers(s) = [i \in 1 .. Len(s) |-> s[i].line]
    BY <1>3 DEF LineNumbers
  <2>2. LineNumbers(s) \in Seq(Nat)
    BY <1>0, <1>3, <2>1
  <2> QED BY <1>3, <2>1, <2>2, LenProperties
<1>7. LineNumbers(u) \in Seq(Nat) /\ Len(LineNumbers(u)) = Len(u)
  <2>1. Len(u) \in Nat /\ DOMAIN u = 1 .. Len(u) /\ \A i \in 1 .. Len(u) : u[i] \in R
    BY <1>4, LenProperties
  <2>2. LineNumbers(u) = [i \in 1 .. Len(u) |-> u[i].line]
    BY <2>1 DEF LineNumbers
  <2>3. LineNumbers(u) \in Seq(Nat)
    BY <1>0, <2>1, <2>2
  <2> QED BY <2>1, <2>2, <2>3, LenProperties
<1>8. /\ LineNumbers(s) \o ns \in Seq(Nat) /\ Len(LineNumbers(s) \o ns) = Len(s) + Len(ns)
      /\ \A i \in 1 .. Len(s) + Len(ns) : (LineNumbers(s) \o ns)[i] =
           IF i <= Len(s) THEN LineNumbers(s)[i] ELSE ns[i - Len(s)]
  <2>1. PICK a \in Seq(Nat) : a = LineNumbers(s) /\ Len(a) = Len(s)
    BY <1>6
  <2> QED BY <2>1, ConcatProperties
<1>9. \A i \in 1 .. Len(u) : LineNumbers(u)[i] = (LineNumbers(s) \o ns)[i]
  <2> TAKE i \in 1 .. Len(u)
  <2>1. LineNumbers(u)[i] = u[i].line
    BY <1>4, LenProperties DEF LineNumbers
  <2>2. CASE i <= Len(s)
    BY <1>3, <1>4, <1>8, <2>1, <2>2 DEF LineNumbers
  <2>3. CASE ~(i <= Len(s))
    <3>1. i - Len(s) \in 1 .. Len(ns)
      BY <1>1, <1>3, <1>4, <2>3
    <3> QED BY <1>2, <1>4, <1>8, <2>1, <2>3, <3>1
  <2> QED BY <2>2, <2>3
<1>10. LineNumbers(u) = LineNumbers(s) \o ns
  <2> DEFINE a == LineNumbers(u)
             b == LineNumbers(s) \o ns
  <2>1. a \in Seq(Nat) /\ b \in Seq(Nat) /\ Len(a) = Len(b) /\ \A i \in 1 .. Len(a) : a[i] = b[i]
    BY <1>4, <1>7, <1>8, <1>9
  <2> HIDE DEF a, b
  <2>2. a = b
    BY <2>1, SeqEqual
  <2> QED BY <2>2 DEF a, b
<1> QED BY <1>0, <1>4, <1>5, <1>6, <1>10 DEF u, t

Seen == IF opens <= 1 THEN LineNumbers(shown) ELSE <<>>

\* What a step of the abstract log looks like from here.
LEMMA Maps ==
  ASSUME \/ Reached' = Reached /\ Seen' = Seen
         \/ Reached' = Reached + 1 /\ Seen' = Seen
         \/ Reached' \in Nat /\ Seen' = <<>>
         \/ \E n \in 0 .. Reached :
              /\ (IF Seen = <<>> THEN 0 ELSE Seen[Len(Seen)]) <= n
              /\ Seen' = Seen \o Served(IF Seen = <<>> THEN 0 ELSE Seen[Len(Seen)], n)
              /\ Reached' = Reached
  PROVE  [TailedView!Next]_(TailedView!vars)
<1>1. CASE Reached' = Reached /\ Seen' = Seen
  BY <1>1 DEF Reached, Seen, TailedView!vars
<1>2. CASE Reached' = Reached + 1 /\ Seen' = Seen
  BY <1>2 DEF Reached, Seen, TailedView!Next, TailedView!Write
<1>3. CASE Reached' \in Nat /\ Seen' = <<>>
  BY <1>3 DEF Reached, Seen, TailedView!Next, TailedView!Reopen
<1>4. ASSUME NEW n \in 0 .. Reached,
             (IF Seen = <<>> THEN 0 ELSE Seen[Len(Seen)]) <= n,
             Seen' = Seen \o Served(IF Seen = <<>> THEN 0 ELSE Seen[Len(Seen)], n),
             Reached' = Reached
      PROVE  TailedView!Next
  <2>1. TailedView!Last0 = IF Seen = <<>> THEN 0 ELSE Seen[Len(Seen)]
    BY DEF Seen, TailedView!Last0, TailedView!Last
  <2>2. PICK k : k = TailedView!Last0
    OBVIOUS
  <2>3. /\ k <= n /\ n <= Reached /\ Reached' = Reached
        /\ Seen' = Seen \o [i \in 1 .. (n + 1 - First(k, n)) |-> First(k, n) + i - 1]
    BY <1>4, <2>1, <2>2 DEF Served
  <2>4. TailedView!Show(n)
    BY <2>2, <2>3 DEF Seen, Reached, First, TailedView!Show
  <2> QED BY <1>4, <2>4 DEF Reached, TailedView!Next
<1> QED BY <1>1, <1>2, <1>3, <1>4

PollType ==
  [pc : {"free", "asked", "answered", "failed"}, job : Jobs \cup {NoJob}, since : Nat,
   lines : Seq(Nat), next : Nat, status : {"running", "cancelled", "ended"}]

\* What a slot is when it is free.
LEMMA NoPollIs == NoPoll \in PollType /\ NoPoll.pc = "free"
<1>1. <<>> \in Seq(Nat)
  BY EmptySeq
<1> QED BY <1>1 DEF NoPoll, PollType

\* How far a job has got.
LEMMA WrittenIs ==
  ASSUME LogTypeOK
  PROVE  /\ \A j \in Jobs : Written(j) \in Nat
         /\ Reached \in Nat
BY DEF LogTypeOK, Written, Reached

\* The log grows: whoever tails it is that much behind.
LEMMA LogGrows ==
  ASSUME LogInv, NEW j \in Jobs, AppendLine(j),
         status' \in [Jobs -> {"running", "cancelled", "ended"}],
         UNCHANGED <<modalVars, poll, opens, lost>>
  PROVE  LogInv' /\ [TailedView!Next]_(TailedView!vars)
<1>1. /\ LogTypeOK /\ LinesAreNewest /\ Full /\ LogTypes
      /\ UNCHANGED <<view, strays, shown, tailed, poll, opens, lost>>
  BY DEF LogInv, LogTypeOK, LogTypes, modalVars
<1>2. LogTypes' /\ LinesAreNewest'
  BY <1>1, AppendKeeps
<1>3. LogTypeOK'
  BY <1>1, <1>2 DEF LogTypeOK, LogTypes
<1>4. PICK l \in Seq(Nat), d \in Nat : l = lines[j] /\ d = dropped[j]
  BY <1>1 DEF LogTypeOK
<1>5. PICK all : all = Append(l, Written(j) + 1)
  OBVIOUS
<1>6. /\ all \in Seq(Nat) /\ Len(all) = Len(l) + 1 /\ Len(l) \in Nat /\ Len(l) <= MaxLines
      /\ Written(j) = d + Len(l)
  BY <1>1, <1>4, <1>5 DEF Written, LinesAreNewest
<1>7. /\ Written(j)' = Written(j) + 1
      /\ dropped'[j] > 0 => Len(lines'[j]) = MaxLines
      /\ \A k \in Jobs \ {j} : lines'[k] = lines[k] /\ dropped'[k] = dropped[k]
  <2>1. CASE Len(all) > MaxLines
    <3>1. lines' = [lines EXCEPT ![j] = Tail(all)] /\ dropped' = [dropped EXCEPT ![j] = d + 1]
      BY <1>4, <1>5, <2>1 DEF AppendLine
    <3>2. Len(Tail(all)) = Len(l) /\ Len(l) = MaxLines
      BY <1>6, <2>1, LogAssumption
    <3>3. lines'[j] = Tail(all) /\ dropped'[j] = d + 1
      BY <1>1, <3>1 DEF LogTypeOK
    <3>4. Written(j)' = (d + 1) + Len(l)
      BY <3>2, <3>3 DEF Written
    <3>5. \A k \in Jobs \ {j} : lines'[k] = lines[k] /\ dropped'[k] = dropped[k]
      BY <1>1, <3>1 DEF LogTypeOK
    <3> QED BY <1>6, <3>2, <3>3, <3>4, <3>5
  <2>2. CASE ~(Len(all) > MaxLines)
    <3>1. lines' = [lines EXCEPT ![j] = all] /\ dropped' = dropped
      BY <1>4, <1>5, <2>2 DEF AppendLine
    <3>2. lines'[j] = all /\ dropped'[j] = d
      BY <1>1, <1>4, <3>1 DEF LogTypeOK
    <3>3. d = 0
      BY <1>1, <1>4, <1>6, <2>2, LogAssumption DEF Full
    <3>4. Written(j)' = d + Len(all)
      BY <3>2 DEF Written
    <3>5. \A k \in Jobs \ {j} : lines'[k] = lines[k] /\ dropped'[k] = dropped[k]
      BY <1>1, <3>1 DEF LogTypeOK
    <3> QED BY <1>6, <3>2, <3>3, <3>4, <3>5
  <2> QED BY <2>1, <2>2
<1>8. Full'
  BY <1>1, <1>7 DEF Full
<1>9. /\ Reached \in Nat /\ Reached' \in Nat
      /\ Reached' = Reached \/ Reached' = Reached + 1
  <2>1. tailed # NoJob => tailed \in Jobs
    BY <1>1 DEF LogTypeOK
  <2>2. tailed # NoJob /\ tailed # j => Written(tailed)' = Written(tailed)
    BY <1>1, <1>7, <2>1 DEF Written
  <2>3. tailed' = tailed
    BY <1>1
  <2>4. Reached \in Nat
    BY <1>1, WrittenIs
  <2> QED BY <1>7, <2>2, <2>3, <2>4 DEF Reached
<1>10. LogInv'
  <2>1. Unopened => Unopened'
    BY <1>1 DEF Unopened
  <2>2. ASSUME Chain PROVE Chain'
    <3>1. LastShown' = LastShown /\ view.cursor \in Nat
      BY <1>1 DEF LastShown, LogTypeOK
    <3>2. ASSUME NEW p \in Polls, Asking(p) PROVE Asking(p)'
      <4>1. poll[p].next \in Nat
        BY <1>1 DEF LogTypeOK
      <4> QED BY <1>1, <1>9, <3>2, <4>1 DEF Asking
    <3> QED BY <1>1, <1>9, <2>2, <3>1, <3>2 DEF Chain
  <2> QED BY <1>1, <1>2, <1>3, <1>8, <2>1, <2>2 DEF LogInv
<1>11. Seen' = Seen
  BY <1>1 DEF Seen, LineNumbers
<1> QED BY <1>9, <1>10, <1>11, Maps

\* What is served is a sequence of numbers, wherever the cursor is.
LEMMA NewLinesType ==
  ASSUME LogTypeOK, NEW j \in Jobs, NEW k \in Nat
  PROVE  NewLines(j, k) \in Seq(Nat)
<1>1. PICK l \in Seq(Nat), d \in Nat : l = lines[j] /\ d = dropped[j]
  BY DEF LogTypeOK
<1>2. PICK have \in Nat : have = Len(l)
  BY <1>1, LenProperties
<1>3. PICK from : from = (IF (IF k - d > have THEN have ELSE k - d) < 0 THEN 0
                          ELSE (IF k - d > have THEN have ELSE k - d)) + 1
  OBVIOUS
<1>4. from \in Nat /\ from >= 1
  BY <1>1, <1>2, <1>3
<1>5. NewLines(j, k) = SubSeq(l, from, have)
  BY <1>1, <1>2, <1>3 DEF NewLines
<1>6. \A i \in from .. have : l[i] \in Nat
  BY <1>1, <1>2, <1>4, ElementOfSeq
<1>7. from \in Int /\ have \in Int
  BY <1>2, <1>4
<1>8. SubSeq(l, from, have) \in Seq(Nat)
  BY <1>6, <1>7, SubSeqProperties
<1> QED BY <1>5, <1>8

\* A request sees how far the job is, and what follows the cursor it was sent with.
LEMMA ServeKeeps ==
  ASSUME LogInv, NEW p \in Polls, Serve(p)
  PROVE  LogInv' /\ [TailedView!Next]_(TailedView!vars)
<1>1. /\ LogTypeOK /\ poll[p].pc = "asked" /\ poll[p].job \in Jobs /\ poll[p] \in PollType
      /\ poll \in [Polls -> PollType] /\ lost \in Nat
      /\ UNCHANGED <<lines, dropped, status, view, strays, shown, tailed, opens>>
  BY DEF LogInv, LogTypeOK, PollType, Serve, serverVars, modalVars
<1>2. PICK j \in Jobs : j = poll[p].job
  BY <1>1
<1>3. Written(j) \in Nat /\ Reached \in Nat /\ status[j] \in {"running", "cancelled", "ended"}
  BY <1>1, WrittenIs DEF LogTypeOK
<1>4. NewLines(j, poll[p].since) \in Seq(Nat)
  <2>1. PICK k \in Nat : k = poll[p].since
    BY <1>1 DEF PollType
  <2>2. NewLines(j, k) \in Seq(Nat)
    BY <1>1, NewLinesType DEF LogInv
  <2> QED BY <2>1, <2>2
<1>5. PICK r \in PollType :
        /\ poll' = [poll EXCEPT ![p] = r] /\ r.job = j /\ r.since = poll[p].since /\ r.pc # "free"
        /\ r.pc # "asked"
        /\ r.pc = "answered" => r.lines = NewLines(j, r.since) /\ r.next = Written(j)
        /\ lost' \in Nat
  <2>1. CASE poll' = [poll EXCEPT ![p] = [poll[p] EXCEPT !.pc = "answered",
                        !.lines = NewLines(j, poll[p].since),
                        !.next = Written(j), !.status = status[j]]] /\ lost' = lost
    <3>1. PICK r : r = [poll[p] EXCEPT !.pc = "answered", !.lines = NewLines(j, poll[p].since),
                          !.next = Written(j), !.status = status[j]]
      OBVIOUS
    <3>2. /\ r \in PollType /\ r.job = j /\ r.since = poll[p].since /\ r.pc = "answered"
          /\ r.lines = NewLines(j, poll[p].since) /\ r.next = Written(j)
      BY <1>1, <1>2, <1>3, <1>4, <3>1 DEF PollType
    <3>3. poll' = [poll EXCEPT ![p] = r]
      BY <2>1, <3>1
    <3> QED BY <1>1, <2>1, <3>2, <3>3
  <2>2. CASE poll' = [poll EXCEPT ![p].pc = "failed"] /\ lost' = lost + 1
    <3>1. PICK r : r = [poll[p] EXCEPT !.pc = "failed"]
      OBVIOUS
    <3>2. r \in PollType /\ r.job = j /\ r.since = poll[p].since /\ r.pc = "failed"
      BY <1>1, <1>2, <3>1 DEF PollType
    <3>3. poll' = [poll EXCEPT ![p] = r]
      BY <1>1, <2>2, <3>1
    <3>4. r.pc # "free" /\ r.pc # "asked" /\ r.pc # "answered" /\ lost' \in Nat
      BY <1>1, <2>2, <3>2
    <3> QED BY <3>2, <3>3, <3>4
  <2> QED BY <1>2, <2>1, <2>2 DEF Serve
<1>6. /\ poll' \in [Polls -> PollType] /\ poll'[p] = r
      /\ \A q \in Polls \ {p} : poll'[q] = poll[q]
  BY <1>1, <1>5
<1>7. LogTypeOK'
  BY <1>1, <1>2, <1>5, <1>6 DEF LogTypeOK, PollType
<1>8. /\ LinesAreNewest' /\ Full' /\ Reached' = Reached /\ Seen' = Seen /\ LastShown' = LastShown
      /\ \A k \in Jobs : Written(k)' = Written(k)
  BY <1>1 DEF LogInv, LinesAreNewest, Full, Reached, Seen, LineNumbers, Written, LastShown
<1>9. ASSUME Chain PROVE Chain'
  <2>1. Asking(p) /\ view.cursor <= Reached /\ view.cursor \in Nat
    BY <1>1, <1>9 DEF Chain, LogTypeOK
  <2>2. j = tailed /\ j # NoJob /\ poll[p].since = view.cursor /\ Reached = Written(j)
    BY <1>1, <1>2, <2>1, LogAssumption DEF Asking, Reached
  <2>3. NewLines(j, view.cursor) = Served(view.cursor, Written(j))
    BY <2>1, <2>2, ServesNewest DEF LogInv
  <2>4. r.pc = "answered" => r.lines = Served(view.cursor, r.next) /\ r.next = Reached
    BY <1>5, <2>2, <2>3
  <2>5. \A q \in Polls : poll'[q].pc # "free" => q = p
    BY <1>6, <2>1 DEF Asking
  <2>6. Asking(p)'
    BY <1>1, <1>3, <1>5, <1>6, <1>8, <2>1, <2>2, <2>4, <2>5 DEF Asking
  <2> QED BY <1>1, <1>8, <1>9, <2>5, <2>6 DEF Chain
<1>10. opens # 0
  BY <1>1 DEF LogInv, Unopened
<1>11. LogInv'
  BY <1>1, <1>7, <1>8, <1>9, <1>10 DEF LogInv
<1> QED BY <1>8, <1>11, Maps

\* A request is sent from a slot that is free.
LEMMA AskIs ==
  ASSUME LogTypeOK, NEW p \in Polls, NEW j \in Jobs, NEW since \in Nat, Ask(p, j, since)
  PROVE  /\ poll' \in [Polls -> PollType] /\ poll[p].pc = "free"
         /\ poll'[p].pc = "asked" /\ poll'[p].job = j /\ poll'[p].since = since
         /\ \A q \in Polls \ {p} : poll'[q] = poll[q]
<1>1. PICK r : r = [NoPoll EXCEPT !.pc = "asked", !.job = j, !.since = since]
  OBVIOUS
<1>2. r \in PollType /\ r.pc = "asked" /\ r.job = j /\ r.since = since
  <2>1. <<>> \in Seq(Nat)
    BY EmptySeq
  <2> QED BY <1>1, <2>1 DEF NoPoll, PollType
<1>3. poll' = [poll EXCEPT ![p] = r] /\ poll[p].pc = "free" /\ poll \in [Polls -> PollType]
  BY <1>1 DEF Ask, LogTypeOK, PollType
<1> QED BY <1>2, <1>3

\* The modal is opened.
LEMMA OpenKeeps ==
  ASSUME LogInv, NEW p \in Polls, NEW j \in Jobs, OpenJob(p, j)
  PROVE  LogInv' /\ [TailedView!Next]_(TailedView!vars)
<1>1. /\ LogTypeOK /\ opens \in Nat /\ opens' = opens + 1 /\ Ask(p, j, 0) /\ j # NoJob
      /\ UNCHANGED <<lines, dropped, status, strays, lost>>
      /\ view' = [id |-> j, cursor |-> 0, timer |-> FALSE] /\ shown' = <<>> /\ tailed' = j
  BY LogAssumption DEF LogInv, LogTypeOK, OpenJob, serverVars
<1>2. /\ poll' \in [Polls -> PollType] /\ poll[p].pc = "free"
      /\ poll'[p].pc = "asked" /\ poll'[p].job = j /\ poll'[p].since = 0
      /\ \A q \in Polls \ {p} : poll'[q] = poll[q]
  BY <1>1, AskIs
<1>3. /\ view'.id = j /\ view'.cursor = 0 /\ view'.timer = FALSE
      /\ view' \in [id : Jobs \cup {NoJob}, cursor : Nat, timer : BOOLEAN]
      /\ shown' \in Seq([job : Jobs, line : Nat])
  BY <1>1, EmptySeq
<1>4. \A q \in Polls : poll'[q].pc # "free" => poll'[q].job \in Jobs
  BY <1>1, <1>2 DEF LogTypeOK
<1>5. LogTypeOK'
  BY <1>1, <1>2, <1>3, <1>4 DEF LogTypeOK, PollType
<1>6. LinesAreNewest' /\ Full' /\ \A k \in Jobs : Written(k)' = Written(k)
  BY <1>1 DEF LogInv, LinesAreNewest, Full, Written
<1>7. Reached' \in Nat
  <2>1. lines'[j] \in Seq(Nat) /\ dropped'[j] \in Nat
    BY <1>5 DEF LogTypeOK
  <2>2. Reached' = dropped'[j] + Len(lines'[j])
    BY <1>1 DEF Reached, Written
  <2> QED BY <2>1, <2>2, LenProperties
<1>8. LastShown' = 0 /\ Seen' = <<>>
  BY <1>1 DEF LastShown, Seen, LineNumbers
<1>9. ASSUME opens' <= 1 PROVE Chain'
  <2>1. opens = 0 /\ Unopened /\ Chain
    BY <1>1, <1>9 DEF LogInv
  <2>2. \A q \in Polls : poll'[q].pc # "free" => q = p
    BY <1>2, <2>1 DEF Unopened
  <2>3. Asking(p)'
    BY <1>1, <1>2, <1>3, <2>2 DEF Asking
  <2> QED BY <1>1, <1>3, <1>7, <1>8, <2>1, <2>2, <2>3 DEF Chain
<1>10. LogInv'
  BY <1>1, <1>5, <1>6, <1>9 DEF LogInv
<1> QED BY <1>7, <1>8, <1>10, Maps

\* The modal is hidden: what is under way goes on.
LEMMA HideKeeps ==
  ASSUME LogInv, HideModal
  PROVE  LogInv' /\ [TailedView!Next]_(TailedView!vars)
<1>1. /\ LogTypeOK /\ view.id # NoJob /\ view' = [view EXCEPT !.id = NoJob, !.timer = FALSE]
      /\ UNCHANGED <<lines, dropped, status, strays, shown, poll, tailed, opens, lost>>
  BY DEF LogInv, HideModal, serverVars
<1>2. /\ view'.id = NoJob /\ view'.cursor = view.cursor /\ view'.timer = FALSE
      /\ view' \in [id : Jobs \cup {NoJob}, cursor : Nat, timer : BOOLEAN]
  BY <1>1 DEF LogTypeOK
<1>3. LogTypeOK'
  BY <1>1, <1>2 DEF LogTypeOK
<1>4. /\ LinesAreNewest' /\ Full' /\ Reached' = Reached /\ Seen' = Seen /\ LastShown' = LastShown
  BY <1>1 DEF LogInv, LinesAreNewest, Full, Reached, Seen, LineNumbers, Written, LastShown
<1>5. Chain => Chain'
  <2>1. \A p \in Polls : Asking(p) => Asking(p)'
    BY <1>1, <1>2, <1>4 DEF Asking
  <2> QED BY <1>1, <1>2, <1>4, <2>1 DEF Chain
<1>6. Unopened => Unopened'
  BY <1>1, <1>2 DEF Unopened
<1>7. LogInv'
  BY <1>1, <1>3, <1>4, <1>5, <1>6 DEF LogInv
<1> QED BY <1>4, <1>7, Maps

\* A timer sends a request with the cursor of now, or finds the modal hidden.
LEMMA TimerKeeps ==
  ASSUME LogInv, NEW p \in Polls, TimerFires(p)
  PROVE  LogInv' /\ [TailedView!Next]_(TailedView!vars)
<1>1. /\ LogTypeOK /\ UNCHANGED <<lines, dropped, status, shown, tailed, opens, lost>>
      /\ IF view.id = NoJob THEN UNCHANGED poll ELSE Ask(p, view.id, view.cursor)
      /\ view \in [id : Jobs \cup {NoJob}, cursor : Nat, timer : BOOLEAN]
      /\ poll \in [Polls -> PollType]
  BY DEF LogInv, LogTypeOK, TimerFires, serverVars, PollType
<1>2. /\ view'.id = view.id /\ view'.cursor = view.cursor /\ strays' \in Nat
      /\ view' \in [id : Jobs \cup {NoJob}, cursor : Nat, timer : BOOLEAN]
      /\ \/ view.timer /\ ~view'.timer /\ strays' = strays
         \/ strays > 0
  <2>1. strays \in Nat
    BY <1>1 DEF LogTypeOK
  <2>2. CASE view.timer /\ view' = [view EXCEPT !.timer = FALSE] /\ UNCHANGED strays
    BY <1>1, <2>1, <2>2
  <2>3. CASE strays > 0 /\ strays' = strays - 1 /\ UNCHANGED view
    BY <1>1, <2>1, <2>3
  <2> QED BY <2>2, <2>3 DEF TimerFires
<1>3. /\ poll' \in [Polls -> PollType]
      /\ \A q \in Polls \ {p} : poll'[q] = poll[q]
      /\ \/ poll' = poll
         \/ /\ view.id # NoJob /\ poll'[p].pc = "asked" /\ poll'[p].job = view.id
            /\ poll'[p].since = view.cursor
  <2>1. CASE view.id = NoJob
    BY <1>1, <2>1
  <2>2. CASE view.id # NoJob
    <3>1. PICK j \in Jobs, k \in Nat : j = view.id /\ k = view.cursor
      BY <1>1, <2>2
    <3>2. Ask(p, j, k)
      BY <1>1, <2>2, <3>1
    <3> QED BY <1>1, <2>2, <3>1, <3>2, AskIs
  <2> QED BY <2>1, <2>2
<1>4. \A q \in Polls : poll'[q].pc # "free" => poll'[q].job \in Jobs
  BY <1>1, <1>3 DEF LogTypeOK
<1>5. LogTypeOK'
  BY <1>1, <1>2, <1>3, <1>4 DEF LogTypeOK, PollType
<1>6. /\ LinesAreNewest' /\ Full' /\ Reached' = Reached /\ Seen' = Seen /\ LastShown' = LastShown
  BY <1>1 DEF LogInv, LinesAreNewest, Full, Reached, Seen, LineNumbers, Written, LastShown
<1>7. ASSUME Chain PROVE Chain' /\ opens # 0
  <2>1. view.timer /\ ~view'.timer /\ strays' = 0
    BY <1>2, <1>7 DEF Chain
  <2>2. \A q \in Polls : poll[q].pc = "free"
    BY <1>7, <2>1 DEF Chain, Asking
  <2>3. \A q \in Polls : poll'[q].pc # "free" => q = p
    BY <1>3, <2>2
  <2>4. poll'[p].pc # "free" => Asking(p)'
    BY <1>1, <1>2, <1>3, <1>7, <2>1, <2>2, <2>3 DEF Asking, Chain
  <2>5. opens # 0
    BY <2>1 DEF LogInv, Unopened
  <2> QED BY <1>1, <1>2, <1>6, <1>7, <2>1, <2>3, <2>4, <2>5 DEF Chain
<1>8. LogInv'
  <2>1. opens \in Nat
    BY <1>1 DEF LogTypeOK
  <2> QED BY <1>1, <1>5, <1>6, <1>7, <2>1 DEF LogInv
<1> QED BY <1>6, <1>8, Maps

\* A request that failed ends the tail.
LEMMA FailureKeeps ==
  ASSUME LogInv, NEW p \in Polls, DeliverFailure(p)
  PROVE  LogInv' /\ [TailedView!Next]_(TailedView!vars)
<1>1. /\ LogTypeOK /\ poll[p].pc = "failed" /\ view' = [view EXCEPT !.timer = FALSE]
      /\ poll' = [poll EXCEPT ![p] = NoPoll] /\ poll \in [Polls -> PollType]
      /\ UNCHANGED <<lines, dropped, status, strays, shown, tailed, opens, lost>>
  BY DEF LogInv, LogTypeOK, DeliverFailure, serverVars, PollType
<1>2. /\ view'.id = view.id /\ view'.cursor = view.cursor /\ view'.timer = FALSE
      /\ view' \in [id : Jobs \cup {NoJob}, cursor : Nat, timer : BOOLEAN]
  BY <1>1 DEF LogTypeOK
<1>3. /\ poll' \in [Polls -> PollType] /\ poll'[p].pc = "free"
      /\ \A q \in Polls \ {p} : poll'[q] = poll[q]
  BY <1>1, NoPollIs
<1>4. LogTypeOK'
  BY <1>1, <1>2, <1>3 DEF LogTypeOK, PollType
<1>5. /\ LinesAreNewest' /\ Full' /\ Reached' = Reached /\ Seen' = Seen /\ LastShown' = LastShown
  BY <1>1 DEF LogInv, LinesAreNewest, Full, Reached, Seen, LineNumbers, Written, LastShown
<1>6. ASSUME Chain PROVE Chain'
  <2>1. \A q \in Polls : poll'[q].pc = "free"
    BY <1>1, <1>3, <1>6 DEF Chain, Asking
  <2> QED BY <1>1, <1>2, <1>5, <1>6, <2>1 DEF Chain
<1>7. opens # 0
  BY <1>1 DEF LogInv, Unopened
<1>8. LogInv'
  BY <1>1, <1>4, <1>5, <1>6, <1>7 DEF LogInv
<1> QED BY <1>5, <1>8, Maps

\* The answer is appended, and the cursor is the last line that is shown then.
LEMMA DeliverKeeps ==
  ASSUME LogInv, NEW p \in Polls, Deliver(p)
  PROVE  LogInv' /\ [TailedView!Next]_(TailedView!vars)
<1>1. /\ LogTypeOK /\ poll[p].pc = "answered" /\ poll[p].job \in Jobs
      /\ poll' = [poll EXCEPT ![p] = NoPoll] /\ poll \in [Polls -> PollType]
      /\ UNCHANGED <<lines, dropped, status, tailed, opens, lost>>
  BY DEF LogInv, LogTypeOK, Deliver, serverVars, PollType
<1>2. PICK j \in Jobs, ns \in Seq(Nat), n \in Nat, going \in BOOLEAN :
        /\ j = poll[p].job /\ ns = poll[p].lines /\ n = poll[p].next
        /\ going = (poll[p].status = "running")
  <2>1. poll[p] \in PollType
    BY <1>1
  <2> QED BY <1>1, <2>1 DEF PollType
<1>3. /\ shown' = shown \o Lines(j, ns)
      /\ view' = [view EXCEPT !.cursor = n, !.timer = going]
      /\ strays' = IF going /\ view.timer THEN strays + 1 ELSE strays
  BY <1>2 DEF Deliver
<1>4. /\ view'.id = view.id /\ view'.cursor = n
      /\ view' \in [id : Jobs \cup {NoJob}, cursor : Nat, timer : BOOLEAN]
      /\ strays' \in Nat /\ (~view.timer => strays' = strays)
  <2>1. view \in [id : Jobs \cup {NoJob}, cursor : Nat, timer : BOOLEAN] /\ strays \in Nat
    BY <1>1 DEF LogTypeOK
  <2>2. view' \in [id : Jobs \cup {NoJob}, cursor : Nat, timer : BOOLEAN]
    BY <1>3, <2>1
  <2>3. view'.id = view.id /\ view'.cursor = n
    BY <1>3, <2>1
  <2> QED BY <1>3, <2>1, <2>2, <2>3
<1>5. /\ poll' \in [Polls -> PollType] /\ poll'[p].pc = "free"
      /\ \A q \in Polls \ {p} : poll'[q] = poll[q]
  BY <1>1, NoPollIs
<1>6. PICK s \in Seq([job : Jobs, line : Nat]) : s = shown
  BY <1>1 DEF LogTypeOK
<1>7. /\ shown' \in Seq([job : Jobs, line : Nat]) /\ Len(shown') = Len(s) + Len(ns)
      /\ \A i \in 1 .. Len(ns) : shown'[Len(s) + i].line = ns[i]
      /\ LineNumbers(s) \in Seq(Nat) /\ LineNumbers(shown') = LineNumbers(s) \o ns
  BY <1>3, <1>6, NumbersOf
<1>8. Len(s) \in Nat /\ Len(ns) \in Nat
  BY LenProperties
<1>9. LogTypeOK'
  BY <1>1, <1>4, <1>5, <1>7 DEF LogTypeOK, PollType
<1>10. LinesAreNewest' /\ Full' /\ Reached' = Reached
  BY <1>1 DEF LogInv, LinesAreNewest, Full, Reached, Written
<1>11. opens # 0
  BY <1>1 DEF LogInv, Unopened
<1>12. ASSUME Chain
       PROVE  /\ Chain' /\ n <= Reached
              /\ LastShown <= n /\ ns = Served(LastShown, n)
  <2>1. Asking(p) /\ view.cursor = LastShown /\ view.cursor \in Nat
    BY <1>1, <1>12 DEF Chain, LogTypeOK
  <2>2. PICK k \in Nat : k = view.cursor
    BY <2>1
  <2>3. k <= n /\ n <= Reached /\ ns = Served(k, n) /\ ~view.timer
    BY <1>1, <1>2, <2>1, <2>2 DEF Asking
  <2>4. \A q \in Polls : poll'[q].pc = "free"
    BY <1>5, <2>1 DEF Asking
  <2>5. LastShown' = n
    <3>1. CASE n = k
      <4>1. Len(ns) = 0
        BY <2>3, <3>1, ServedType
      <4>2. Len(shown') = Len(s)
        BY <1>7, <1>8, <4>1
      <4>3. shown' = shown
        <5>1. ns = <<>>
          BY <4>1, EmptySeq
        <5>2. Lines(j, ns) = <<>>
          BY <5>1 DEF Lines
        <5> QED BY <1>3, <1>6, <5>2, ConcatEmptySeq
      <4> QED BY <2>1, <2>2, <3>1, <4>3 DEF LastShown
    <3>2. CASE n # k
      <4>0. n > k
        BY <2>3, <3>2
      <4>1. Len(ns) > 0 /\ ns[Len(ns)] = n
        BY <2>3, <4>0, ServedType
      <4>2. Len(ns) \in 1 .. Len(ns) /\ Len(shown') > 0
        BY <1>7, <1>8, <4>1
      <4>3. shown' # <<>>
        BY <4>2, EmptySeq
      <4> QED BY <1>7, <4>1, <4>2, <4>3 DEF LastShown
    <3> QED BY <3>1, <3>2
  <2> QED BY <1>1, <1>4, <1>10, <1>12, <2>1, <2>2, <2>3, <2>4, <2>5 DEF Chain
<1>13. LogInv'
  BY <1>1, <1>9, <1>10, <1>11, <1>12 DEF LogInv
<1>14. CASE ~(opens <= 1)
  <2>1. Seen' = Seen
    BY <1>1, <1>14 DEF Seen
  <2> QED BY <1>10, <1>13, <2>1, Maps
<1>15. CASE opens <= 1
  <2>1. Chain
    BY <1>15 DEF LogInv
  <2>2. Seen = LineNumbers(s) /\ Seen' = LineNumbers(s) \o ns
    BY <1>1, <1>6, <1>7, <1>15 DEF Seen
  <2>3. (IF Seen = <<>> THEN 0 ELSE Seen[Len(Seen)]) = LastShown
    <3>1. Len(LineNumbers(s)) = Len(s)
      BY <1>7, <1>8, LenProperties DEF LineNumbers
    <3>2. s = <<>> <=> LineNumbers(s) = <<>>
      BY <1>7, <1>8, <3>1, EmptySeq
    <3>3. s # <<>> => LineNumbers(s)[Len(s)] = s[Len(s)].line
      BY <1>8, EmptySeq, LenProperties DEF LineNumbers
    <3> QED BY <1>6, <2>2, <3>1, <3>2, <3>3 DEF LastShown
  <2>4. PICK k : k = IF Seen = <<>> THEN 0 ELSE Seen[Len(Seen)]
    OBVIOUS
  <2>5. k <= n /\ Seen' = Seen \o Served(k, n) /\ n \in 0 .. Reached /\ Reached' = Reached
    <3>1. n <= Reached /\ LastShown <= n /\ ns = Served(LastShown, n) /\ k = LastShown
      BY <1>12, <2>1, <2>3, <2>4
    <3>2. Reached \in Nat /\ Reached' = Reached
      BY <1>1, <1>10, WrittenIs
    <3>3. n \in 0 .. Reached
      BY <3>1, <3>2
    <3> QED BY <2>2, <3>1, <3>2, <3>3
  <2> QED BY <1>13, <2>4, <2>5, Maps
<1> QED BY <1>14, <1>15

\* Every step keeps the invariant, and is one of TailedLog or none.
LEMMA LogStep ==
  ASSUME LogInv, [LogNext]_logVars
  PROVE  LogInv' /\ [TailedView!Next]_(TailedView!vars)
<1>1. /\ LogTypeOK /\ status \in [Jobs -> {"running", "cancelled", "ended"}]
  BY DEF LogInv, LogTypeOK
<1>2. ASSUME NEW j \in Jobs, WriteLine(j) PROVE LogInv' /\ [TailedView!Next]_(TailedView!vars)
  BY <1>1, <1>2, LogGrows DEF WriteLine
<1>3. ASSUME NEW j \in Jobs, NEW s \in {"cancelled", "ended"}, EndWith(j, s)
      PROVE  LogInv' /\ [TailedView!Next]_(TailedView!vars)
  BY <1>1, <1>3, LogGrows DEF EndWith
<1>4. ASSUME /\ UNCHANGED <<lines, dropped, view, strays, shown, tailed, poll, opens, lost>>
             /\ status' \in [Jobs -> {"running", "cancelled", "ended"}]
      PROVE  LogInv' /\ [TailedView!Next]_(TailedView!vars)
  <2>1. /\ LinesAreNewest' /\ Full' /\ Reached' = Reached /\ Seen' = Seen /\ LastShown' = LastShown
    BY <1>4 DEF LogInv, LinesAreNewest, Full, Reached, Seen, LineNumbers, Written, LastShown
  <2>2. LogTypeOK'
    BY <1>1, <1>4 DEF LogTypeOK
  <2>3. (Chain => Chain') /\ (Unopened => Unopened')
    BY <1>4, <2>1 DEF Chain, Asking, Unopened
  <2>4. LogInv'
    BY <1>4, <2>1, <2>2, <2>3 DEF LogInv
  <2> QED BY <2>1, <2>4, Maps
<1>5. ASSUME NEW j \in Jobs, Succeed(j) PROVE LogInv' /\ [TailedView!Next]_(TailedView!vars)
  BY <1>1, <1>4, <1>5 DEF Succeed, modalVars
<1>6. CASE LogRest \/ UNCHANGED logVars
  BY <1>1, <1>4, <1>6 DEF LogRest, logVars
<1> QED
  BY <1>2, <1>3, <1>5, <1>6, OpenKeeps, HideKeeps, ServeKeeps, DeliverKeeps, FailureKeeps, TimerKeeps
  DEF LogNext, Answering, Timers

\* At first nothing is written and nothing is shown.
LEMMA LogFirst == LogInit => LogInv /\ TailedView!Init
<1> SUFFICES ASSUME LogInit PROVE LogInv /\ TailedView!Init
  OBVIOUS
<1>1. <<>> \in Seq(Nat) /\ <<>> \in Seq([job : Jobs, line : Nat]) /\ Len(<<>>) = 0
  BY EmptySeq
<1>2. LogTypeOK
  BY <1>1, NoPollIs DEF LogInit, LogTypeOK, PollType
<1>3. LinesAreNewest /\ Full
  BY <1>1, LogAssumption DEF LogInit, LinesAreNewest, Full
<1>4. Chain /\ Unopened
  BY NoPollIs DEF LogInit, Chain, Unopened, LastShown, Reached
<1>5. TailedView!Init
  BY DEF LogInit, TailedView!Init, LineNumbers
<1> QED BY <1>2, <1>3, <1>4, <1>5 DEF LogInit, LogInv

\* During the first opening of the modal the tail of a log that getJobLines serves and
\* pollJob appends is that of TailedLog, for any buffer, any number of jobs and requests,
\* and whatever is lost on the way: nothing twice, nothing out of order, and nothing left
\* out but what the server had dropped.  Of a second opening it says nothing.
THEOREM LogIsTailed == LogSpec => TailsFaithfully
<1>1. LogInv /\ [LogNext]_logVars => LogInv' /\ [TailedView!Next]_(TailedView!vars)
  BY LogStep
<1> QED BY <1>1, LogFirst, PTL DEF LogSpec, TailsFaithfully, TailedView!Spec
=============================================================================
