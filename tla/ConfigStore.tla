----------------------------- MODULE ConfigStore -----------------------------
(***************************************************************************)
(* server/src/config/store.ts: config.json behind a promise queue.         *)
(*                                                                         *)
(* update() chains its work behind every earlier update: clone the current *)
(* value, mutate and validate the clone, write it to a temporary file,     *)
(* rename that over config.json, and only then make it the current value.  *)
(* Every file operation is awaited, so readers, further calls of update()  *)
(* and the death of the process come in between.  At boot init() reads the *)
(* file and writes it once more through the same queue, before the server  *)
(* listens.                                                                *)
(***************************************************************************)
EXTENDS Naturals, Sequences

CONSTANTS
  Clients,          \* callers of update()
  Ops,              \* mutations they may ask for
  Apply(_, _),      \* the clone after the mutator ran
  Valid(_),         \* does AppConfigSchema accept it
  Configs,          \* values of the config
  Default,          \* defaultConfig()
  Boot,             \* the caller init() is
  Seed,             \* init()'s mutation: instance id and env seeds
  Torn,             \* contents of a file that was not written to the end
  None,
  MaxUpdates,       \* bound: calls of update()
  MaxFaults,        \* bound: file operations that fail
  MaxCrashes        \* bound: deaths of the process

ASSUME StoreAssumption ==
  /\ Boot \in Clients /\ Seed \in Ops
  /\ Default \in Configs /\ Valid(Default)
  /\ \A v \in Configs, o \in Ops : Apply(v, o) \in Configs
  /\ \A v \in Configs, o \in Ops : Valid(Apply(v, o)) \in BOOLEAN
  /\ Torn \notin Configs /\ None \notin Configs
  /\ MaxUpdates \in Nat /\ MaxFaults \in Nat /\ MaxCrashes \in Nat

VARIABLES
  current,   \* what get() returns
  queue,     \* the promise chain: [client, op], the first one is running
  phase,     \* the file operation it awaits
  draft,     \* its clone
  file,      \* config.json: a value, or None while there is none
  tmp,       \* the temporary file: a value, Torn or None
  up,        \* "down", "booting" or "up"
  updates, faults, crashes

vars == <<current, queue, phase, draft, file, tmp, up, updates, faults, crashes>>
storeVars == <<current, queue, phase, draft, file, tmp>>

Phases == {"idle", "open", "write", "rename", "commit"}

Init ==
  /\ current = Default
  /\ queue = <<>>
  /\ phase = "idle"
  /\ draft = Default
  /\ file = None /\ tmp = None
  /\ up = "down"
  /\ updates = 0 /\ faults = 0 /\ crashes = 0

Fault == faults < MaxFaults /\ faults' = faults + 1
Fine  == UNCHANGED faults

-----------------------------------------------------------------------------
\* init(): no file is a first boot; what it mutates goes through the queue
Start ==
  /\ up = "down"
  /\ up' = "booting"
  /\ current' = IF file = None THEN Default ELSE file
  /\ queue' = <<[client |-> Boot, op |-> Seed]>>
  /\ UNCHANGED <<phase, draft, file, tmp, updates, faults, crashes>>

\* update(): one call per client at a time, it awaits the answer
Update(c, o) ==
  /\ up = "up"
  /\ c # Boot
  /\ \A i \in DOMAIN queue : queue[i].client # c
  /\ updates < MaxUpdates
  /\ updates' = updates + 1
  /\ queue' = Append(queue, [client |-> c, op |-> o])
  /\ UNCHANGED <<current, phase, draft, file, tmp, up, faults, crashes>>

\* the promise settles and the next update in the chain may run; when it is
\* init() that failed the process exits
Reject ==
  /\ queue' = Tail(queue)
  /\ phase' = "idle"
  /\ up' = IF up = "booting" THEN "down" ELSE up
  /\ UNCHANGED <<current, draft, file>>

\* the clone is taken when the update runs, not when it was asked for
Mutate ==
  LET next == Apply(current, Head(queue).op) IN
  /\ queue # <<>>
  /\ phase = "idle"
  /\ IF Valid(next)
     THEN draft' = next /\ phase' = "open" /\ UNCHANGED <<current, queue, file, up>>
     ELSE Reject
  /\ UNCHANGED <<tmp, updates, faults, crashes>>

\* fs.open(tmp, 'w') truncates
Open ==
  /\ phase = "open"
  /\ \/ Fault /\ Reject /\ UNCHANGED tmp
     \/ /\ Fine
        /\ tmp' = Torn
        /\ phase' = "write"
        /\ UNCHANGED <<current, queue, draft, file, up>>
  /\ UNCHANGED <<updates, crashes>>

\* mutant: goes on when the write failed
WriteUnchecked ==
  /\ phase = "write"
  /\ phase' = "rename"
  /\ (Fault /\ UNCHANGED tmp) \/ (Fine /\ tmp' = draft)
  /\ UNCHANGED <<current, queue, draft, file, up, updates, crashes>>

\* writeFile, sync and close; one that fails leaves a file cut short
Write ==
  /\ phase = "write"
  /\ \/ Fault /\ Reject /\ UNCHANGED tmp
     \/ /\ Fine
        /\ tmp' = draft
        /\ phase' = "rename"
        /\ UNCHANGED <<current, queue, draft, file, up>>
  /\ UNCHANGED <<updates, crashes>>

\* the step that makes an update happen
Rename ==
  /\ phase = "rename"
  /\ \/ Fault /\ Reject /\ UNCHANGED tmp
     \/ /\ Fine
        /\ file' = tmp
        /\ tmp' = None
        /\ phase' = "commit"
        /\ UNCHANGED <<current, queue, draft, up>>
  /\ UNCHANGED <<updates, crashes>>

\* mutant: a failed chmod fails the update that is on disk already
CommitChecked ==
  /\ phase = "commit"
  /\ \/ Fault /\ Reject
     \/ /\ Fine
        /\ current' = draft
        /\ queue' = Tail(queue)
        /\ phase' = "idle"
        /\ up' = "up"
        /\ UNCHANGED <<draft, file>>
  /\ UNCHANGED <<tmp, updates, crashes>>

\* chmod, whose failure is ignored; then current, 'change' and the answer
Commit ==
  /\ phase = "commit"
  /\ current' = draft
  /\ queue' = Tail(queue)
  /\ phase' = "idle"
  /\ up' = "up"
  /\ UNCHANGED <<draft, file, tmp, updates, faults, crashes>>

\* the process dies: the files stay as they are
Crash ==
  /\ up # "down"
  /\ crashes < MaxCrashes
  /\ crashes' = crashes + 1
  /\ up' = "down"
  /\ queue' = <<>>
  /\ phase' = "idle"
  /\ UNCHANGED <<current, draft, file, tmp, updates, faults>>

Rest == up = "up" /\ queue = <<>> /\ UNCHANGED vars

Work == Mutate \/ Open \/ Write \/ Rename \/ Commit

Next ==
  \/ Start
  \/ \E c \in Clients, o \in Ops : Update(c, o)
  \/ Work
  \/ Crash
  \/ Rest

Spec == Init /\ [][Next]_vars

-----------------------------------------------------------------------------
(* Properties. *)

Update_ == [client : Clients, op : Ops]

TypeOK ==
  /\ current \in Configs
  /\ queue \in Seq(Update_)
  /\ phase \in Phases
  /\ draft \in Configs
  /\ file \in Configs \cup {None}
  /\ tmp \in Configs \cup {None, Torn}
  /\ up \in {"down", "booting", "up"}
  /\ updates \in Nat /\ faults \in Nat /\ crashes \in Nat

\* Whenever the process dies, the next boot finds a config.json the schema
\* accepts, or none at all: the ".corrupt" branch of init() is never of the
\* program's own making.
BootFindsValidFile == file = None \/ (file \in Configs /\ Valid(file))

\* What get() returns is what a crash would bring back, except between the
\* rename of an update and its answer.
CurrentIsOnDisk ==
  up = "up" /\ phase # "commit" => file = current

Abstract ==
  INSTANCE AtomicStore WITH
    stored <- IF file = None THEN Default ELSE file,
    seen   <- IF up = "down" THEN (IF file = None THEN Default ELSE file) ELSE current,
    taken  <- phase = "commit"

\* Updates are atomic, in order, and answered with the truth, whatever file
\* operation fails and whenever the process dies.
StoresAtomically == Abstract!Spec
=============================================================================
