-------------------------- MODULE ConfigStoreProofs --------------------------
(***************************************************************************)
(* For any config, any mutations, any number of callers, failures and      *)
(* crashes: ConfigStore implements AtomicStore.                            *)
(*                                                                         *)
(* The argument is about the update at the head of the queue.  From its    *)
(* validation on, the clone is what the mutation makes of the current      *)
(* value; once written, the temporary file is the clone; once renamed,     *)
(* config.json is.  Whenever no rename waits for its answer, config.json   *)
(* is the current value, so the rename is the abstract Take.               *)
(*                                                                         *)
(* For any files, of any version, any seeds and any deaths: a start of     *)
(* ConfigBoot loses nothing.  What has been read says the same as the file *)
(* through every migration, and a copy of each version below the one that  *)
(* is being read is there or known not to be.                              *)
(***************************************************************************)
EXTENDS ConfigStore, ConfigBoot, SequenceTheorems, TLAPS

OnDisk == IF file = None THEN Default ELSE file

\* the update at the head of the queue, phase by phase
HeadOK ==
  /\ phase # "idle" => /\ queue # <<>>
                       /\ draft = Apply(current, Head(queue).op)
                       /\ Valid(draft)
  /\ phase = "rename" => tmp = draft
  /\ phase = "commit" => file = draft

DiskOK ==
  /\ up = "down" => queue = <<>>
  /\ up = "booting" => queue # <<>> /\ Tail(queue) = <<>>
  /\ up # "down" /\ phase # "commit" => current = OnDisk
  /\ up = "up" => file # None
  /\ file # None => Valid(file)

IInv == TypeOK /\ HeadOK /\ DiskOK

\* The head of a queue is an update, and stays the head when one more joins.
LEMMA Queues ==
  ASSUME NEW q \in Seq(Update_)
  PROVE  /\ q # <<>> => Head(q) \in Update_ /\ Tail(q) \in Seq(Update_)
         /\ \A u \in Update_ : /\ Append(q, u) \in Seq(Update_)
                               /\ Append(q, u) # <<>>
                               /\ q # <<>> => Head(Append(q, u)) = Head(q)
<1>1. q # <<>> => Head(q) \in Update_ /\ Tail(q) \in Seq(Update_)
  BY HeadTailProperties
<1>2. ASSUME NEW u \in Update_
      PROVE  /\ Append(q, u) \in Seq(Update_)
             /\ Append(q, u) # <<>>
             /\ q # <<>> => Head(Append(q, u)) = Head(q)
  <2>1. Append(q, u) \in Seq(Update_) /\ Append(q, u) # <<>> /\ Len(Append(q, u)) = Len(q) + 1
    BY AppendProperties
  <2>2. ASSUME q # <<>> PROVE Append(q, u)[1] = q[1]
    <3>1. 1 \in 1 .. Len(q)
      BY <2>2, EmptySeq
    <3> QED
      BY <3>1, AppendProperties
  <2> QED
    BY <2>1, <2>2
<1> QED
  BY <1>1, <1>2

\* init() is alone in the queue: the server listens only when it is through.
LEMMA BootQueue ==
  ASSUME NEW u
  PROVE  <<u>> # <<>> /\ Tail(<<u>>) = <<>> /\ Head(<<u>>) = u
OBVIOUS

\* Refusing the head of the queue keeps the invariant.
LEMMA RejectKeeps ==
  ASSUME IInv, queue # <<>>, phase # "commit", Reject,
         tmp' \in Configs \cup {None, Torn}, faults' \in Nat,
         UNCHANGED <<updates, crashes>>
  PROVE  IInv'
<1>1. queue' \in Seq(Update_)
  BY Queues DEF Reject, IInv, TypeOK
<1>2. TypeOK'
  BY <1>1 DEF Reject, IInv, TypeOK, Phases
<1>3. HeadOK'
  BY DEF Reject, HeadOK
<1>4. DiskOK'
  BY DEF Reject, IInv, TypeOK, DiskOK, OnDisk
<1> QED
  BY <1>2, <1>3, <1>4 DEF IInv

\* Every step keeps the invariant.
LEMMA Inductive ==
  /\ Init => IInv
  /\ IInv /\ [Next]_vars => IInv'
<1> USE StoreAssumption DEF Update_
<1>1. Init => IInv
  BY DEF Init, IInv, TypeOK, HeadOK, DiskOK, OnDisk, Phases
<1>2. ASSUME IInv, [Next]_vars
      PROVE  IInv'
  <2> USE <1>2 DEF IInv
  <2>1. CASE Start
    BY <2>1, BootQueue DEF Start, TypeOK, HeadOK, DiskOK, OnDisk, Phases
  <2>2. ASSUME NEW c \in Clients, NEW o \in Ops, Update(c, o)
        PROVE  IInv'
    <3>1. [client |-> c, op |-> o] \in Update_
      OBVIOUS
    <3> QED
      BY <2>2, <3>1, Queues DEF Update, TypeOK, HeadOK, DiskOK, OnDisk
  <2>3. CASE Mutate
    <3>1. CASE Reject
      BY <2>3, <3>1, RejectKeeps DEF Mutate, TypeOK
    <3>2. CASE ~Reject
      <4>1. Head(queue) \in Update_
        BY <2>3, Queues DEF Mutate, TypeOK
      <4> QED
        BY <2>3, <3>2, <4>1 DEF Mutate, TypeOK, HeadOK, DiskOK, OnDisk, Phases
    <3> QED
      BY <3>1, <3>2
  <2>4. CASE Open
    <3>1. CASE Reject
      BY <2>4, <3>1, RejectKeeps DEF Open, Fault, Fine, TypeOK, HeadOK
    <3>2. CASE ~Reject
      BY <2>4, <3>2 DEF Open, Fine, TypeOK, HeadOK, DiskOK, OnDisk, Phases
    <3> QED
      BY <3>1, <3>2
  <2>5. CASE Write
    <3>1. CASE Reject
      BY <2>5, <3>1, RejectKeeps DEF Write, Fault, Fine, TypeOK, HeadOK
    <3>2. CASE ~Reject
      BY <2>5, <3>2 DEF Write, Fine, TypeOK, HeadOK, DiskOK, OnDisk, Phases
    <3> QED
      BY <3>1, <3>2
  <2>6. CASE Rename
    <3>1. CASE Reject
      BY <2>6, <3>1, RejectKeeps DEF Rename, Fault, Fine, TypeOK, HeadOK
    <3>2. CASE ~Reject
      BY <2>6, <3>2 DEF Rename, Fine, TypeOK, HeadOK, DiskOK, OnDisk, Phases
    <3> QED
      BY <3>1, <3>2
  <2>7. CASE Commit
    BY <2>7, Queues DEF Commit, TypeOK, HeadOK, DiskOK, OnDisk, Phases
  <2>8. CASE Crash
    BY <2>8 DEF Crash, TypeOK, HeadOK, DiskOK, OnDisk, Phases
  <2>9. CASE UNCHANGED vars
    BY <2>9 DEF vars, TypeOK, HeadOK, DiskOK, OnDisk
  <2> QED
    BY <2>1, <2>2, <2>3, <2>4, <2>5, <2>6, <2>7, <2>8, <2>9 DEF Next, Work, Rest
<1> QED
  BY <1>1, <1>2

-----------------------------------------------------------------------------
\* A crash at any file operation leaves a config.json that boots.
THEOREM BootsAgain == Spec => []BootFindsValidFile
<1>1. IInv => BootFindsValidFile
  BY DEF IInv, TypeOK, DiskOK, BootFindsValidFile
<1> QED
  BY <1>1, Inductive, PTL DEF Spec

\* What readers are given is on disk, but for the moment between a rename and
\* the answer.
THEOREM ReadsWhatIsStored == Spec => []CurrentIsOnDisk
<1>1. IInv => CurrentIsOnDisk
  BY DEF IInv, TypeOK, DiskOK, OnDisk, CurrentIsOnDisk
<1> QED
  BY <1>1, Inductive, PTL DEF Spec

\* Every update is on disk entirely or not at all, in the order it was asked
\* for, and its caller is told which: the rename is where it happens.
THEOREM Implements == Spec => StoresAtomically
<1> USE StoreAssumption DEF OnDisk
<1>1. Init => Abstract!Init
  BY DEF Init, Abstract!Init
<1>2. ASSUME IInv, IInv', [Next]_vars
      PROVE  [Abstract!Next]_Abstract!vars
  <2> USE <1>2 DEF IInv, Abstract!vars
  <2>0. ASSUME Reject, queue # <<>>, phase # "commit"
        PROVE  Abstract!Next
    <3>1. Abstract!AnswerFailed
      BY <2>0 DEF Reject, Abstract!AnswerFailed, TypeOK, DiskOK
    <3> QED
      BY <3>1 DEF Abstract!Next
  <2>1. CASE Start
    <3>1. queue = <<>> /\ queue' = Append(queue, [client |-> Boot, op |-> Seed])
      BY <2>1 DEF Start, DiskOK
    <3>2. Abstract!Ask(Boot, Seed)
      BY <2>1, <3>1 DEF Start, Abstract!Ask
    <3> QED
      BY <3>2 DEF Abstract!Next
  <2>2. ASSUME NEW c \in Clients, NEW o \in Ops, Update(c, o)
        PROVE  Abstract!Next
    <3>1. Abstract!Ask(c, o)
      BY <2>2 DEF Update, Abstract!Ask
    <3> QED
      BY <3>1 DEF Abstract!Next
  <2>3. CASE Mutate
    BY <2>0, <2>3 DEF Mutate
  <2>4. CASE Open
    BY <2>0, <2>4 DEF Open, HeadOK
  <2>5. CASE Write
    BY <2>0, <2>5 DEF Write, HeadOK
  <2>6. CASE Rename
    <3>1. CASE file' = tmp /\ phase' = "commit" /\ UNCHANGED <<current, queue, draft, up>>
      <4>1. up # "down" /\ queue # <<>> /\ tmp = draft /\ draft = Apply(current, Head(queue).op)
            /\ Valid(draft) /\ current = OnDisk /\ draft # None
        BY <2>6 DEF Rename, HeadOK, DiskOK, TypeOK
      <4>2. Abstract!Take
        BY <2>6, <3>1, <4>1 DEF Rename, Abstract!Take
      <4> QED
        BY <4>2 DEF Abstract!Next
    <3> QED
      BY <2>0, <2>6, <3>1 DEF Rename, HeadOK
  <2>7. CASE Commit
    <3>1. Abstract!AnswerOk
      BY <2>7 DEF Commit, Abstract!AnswerOk, HeadOK, TypeOK
    <3> QED
      BY <3>1 DEF Abstract!Next
  <2>8. CASE Crash
    BY <2>8 DEF Crash, Abstract!Next, Abstract!Crash
  <2>9. CASE UNCHANGED vars
    BY <2>9 DEF vars
  <2> QED
    BY <2>1, <2>2, <2>3, <2>4, <2>5, <2>6, <2>7, <2>8, <2>9 DEF Next, Work, Rest
<1> QED
  BY <1>1, <1>2, Inductive, PTL DEF Spec, StoresAtomically, Abstract!Spec

-----------------------------------------------------------------------------
(* A start of the server.                                                  *)

\* a copy of each step from the version that was found is there, or known not to be
Copied(n) ==
  \A v \in Old : config.version <= v /\ v < n =>
    v \in stale \/ (/\ Readable(kept[v]) /\ kept[v].version = v
                    /\ Facts(kept[v]) = Facts(config)
                    /\ Secrets(kept[v]) = Secrets(config))

SaysTheSame(f, g) ==
  Facts(f) = Facts(g) /\ Secrets(f) = Secrets(g) /\ HostsIn(f) = HostsIn(g)

\* what has been read is what is in the file, until it is stored
Reading ==
  /\ Doing("migrate") =>
       /\ Readable(config) /\ SaysTheSame(init.read, config)
       /\ init.read.sound = config.sound /\ Copied(init.read.version)
  /\ Doing("aside") /\ Readable(config) => ~config.sound /\ Copied(CurrentVersion)
  /\ Doing("seed") /\ Readable(config) =>
       /\ Copied(CurrentVersion)
       /\ config.sound => SaysTheSame(init.read, config) /\ init.read.version >= CurrentVersion
  /\ Doing("seed") /\ TurnedDown(config) => init.unmoved = TRUE

BootInv == BootTypeOK /\ Reading

\* What can be read is a config of some version.
LEMMA ReadableIs ==
  ASSUME NEW f \in ConfigFile \cup {NoConfig, Garbage}
  PROVE  Readable(f) <=> f \in ConfigFile
BY BootAssumption DEF Readable

\* What tells two files apart.
LEMMA SameFacts ==
  ASSUME NEW f, NEW g, HostsIn(f) = HostsIn(g), BoxesIn(f) = BoxesIn(g),
         {x \in f.named : x.sound} = {x \in g.named : x.sound},
         f.password = g.password, f.instance = g.instance
  PROVE  Facts(f) = Facts(g)
BY DEF Facts

\* What tells that a file says no less than another.
LEMMA MoreFacts ==
  ASSUME NEW f, NEW g, HostsIn(f) \subseteq HostsIn(g), BoxesIn(f) = BoxesIn(g),
         f.named = g.named, f.password = g.password,
         f.instance # 0 => g.instance = f.instance
  PROVE  Facts(f) \subseteq Facts(g)
<1>1. ASSUME NEW w \in BoxesIn(f) \X HostsIn(f)
      PROVE  w \in BoxesIn(g) \X HostsIn(g)
  OBVIOUS
<1>2. {w \in BoxesIn(f) \X HostsIn(f) : w[1].host = w[2].id}
        \subseteq {w \in BoxesIn(g) \X HostsIn(g) : w[1].host = w[2].id}
  BY <1>1
<1>3. {f.instance} \ {0} \subseteq {g.instance} \ {0}
  OBVIOUS
<1> QED BY <1>2, <1>3 DEF Facts

\* A host that is written stays.
LEMMA BelongsOnce ==
  ASSUME NEW b \in [name : Words, host : Words]
  PROVE  Belongs(b) \in [name : Words, host : Words] /\ Belongs(Belongs(b)) = Belongs(b)
<1>1. "default" \in Words
  BY BootAssumption
<1>2. CASE b.host = "unwritten"
  <2>1. PICK c : c = [b EXCEPT !.host = "default"]
    OBVIOUS
  <2>2. c \in [name : Words, host : Words] /\ c.host = "default"
    BY <1>1, <2>1
  <2> QED BY <1>2, <2>1, <2>2 DEF Belongs
<1>3. CASE b.host # "unwritten"
  BY <1>3 DEF Belongs
<1> QED BY <1>2, <1>3

\* So reading them twice is like reading them once.
LEMMA BoxesOnce ==
  ASSUME NEW B \in SUBSET [name : Words, host : Words]
  PROVE  /\ {Belongs(b) : b \in B} \in SUBSET [name : Words, host : Words]
         /\ {Belongs(b) : b \in {Belongs(d) : d \in B}} = {Belongs(b) : b \in B}
<1>1. \A b \in B : Belongs(b) \in [name : Words, host : Words] /\ Belongs(Belongs(b)) = Belongs(b)
  BY BelongsOnce
<1> QED BY <1>1

Hosted(f) ==
  [f EXCEPT !.version = 2, !.backend = "gone", !.key = "none",
     !.hosts = HostsIn(f), !.creds = KeysIn(f), !.boxes = {Belongs(b) : b \in @}]
Listed(f) ==
  [f EXCEPT !.version = 3, !.list = "containers",
     !.boxes = IF f.list = "sessions" THEN @ ELSE {}]

\* From one backend to hosts and credentials.
LEMMA HostsKeep ==
  ASSUME NEW f \in ConfigFile, f.version = 1
  PROVE  /\ Hosted(f) \in ConfigFile /\ Hosted(f).version = 2 /\ Hosted(f).sound = f.sound
         /\ SaysTheSame(Hosted(f), f)
<1>0. PICK g : g = Hosted(f)
  OBVIOUS
<1>1. /\ HostsIn(f) \in SUBSET [id : Words, by : Words]
      /\ KeysIn(f) \in SUBSET [id : Words, key : Words]
  BY BootAssumption DEF HostsIn, KeysIn, ConfigFile
<1>b. f.boxes \in SUBSET [name : Words, host : Words]
  BY DEF ConfigFile
<1>2. PICK bs \in SUBSET [name : Words, host : Words] :
        /\ bs = {Belongs(b) : b \in f.boxes}
        /\ {Belongs(b) : b \in bs} = bs
  BY <1>b, BoxesOnce
<1>3. g = [f EXCEPT !.version = 2, !.backend = "gone", !.key = "none",
             !.hosts = HostsIn(f), !.creds = KeysIn(f), !.boxes = bs]
  BY <1>0, <1>2 DEF Hosted
<1>w. {"gone", "none"} \subseteq Words
  BY BootAssumption
<1>f. /\ f.list \in Words /\ f.named \in SUBSET [what : Words, sound : BOOLEAN]
      /\ f.password \in Words /\ f.instance \in Nat /\ f.sound \in BOOLEAN
  BY DEF ConfigFile
<1>g. g = [version |-> 2, backend |-> "gone", key |-> "none", hosts |-> HostsIn(f),
           creds |-> KeysIn(f), list |-> f.list, boxes |-> bs, named |-> f.named,
           password |-> f.password, instance |-> f.instance, sound |-> f.sound]
  BY <1>3 DEF ConfigFile
<1>4. g \in ConfigFile
  BY <1>1, <1>g, <1>w, <1>f DEF ConfigFile
<1>5. /\ g.version = 2 /\ g.sound = f.sound /\ g.hosts = HostsIn(f) /\ g.creds = KeysIn(f)
      /\ g.boxes = bs /\ g.list = f.list /\ g.named = f.named /\ g.password = f.password
      /\ g.instance = f.instance
  BY <1>g
<1>6. HostsIn(g) = HostsIn(f) /\ KeysIn(g) = KeysIn(f) /\ BoxesIn(g) = BoxesIn(f)
  <2>1. HostsIn(g) = g.hosts
    BY <1>5 DEF HostsIn
  <2>2. KeysIn(g) = g.creds
    BY <1>5 DEF KeysIn
  <2>3. BoxesIn(g) = IF f.list = "sessions" THEN {Belongs(b) : b \in bs} ELSE {}
    BY <1>5 DEF BoxesIn
  <2>4. BoxesIn(f) = IF f.list = "sessions" THEN {Belongs(b) : b \in f.boxes} ELSE {}
    BY DEF BoxesIn
  <2> QED BY <1>2, <1>5, <2>1, <2>2, <2>3, <2>4
<1>7. Facts(g) = Facts(f)
  BY <1>5, <1>6, SameFacts
<1> QED BY <1>0, <1>4, <1>5, <1>6, <1>7 DEF SaysTheSame, Secrets

\* From sessions to containers.
LEMMA ContainersKeep ==
  ASSUME NEW f \in ConfigFile, f.version = 2
  PROVE  /\ Listed(f) \in ConfigFile /\ Listed(f).version = 3 /\ Listed(f).sound = f.sound
         /\ SaysTheSame(Listed(f), f)
<1>0. PICK g : g = Listed(f)
  OBVIOUS
<1>1. PICK bs \in SUBSET [name : Words, host : Words] :
        bs = IF f.list = "sessions" THEN f.boxes ELSE {}
  BY DEF ConfigFile
<1>2. g = [f EXCEPT !.version = 3, !.list = "containers", !.boxes = bs]
  BY <1>0, <1>1 DEF Listed
<1>w. "containers" \in Words
  BY BootAssumption
<1>f. /\ f.backend \in Words /\ f.key \in Words /\ f.hosts \in SUBSET [id : Words, by : Words]
      /\ f.creds \in SUBSET [id : Words, key : Words]
      /\ f.named \in SUBSET [what : Words, sound : BOOLEAN]
      /\ f.password \in Words /\ f.instance \in Nat /\ f.sound \in BOOLEAN
  BY DEF ConfigFile
<1>g. g = [version |-> 3, backend |-> f.backend, key |-> f.key, hosts |-> f.hosts,
           creds |-> f.creds, list |-> "containers", boxes |-> bs, named |-> f.named,
           password |-> f.password, instance |-> f.instance, sound |-> f.sound]
  BY <1>2 DEF ConfigFile
<1>3. g \in ConfigFile
  BY <1>g, <1>w, <1>f DEF ConfigFile
<1>4. /\ g.version = 3 /\ g.sound = f.sound /\ g.hosts = f.hosts /\ g.creds = f.creds
      /\ g.boxes = bs /\ g.list = "containers" /\ g.named = f.named /\ g.password = f.password
      /\ g.instance = f.instance
  BY <1>g
<1>5. HostsIn(g) = HostsIn(f) /\ KeysIn(g) = KeysIn(f) /\ BoxesIn(g) = BoxesIn(f)
  BY <1>1, <1>4 DEF HostsIn, KeysIn, BoxesIn
<1>6. Facts(g) = Facts(f)
  BY <1>4, <1>5, SameFacts
<1> QED BY <1>0, <1>3, <1>4, <1>5, <1>6 DEF SaysTheSame, Secrets

\* To profiles.
LEMMA ProfilesKeep ==
  ASSUME NEW f \in ConfigFile, f.version = 3, NEW g, g = [f EXCEPT !.version = 4]
  PROVE  g \in ConfigFile /\ g.version = 4 /\ g.sound = f.sound /\ SaysTheSame(g, f)
<1>1. g \in ConfigFile
  BY DEF ConfigFile
<1>2. /\ g.version = 4 /\ g.sound = f.sound /\ g.hosts = f.hosts /\ g.creds = f.creds
      /\ g.boxes = f.boxes /\ g.list = f.list /\ g.named = f.named /\ g.password = f.password
      /\ g.instance = f.instance
  BY DEF ConfigFile
<1>3. HostsIn(g) = HostsIn(f) /\ KeysIn(g) = KeysIn(f) /\ BoxesIn(g) = BoxesIn(f)
  BY <1>2 DEF HostsIn, KeysIn, BoxesIn
<1>4. Facts(g) = Facts(f)
  BY <1>2, <1>3, SameFacts
<1> QED BY <1>1, <1>2, <1>3, <1>4 DEF SaysTheSame, Secrets

\* What the schema drops was not there for anybody.
LEMMA ParsedKeeps ==
  ASSUME NEW f \in ConfigFile, f.version >= CurrentVersion
  PROVE  Parsed(f) \in ConfigFile /\ Parsed(f).version = f.version /\ SaysTheSame(Parsed(f), f)
<1>1. PICK g : g = Parsed(f)
  OBVIOUS
<1>b. f.boxes \in SUBSET [name : Words, host : Words]
  BY DEF ConfigFile
<1>2. PICK bs \in SUBSET [name : Words, host : Words] :
        /\ bs = IF f.list = "containers" THEN {Belongs(b) : b \in f.boxes} ELSE {}
        /\ f.list = "containers" => {Belongs(b) : b \in bs} = bs
  <2>1. CASE f.list = "containers"
    BY <1>b, <2>1, BoxesOnce
  <2>2. CASE f.list # "containers"
    BY <2>2
  <2> QED BY <2>1, <2>2
<1>3. PICK ns \in SUBSET [what : Words, sound : BOOLEAN] :
        /\ ns = {x \in f.named : x.sound} /\ {x \in ns : x.sound} = ns
  BY DEF ConfigFile
<1>4. g = [f EXCEPT !.named = ns, !.boxes = bs]
  BY <1>1, <1>2, <1>3 DEF Parsed
<1>5. g \in ConfigFile
  BY <1>4 DEF ConfigFile
<1>6. /\ g.version = f.version /\ g.hosts = f.hosts /\ g.creds = f.creds
      /\ g.boxes = bs /\ g.list = f.list /\ g.named = ns /\ g.password = f.password
      /\ g.instance = f.instance
  BY <1>4 DEF ConfigFile
<1>7. f.version \in Nat /\ f.version > 1 /\ ~(f.version < 3)
  BY DEF ConfigFile, CurrentVersion
<1>8. HostsIn(g) = HostsIn(f) /\ KeysIn(g) = KeysIn(f) /\ BoxesIn(g) = BoxesIn(f)
  BY <1>2, <1>6, <1>7 DEF HostsIn, KeysIn, BoxesIn
<1>9. Facts(g) = Facts(f)
  BY <1>3, <1>6, <1>8, SameFacts
<1> QED BY <1>1, <1>5, <1>6, <1>8, <1>9 DEF SaysTheSame, Secrets

-----------------------------------------------------------------------------
\* A copy that is kept, or known not to be, for the next version.
LEMMA BackupCopies ==
  ASSUME BootTypeOK, Reading, Doing("migrate"), init.read.version \in Old,
         Backup(init.read.version, init.read)
  PROVE  /\ kept' \in [Old -> ConfigFile \cup {NoConfig, Garbage}]
         /\ stale' \subseteq Old
         /\ spent' \in [boots : Nat, edits : Nat, hands : Nat, failures : Nat]
         /\ \A v \in Old : config.version <= v /\ v < init.read.version + 1 =>
              v \in stale' \/ (/\ Readable(kept'[v]) /\ kept'[v].version = v
                             /\ Facts(kept'[v]) = Facts(config)
                             /\ Secrets(kept'[v]) = Secrets(config))
<1>1. PICK r, n : r = init.read /\ n = init.read.version
  OBVIOUS
<1>2. r \in ConfigFile /\ n \in Old /\ n = r.version
  BY <1>1 DEF BootTypeOK
<1>3. Readable(r) /\ SaysTheSame(r, config) /\ Copied(n)
  BY <1>1, <1>2, ReadableIs DEF Reading
<1>4. Facts(r) = Facts(config) /\ Secrets(r) = Secrets(config)
  BY <1>3 DEF SaysTheSame
<1>5. Backup(n, r)
  BY <1>1
<1>6. spent' \in [boots : Nat, edits : Nat, hands : Nat, failures : Nat]
  <2>1. spent' = spent \/ spent' = [spent EXCEPT !["failures"] = @ + 1]
    BY <1>5 DEF Backup, GoesWell, GoesWrong, Spend
  <2> QED BY <2>1 DEF BootTypeOK
<1>7. /\ kept' = kept \/ (kept[n] = NoConfig /\ kept' = [kept EXCEPT ![n] = r])
      /\ stale \subseteq stale' /\ stale' \subseteq stale \cup {n}
      /\ n \in stale' \/ kept'[n] = r
  BY <1>2, <1>5 DEF Backup, BootTypeOK
<1>8. kept' \in [Old -> ConfigFile \cup {NoConfig, Garbage}] /\ stale' \subseteq Old
  BY <1>2, <1>7 DEF BootTypeOK
<1>9. ASSUME NEW v \in Old, config.version <= v, v < n + 1
      PROVE  v \in stale' \/ (/\ Readable(kept'[v]) /\ kept'[v].version = v
                             /\ Facts(kept'[v]) = Facts(config)
                             /\ Secrets(kept'[v]) = Secrets(config))
  <2>1. CASE v = n
    BY <1>2, <1>3, <1>4, <1>7, <2>1
  <2>2. CASE v # n
    <3>1. v < n
      BY <1>2, <1>9, <2>2 DEF Old, CurrentVersion
    <3>2. kept'[v] = kept[v]
      BY <1>7, <2>2 DEF BootTypeOK
    <3>3. v \in stale \/ (/\ Readable(kept[v]) /\ kept[v].version = v
                           /\ Facts(kept[v]) = Facts(config)
                           /\ Secrets(kept[v]) = Secrets(config))
      BY <1>3, <1>9, <3>1 DEF Copied
    <3> QED BY <1>7, <3>2, <3>3
  <2> QED BY <2>1, <2>2
<1> QED BY <1>1, <1>6, <1>8, <1>9

\* Saying the same is an equivalence.
LEMMA SameAgain ==
  ASSUME NEW f, NEW g, NEW h, SaysTheSame(f, g), SaysTheSame(g, h)
  PROVE  SaysTheSame(f, h)
BY DEF SaysTheSame

\* What the next step of a start begins with.
LEMMA NextStep ==
  ASSUME BootTypeOK,
         NEW s \in {"down", "aside", "migrate", "seed", "password", "up"},
         NEW f \in ConfigFile, Do(s, f)
  PROVE  /\ init' \in [step : {"down", "aside", "migrate", "seed", "password", "up"},
                       read : ConfigFile, seeds : {"none", "socket", "portainer"},
                       password : BOOLEAN, unmoved : BOOLEAN]
         /\ init'.step = s /\ init'.read = f /\ init'.seeds = init.seeds
<1>1. PICK r : r = init
  OBVIOUS
<1>2. r \in [step : {"down", "aside", "migrate", "seed", "password", "up"},
             read : ConfigFile, seeds : {"none", "socket", "portainer"}, password : BOOLEAN, unmoved : BOOLEAN]
  BY <1>1 DEF BootTypeOK
<1>3. init' = [r EXCEPT !.step = s, !.read = f]
  BY <1>1 DEF Do
<1> QED BY <1>1, <1>2, <1>3

\* Each migration leaves the install as it was, with a copy of what it was.
LEMMA MigrationKeeps ==
  ASSUME BootInv, ToHosts \/ ToContainers \/ ToProfiles
  PROVE  BootInv'
<1> DEFINE r == init.read
<1>1. r \in ConfigFile /\ Doing("migrate") /\ UNCHANGED <<config, aside>>
  BY DEF BootInv, BootTypeOK, ToHosts, ToContainers, ToProfiles
<1>2. Readable(config) /\ SaysTheSame(r, config) /\ r.sound = config.sound
  BY <1>1 DEF BootInv, Reading
<1>3. PICK f \in ConfigFile : /\ Do("migrate", f) /\ Backup(r.version, r) /\ r.version \in Old
                             /\ f.version = r.version + 1 /\ f.sound = r.sound
                             /\ SaysTheSame(f, r)
  <2>1. CASE ToHosts
    <3>1. Do("migrate", Hosted(r)) /\ Backup(r.version, r) /\ r.version = 1
      BY <2>1 DEF ToHosts, Hosted
    <3>2. /\ Hosted(r) \in ConfigFile /\ Hosted(r).version = 2 /\ Hosted(r).sound = r.sound
          /\ SaysTheSame(Hosted(r), r)
      BY <1>1, <3>1, HostsKeep
    <3> QED BY <3>1, <3>2 DEF Old, CurrentVersion
  <2>2. CASE ToContainers
    <3>1. Do("migrate", Listed(r)) /\ Backup(r.version, r) /\ r.version = 2
      BY <2>2 DEF ToContainers, Listed
    <3>2. /\ Listed(r) \in ConfigFile /\ Listed(r).version = 3 /\ Listed(r).sound = r.sound
          /\ SaysTheSame(Listed(r), r)
      BY <1>1, <3>1, ContainersKeep
    <3> QED BY <3>1, <3>2 DEF Old, CurrentVersion
  <2>3. CASE ToProfiles
    BY <1>1, <2>3, ProfilesKeep DEF ToProfiles, Old, CurrentVersion
  <2> QED BY <2>1, <2>2, <2>3
<1>4. /\ kept' \in [Old -> ConfigFile \cup {NoConfig, Garbage}]
      /\ stale' \subseteq Old
      /\ spent' \in [boots : Nat, edits : Nat, hands : Nat, failures : Nat]
      /\ \A v \in Old : config.version <= v /\ v < r.version + 1 =>
           v \in stale' \/ (/\ Readable(kept'[v]) /\ kept'[v].version = v
                          /\ Facts(kept'[v]) = Facts(config)
                          /\ Secrets(kept'[v]) = Secrets(config))
  BY <1>1, <1>3, BackupCopies DEF BootInv
<1>5. /\ init' \in [step : {"down", "aside", "migrate", "seed", "password", "up"},
                    read : ConfigFile, seeds : {"none", "socket", "portainer"},
                    password : BOOLEAN, unmoved : BOOLEAN]
      /\ init'.step = "migrate" /\ init'.read = f
  BY <1>3, NextStep DEF BootInv
<1>6. BootTypeOK'
  BY <1>1, <1>4, <1>5 DEF BootInv, BootTypeOK
<1>7. SaysTheSame(f, config)
  BY <1>2, <1>3, SameAgain
<1>8. Copied(init.read.version)'
  BY <1>1, <1>3, <1>4, <1>5 DEF Copied
<1>9. Reading'
  BY <1>1, <1>2, <1>3, <1>5, <1>7, <1>8 DEF Reading, Doing
<1> QED BY <1>6, <1>9 DEF BootInv

\* What was read of a file of this version, or of a newer one, is what is in it.
LEMMA MigratedKeeps ==
  ASSUME BootInv, Migrated
  PROVE  BootInv'
<1> DEFINE r == init.read
<1>1. r \in ConfigFile /\ Doing("migrate") /\ UNCHANGED <<config, kept, aside, stale, spent>>
  BY DEF BootInv, BootTypeOK, Migrated
<1>2. Readable(config) /\ SaysTheSame(r, config) /\ r.sound = config.sound /\ Copied(r.version)
  BY <1>1 DEF BootInv, Reading
<1>3. r.version \in Nat /\ r.version >= CurrentVersion
  BY <1>1 DEF ConfigFile, Migrated
<1>4. Copied(CurrentVersion)
  BY <1>2, <1>3 DEF Copied, Old, CurrentVersion
<1>5. Copied(CurrentVersion)'
  BY <1>1, <1>4 DEF Copied
<1>6. CASE r.sound
  <2>1. Parsed(r) \in ConfigFile /\ Parsed(r).version = r.version /\ SaysTheSame(Parsed(r), r)
    BY <1>1, <1>3, ParsedKeeps
  <2>2. Do("seed", Parsed(r))
    BY <1>6 DEF Migrated, Parse
  <2>3. /\ init' \in [step : {"down", "aside", "migrate", "seed", "password", "up"},
                      read : ConfigFile, seeds : {"none", "socket", "portainer"},
                      password : BOOLEAN, unmoved : BOOLEAN]
        /\ init'.step = "seed" /\ init'.read = Parsed(r)
    BY <2>1, <2>2, NextStep DEF BootInv
  <2>4. SaysTheSame(Parsed(r), config)
    BY <1>2, <2>1, SameAgain
  <2>5. BootTypeOK'
    BY <1>1, <2>3 DEF BootInv, BootTypeOK
  <2>6. Reading'
    BY <1>1, <1>2, <1>3, <1>5, <1>6, <2>1, <2>3, <2>4 DEF Reading, Doing, TurnedDown, Readable
  <2> QED BY <2>5, <2>6 DEF BootInv
<1>7. CASE ~r.sound
  <2>1. Do("aside", Defaults) /\ Defaults \in ConfigFile
    BY <1>7, BootAssumption DEF Migrated, Parse, Defaults, ConfigFile, CurrentVersion
  <2>2. /\ init' \in [step : {"down", "aside", "migrate", "seed", "password", "up"},
                      read : ConfigFile, seeds : {"none", "socket", "portainer"},
                      password : BOOLEAN, unmoved : BOOLEAN]
        /\ init'.step = "aside"
    BY <2>1, NextStep DEF BootInv
  <2>3. BootTypeOK'
    BY <1>1, <2>2 DEF BootInv, BootTypeOK
  <2>4. Reading'
    BY <1>1, <1>2, <1>5, <1>7, <2>2 DEF Reading, Doing
  <2> QED BY <2>3, <2>4 DEF BootInv
<1> QED BY <1>6, <1>7

-----------------------------------------------------------------------------
\* Where the file changes, or a new start begins, nothing is being read.
LEMMA NothingRead ==
  ASSUME BootTypeOK', init'.step \in {"down", "password", "up"}
  PROVE  BootInv'
BY DEF BootInv, Reading, Doing

\* A start begins with what is there.
LEMMA BeginKeeps ==
  ASSUME BootInv, NEW seeds \in {"none", "socket", "portainer"}, NEW password \in BOOLEAN,
         BootBegin(seeds, password)
  PROVE  BootInv'
<1>1. /\ UNCHANGED <<config, kept, aside, stale>>
      /\ spent' \in [boots : Nat, edits : Nat, hands : Nat, failures : Nat]
  BY DEF BootInv, BootTypeOK, BootBegin, Spend
<1>2. Defaults \in ConfigFile
  BY BootAssumption DEF Defaults, ConfigFile, CurrentVersion
<1>3. PICK told : told = [Off EXCEPT !.seeds = seeds, !.password = password]
  OBVIOUS
<1>4. told = [step |-> "down", read |-> Defaults, seeds |-> seeds, password |-> password,
              unmoved |-> FALSE]
  BY <1>3 DEF Off
<1>5. /\ config = NoConfig => init' = [told EXCEPT !.step = "seed"]
      /\ config # NoConfig /\ config = Garbage => init' = [told EXCEPT !.step = "aside"]
      /\ Readable(config) => init' = [told EXCEPT !.step = "migrate", !.read = config]
  BY <1>3, <1>4 DEF BootBegin, Readable
<1>6. /\ init' \in [step : {"down", "aside", "migrate", "seed", "password", "up"},
                    read : ConfigFile, seeds : {"none", "socket", "portainer"},
                    password : BOOLEAN, unmoved : BOOLEAN]
      /\ Readable(config) => init'.step = "migrate" /\ init'.read = config
      /\ config # NoConfig /\ config = Garbage => init'.step = "aside"
      /\ config = NoConfig => init'.step = "seed"
  <2>1. CASE config = NoConfig
    BY <1>2, <1>4, <1>5, <2>1 DEF Readable
  <2>2. CASE config # NoConfig /\ config = Garbage
    BY <1>2, <1>4, <1>5, <2>2 DEF Readable
  <2>3. CASE Readable(config)
    <3>1. config \in ConfigFile
      BY <2>3, ReadableIs DEF BootInv, BootTypeOK
    <3> QED BY <1>4, <1>5, <2>3, <3>1 DEF Readable
  <2> QED BY <2>1, <2>2, <2>3 DEF Readable
<1>7. BootTypeOK'
  BY <1>1, <1>6 DEF BootInv, BootTypeOK
<1>8. Readable(config) => Copied(config.version)
  BY ReadableIs DEF BootInv, BootTypeOK, Copied, ConfigFile, Old, CurrentVersion
<1>9. Readable(config) => Copied(init.read.version)'
  BY <1>1, <1>6, <1>8 DEF Copied
<1>10. SaysTheSame(config, config)
  BY DEF SaysTheSame
<1>11. CASE Readable(config)
  <2>1. init'.step = "migrate" /\ init'.read = config /\ config' = config
    BY <1>1, <1>6, <1>11
  <2>2. SaysTheSame(init.read, config)'
    BY <1>10, <2>1
  <2>3. Reading'
    BY <1>9, <1>11, <2>1, <2>2 DEF Reading, Doing, Readable
  <2> QED BY <1>7, <2>3 DEF BootInv
<1>12. CASE ~Readable(config)
  <2>1. /\ ~Readable(config)' /\ init'.step # "migrate"
        /\ init'.step = "seed" => ~TurnedDown(config)'
    BY <1>1, <1>6, <1>12 DEF Readable, TurnedDown
  <2>2. Reading'
    BY <2>1 DEF Reading, Doing
  <2> QED BY <1>7, <2>2 DEF BootInv
<1> QED BY <1>11, <1>12

\* A file that is set aside is not there any more; one that could not be is not sound.
LEMMA AsideKeeps ==
  ASSUME BootInv, SetAside
  PROVE  BootInv'
<1>1. Doing("aside") /\ UNCHANGED <<kept, stale>>
  BY DEF SetAside
<1>2. /\ Defaults \in ConfigFile
      /\ \/ Do("seed", Defaults) /\ config' = NoConfig
         \/ /\ init' = [init EXCEPT !.step = "seed", !.read = Defaults, !.unmoved = TRUE]
            /\ config' = config
  BY BootAssumption DEF SetAside, Defaults, ConfigFile, CurrentVersion
<1>3. /\ init' \in [step : {"down", "aside", "migrate", "seed", "password", "up"},
                    read : ConfigFile, seeds : {"none", "socket", "portainer"},
                    password : BOOLEAN, unmoved : BOOLEAN]
      /\ init'.step = "seed"
      /\ config' = NoConfig \/ init'.unmoved = TRUE
  <2>1. PICK r : r = init
    OBVIOUS
  <2>2. r \in [step : {"down", "aside", "migrate", "seed", "password", "up"},
               read : ConfigFile, seeds : {"none", "socket", "portainer"}, password : BOOLEAN,
               unmoved : BOOLEAN]
    BY <2>1 DEF BootInv, BootTypeOK
  <2>3. CASE init' = [init EXCEPT !.step = "seed", !.read = Defaults, !.unmoved = TRUE]
    BY <1>2, <2>1, <2>2, <2>3
  <2>4. CASE Do("seed", Defaults) /\ config' = NoConfig
    BY <1>2, <2>4, NextStep DEF BootInv
  <2> QED BY <1>2, <2>3, <2>4
<1>4. spent' \in [boots : Nat, edits : Nat, hands : Nat, failures : Nat]
  BY DEF SetAside, GoesWell, GoesWrong, Spend, BootInv, BootTypeOK
<1>5. config' = NoConfig \/ config' = config
  BY DEF SetAside
<1>6. BootTypeOK'
  BY <1>1, <1>3, <1>4, <1>5 DEF BootInv, BootTypeOK
<1>7. CASE config' = NoConfig
  <2>1. ~Readable(config)' /\ ~TurnedDown(config)'
    BY <1>7, BootAssumption DEF Readable, TurnedDown
  <2>2. Reading'
    BY <1>3, <2>1 DEF Reading, Doing
  <2> QED BY <1>6, <2>2 DEF BootInv
<1>8. CASE config' = config
  <2>1. Readable(config) => ~config.sound /\ Copied(CurrentVersion)
    BY <1>1 DEF BootInv, Reading
  <2>2. Copied(CurrentVersion) => Copied(CurrentVersion)'
    BY <1>1, <1>8 DEF Copied
  <2>3. Reading'
    BY <1>3, <1>8, <2>1, <2>2 DEF Reading, Doing, TurnedDown
  <2> QED BY <1>6, <2>3 DEF BootInv
<1> QED BY <1>5, <1>6, <1>7, <1>8 DEF BootInv

\* What a start stamps on the config it stores.
Stamped(f, i) == [f EXCEPT !.version = CurrentVersion, !.backend = "gone", !.instance = i]

\* It leaves the rest alone.
LEMMA StampedIs ==
  ASSUME NEW f \in ConfigFile, NEW i \in Nat
  PROVE  /\ Stamped(f, i) \in ConfigFile
         /\ Stamped(f, i).version = CurrentVersion /\ Stamped(f, i).instance = i
         /\ Stamped(f, i).hosts = f.hosts /\ Stamped(f, i).creds = f.creds
         /\ Stamped(f, i).boxes = f.boxes /\ Stamped(f, i).list = f.list
         /\ Stamped(f, i).named = f.named /\ Stamped(f, i).password = f.password
<1>1. PICK g : g = Stamped(f, i)
  OBVIOUS
<1>2. PICK v : v = CurrentVersion
  OBVIOUS
<1>3. v \in Nat \ {0}
  BY <1>2 DEF CurrentVersion
<1>4. g = [f EXCEPT !.version = v, !.backend = "gone", !.instance = i]
  BY <1>1, <1>2 DEF Stamped
<1>5. g = [version |-> v, backend |-> "gone", key |-> f.key, hosts |-> f.hosts,
           creds |-> f.creds, list |-> f.list, boxes |-> f.boxes, named |-> f.named,
           password |-> f.password, instance |-> i, sound |-> f.sound]
  BY <1>4 DEF ConfigFile
<1>6. "gone" \in Words
  BY BootAssumption
<1>7. /\ f.key \in Words /\ f.hosts \in SUBSET [id : Words, by : Words]
      /\ f.creds \in SUBSET [id : Words, key : Words] /\ f.list \in Words
      /\ f.boxes \in SUBSET [name : Words, host : Words]
      /\ f.named \in SUBSET [what : Words, sound : BOOLEAN]
      /\ f.password \in Words /\ f.sound \in BOOLEAN
  BY DEF ConfigFile
<1>8. g \in ConfigFile
  BY <1>3, <1>5, <1>6, <1>7 DEF ConfigFile
<1> QED BY <1>1, <1>2, <1>5, <1>8

\* What is stored is a config, and the start is over or about to set the password.
LEMMA StoringKeeps ==
  ASSUME BootInv, StoreSeeds \/ StorePassword
  PROVE  BootInv'
<1> DEFINE r == init.read
<1>1. r \in ConfigFile /\ UNCHANGED <<kept, aside, stale>>
  BY DEF BootInv, BootTypeOK, StoreSeeds, StorePassword
<1>2. spent' \in [boots : Nat, edits : Nat, hands : Nat, failures : Nat]
  BY DEF StoreSeeds, StorePassword, GoesWell, GoesWrong, Spend, BootInv, BootTypeOK
<1>3. PICK value \in ConfigFile, s \in {"password", "up"} :
        \/ config' = value /\ Do(s, value)
        \/ init' = Off /\ UNCHANGED config
  <2>1. CASE StoreSeeds
    <3>1. Seeds \in ConfigFile
      <4>1. SeedHost \in [id : Words, by : Words]
        BY BootAssumption DEF SeedHost
      <4>2. [id |-> SeedHost.by, key |-> EnvKey] \in [id : Words, key : Words]
        BY <4>1, BootAssumption
      <4>3. Seeded(init.seeds, SeedHost) \in ConfigFile
        BY <1>1, <4>1, <4>2 DEF Seeded, ConfigFile
      <4> QED BY <1>1, <4>3 DEF Seeds
    <3>2. PICK f : f = Seeds
      OBVIOUS
    <3>3. f \in ConfigFile
      BY <3>1, <3>2
    <3>4. PICK i \in Nat : i = IF f.instance = 0 THEN spent.boots ELSE f.instance
      BY <3>3 DEF BootInv, BootTypeOK, ConfigFile
    <3>5. [f EXCEPT !.version = CurrentVersion, !.backend = "gone",
                    !.instance = IF @ = 0 THEN spent.boots ELSE @] = Stamped(f, i)
      BY <3>4 DEF Stamped
    <3>6. Stamped(f, i) \in ConfigFile
      BY <3>3, <3>4, StampedIs
    <3> QED BY <2>1, <3>2, <3>5, <3>6 DEF StoreSeeds
  <2>2. CASE StorePassword
    <3>1. [r EXCEPT !.password = "env"] \in ConfigFile
      BY <1>1, BootAssumption DEF ConfigFile
    <3> QED BY <2>2, <3>1 DEF StorePassword
  <2> QED BY <2>1, <2>2
<1>4. /\ init' \in [step : {"down", "aside", "migrate", "seed", "password", "up"},
                    read : ConfigFile, seeds : {"none", "socket", "portainer"},
                    password : BOOLEAN, unmoved : BOOLEAN]
      /\ init'.step \in {"down", "password", "up"}
  <2>1. Off \in [step : {"down", "aside", "migrate", "seed", "password", "up"},
                read : ConfigFile, seeds : {"none", "socket", "portainer"}, password : BOOLEAN, unmoved : BOOLEAN]
    BY BootAssumption DEF Off, Defaults, ConfigFile, CurrentVersion
  <2> QED BY <1>3, <2>1, NextStep DEF BootInv, Off
<1>5. config' \in ConfigFile \cup {NoConfig, Garbage}
  BY <1>3 DEF BootInv, BootTypeOK
<1>6. BootTypeOK'
  BY <1>1, <1>2, <1>4, <1>5 DEF BootInv, BootTypeOK
<1> QED BY <1>4, <1>6, NothingRead

\* Users edit what is stored.
LEMMA EditKeeps ==
  ASSUME BootInv, UserEdit
  PROVE  BootInv'
<1> DEFINE r == init.read
<1>1. r \in ConfigFile /\ UNCHANGED <<kept, aside, stale>>
  BY DEF BootInv, BootTypeOK, UserEdit
<1>2. spent' \in [boots : Nat, edits : Nat, hands : Nat, failures : Nat]
  BY DEF UserEdit, Spend, BootInv, BootTypeOK
<1>3. PICK f \in Edits(r) : config' = f /\ Do("up", f)
  BY DEF UserEdit
<1>4. f \in ConfigFile
  <2>1. /\ [id |-> "h2", by |-> "portainer-2"] \in [id : Words, by : Words]
        /\ [id |-> "portainer-2", key |-> "user"] \in [id : Words, key : Words]
        /\ "user" \in Words
    BY BootAssumption
  <2>2. ASSUME NEW hs \in SUBSET [id : Words, by : Words],
               NEW cs \in SUBSET [id : Words, key : Words]
        PROVE  [r EXCEPT !.hosts = hs, !.creds = cs] \in ConfigFile
    BY <1>1 DEF ConfigFile
  <2>3. ASSUME NEW hs \in SUBSET [id : Words, by : Words]
        PROVE  [r EXCEPT !.hosts = hs] \in ConfigFile
    BY <1>1 DEF ConfigFile
  <2>4. [r EXCEPT !.boxes = {}] \in ConfigFile /\ [r EXCEPT !.password = "user"] \in ConfigFile
    BY <1>1, <2>1 DEF ConfigFile
  <2>5. /\ \A h \in r.hosts : r.hosts \ {h} \in SUBSET [id : Words, by : Words]
        /\ r.hosts \cup {[id |-> "h2", by |-> "portainer-2"]} \in SUBSET [id : Words, by : Words]
        /\ r.creds \cup {[id |-> "portainer-2", key |-> "user"]}
             \in SUBSET [id : Words, key : Words]
    BY <1>1, <2>1 DEF ConfigFile
  <2>6. \/ \E h \in r.hosts : f = [r EXCEPT !.hosts = r.hosts \ {h}]
        \/ f = [r EXCEPT !.hosts = r.hosts \cup {[id |-> "h2", by |-> "portainer-2"]},
                         !.creds = r.creds \cup {[id |-> "portainer-2", key |-> "user"]}]
        \/ f = [r EXCEPT !.boxes = {}]
        \/ f = [r EXCEPT !.password = "user"]
    BY <1>3 DEF Edits
  <2>7. CASE \E h \in r.hosts : f = [r EXCEPT !.hosts = r.hosts \ {h}]
    <3>1. PICK h \in r.hosts : f = [r EXCEPT !.hosts = r.hosts \ {h}]
      BY <2>7
    <3> QED BY <2>3, <2>5, <3>1
  <2>8. CASE f = [r EXCEPT !.hosts = r.hosts \cup {[id |-> "h2", by |-> "portainer-2"]},
                           !.creds = r.creds \cup {[id |-> "portainer-2", key |-> "user"]}]
    <3>1. PICK hs, cs : /\ hs = r.hosts \cup {[id |-> "h2", by |-> "portainer-2"]}
                        /\ cs = r.creds \cup {[id |-> "portainer-2", key |-> "user"]}
      OBVIOUS
    <3> QED BY <2>2, <2>5, <2>8, <3>1
  <2> QED BY <2>4, <2>6, <2>7, <2>8
<1>5. /\ init' \in [step : {"down", "aside", "migrate", "seed", "password", "up"},
                    read : ConfigFile, seeds : {"none", "socket", "portainer"},
                    password : BOOLEAN, unmoved : BOOLEAN]
      /\ init'.step = "up"
  BY <1>3, <1>4, NextStep DEF BootInv
<1>6. BootTypeOK'
  BY <1>1, <1>2, <1>3, <1>4, <1>5 DEF BootInv, BootTypeOK
<1> QED BY <1>5, <1>6, NothingRead

\* The operator works on the files while no server runs.
LEMMA HandKeeps ==
  ASSUME BootInv, HandEdit \/ \E v \in Old : GoBack(v)
  PROVE  BootInv'
<1>1. Doing("down") /\ UNCHANGED <<kept, aside, init, stale>>
  BY DEF HandEdit, GoBack
<1>2. spent' \in [boots : Nat, edits : Nat, hands : Nat, failures : Nat]
  BY DEF HandEdit, GoBack, Spend, BootInv, BootTypeOK
<1>3. config' \in ConfigFile \cup {NoConfig, Garbage}
  <2>1. CASE HandEdit
    <3>1. config \in ConfigFile
      BY <2>1, ReadableIs DEF HandEdit, BootInv, BootTypeOK
    <3>2. PICK ns : ns = {[x EXCEPT !.sound = FALSE] : x \in config.named}
      OBVIOUS
    <3>3. ns \in SUBSET [what : Words, sound : BOOLEAN]
      BY <3>1, <3>2 DEF ConfigFile
    <3>4. /\ [config EXCEPT !.sound = FALSE] \in ConfigFile
          /\ [config EXCEPT !.instance = 0] \in ConfigFile
          /\ [config EXCEPT !.named = ns] \in ConfigFile
      BY <3>1, <3>3 DEF ConfigFile
    <3>5. [config EXCEPT !.named = {[x EXCEPT !.sound = FALSE] : x \in @}] \in ConfigFile
      BY <3>2, <3>4
    <3> QED BY <2>1, <3>4, <3>5 DEF HandEdit
  <2>2. ASSUME NEW v \in Old, GoBack(v)
        PROVE  config' \in ConfigFile \cup {NoConfig, Garbage}
    BY <2>2 DEF GoBack, BootInv, BootTypeOK
  <2> QED BY <2>1, <2>2
<1>4. BootTypeOK'
  BY <1>1, <1>2, <1>3 DEF BootInv, BootTypeOK
<1> QED BY <1>1, <1>4, NothingRead DEF Doing

\* A process that dies may cut a copy short.
LEMMA DyingKeeps ==
  ASSUME BootInv, Die
  PROVE  BootInv'
<1>1. init' = Off /\ UNCHANGED <<config, aside>>
  BY DEF Die
<1>2. Off \in [step : {"down", "aside", "migrate", "seed", "password", "up"},
              read : ConfigFile, seeds : {"none", "socket", "portainer"}, password : BOOLEAN, unmoved : BOOLEAN]
  BY BootAssumption DEF Off, Defaults, ConfigFile, CurrentVersion
<1>3. spent' \in [boots : Nat, edits : Nat, hands : Nat, failures : Nat]
  BY DEF Die, GoesWrong, Spend, BootInv, BootTypeOK
<1>4. kept' \in [Old -> ConfigFile \cup {NoConfig, Garbage}] /\ stale' \subseteq Old
  <2>1. PICK v : v = init.read.version
    OBVIOUS
  <2>2. \/ UNCHANGED <<kept, stale>>
        \/ v \in Old /\ kept' = [kept EXCEPT ![v] = Garbage] /\ stale' = stale \cup {v}
    BY <2>1 DEF Die
  <2> QED BY <2>2 DEF BootInv, BootTypeOK
<1>5. BootTypeOK'
  BY <1>1, <1>2, <1>3, <1>4 DEF BootInv, BootTypeOK
<1> QED BY <1>1, <1>5, NothingRead DEF Off

\* Every step of a start, a user or an operator.
LEMMA BootKeeps ==
  ASSUME BootInv, [BootNext]_bootVars
  PROVE  BootInv'
<1>1. CASE UNCHANGED bootVars
  BY <1>1 DEF bootVars, BootInv, BootTypeOK, Reading, Doing, Copied, TurnedDown
<1>2. CASE BootNext
  BY <1>2, BeginKeeps, AsideKeeps, MigrationKeeps, MigratedKeeps, StoringKeeps, EditKeeps,
     HandKeeps, DyingKeeps DEF BootNext
<1> QED BY <1>1, <1>2

\* What is stored at the end of a start says what was read.
LEMMA StoredSays ==
  ASSUME BootInv, [BootNext]_bootVars, Doing("seed"), config' # config, Readable(config)
  PROVE  /\ \/ Facts(config) \subseteq Facts(config')
            \/ ~config.sound
         /\ \/ Secrets(config) \subseteq Secrets(config')
            \/ HostsIn(config) = {} /\ init.seeds = "portainer"
            \/ ~config.sound
         /\ \A v \in config.version .. CurrentVersion - 1 :
              v \in stale \/ (/\ Readable(kept[v]) /\ kept[v].version = v
                              /\ Facts(kept[v]) = Facts(config)
                              /\ Secrets(kept[v]) = Secrets(config))
<1> DEFINE r == init.read
<1>1. StoreSeeds
  BY DEF BootNext, bootVars, Doing, BootBegin, SetAside, ToHosts, ToContainers, ToProfiles,
         Migrated, StorePassword, UserEdit, HandEdit, GoBack, Die
<1>2. r \in ConfigFile /\ config \in ConfigFile /\ Copied(CurrentVersion)
  BY ReadableIs DEF BootInv, BootTypeOK, Reading
<1>3. config.version \in Nat \ {0}
  BY <1>2 DEF ConfigFile
<1>4. \A v \in config.version .. CurrentVersion - 1 :
        v \in stale \/ (/\ Readable(kept[v]) /\ kept[v].version = v
                        /\ Facts(kept[v]) = Facts(config)
                        /\ Secrets(kept[v]) = Secrets(config))
  BY <1>2, <1>3 DEF Copied, Old, CurrentVersion
<1>5. CASE ~config.sound
  BY <1>4, <1>5
<1>6. CASE config.sound
  <2>1. SaysTheSame(r, config) /\ r.version >= CurrentVersion
    BY <1>6 DEF BootInv, Reading
  <2>2. r.version \in Nat /\ r.version > 1 /\ ~(r.version < 3)
    BY <1>2, <2>1 DEF ConfigFile, CurrentVersion
  <2>3. HostsIn(r) = r.hosts /\ KeysIn(r) = r.creds
    BY <2>2 DEF HostsIn, KeysIn
  <2>4. PICK f : f = Seeds
    OBVIOUS
  <2>5. /\ f \in ConfigFile /\ f.boxes = r.boxes /\ f.list = r.list /\ f.named = r.named
        /\ f.password = r.password /\ f.instance = r.instance /\ r.hosts \subseteq f.hosts
        /\ \/ r.creds \subseteq f.creds
           \/ r.hosts = {} /\ init.seeds = "portainer"
    <3>1. CASE f = r
      BY <1>2, <3>1
    <3>2. CASE f # r
      <4>1. r.hosts = {} /\ f = Seeded(init.seeds, SeedHost)
        BY <2>4, <3>2 DEF Seeds
      <4>2. PICK hs, cs : /\ hs = {SeedHost}
                          /\ cs = IF init.seeds = "portainer"
                                  THEN {[id |-> SeedHost.by, key |-> EnvKey]} ELSE r.creds
        OBVIOUS
      <4>3. /\ hs \in SUBSET [id : Words, by : Words]
            /\ cs \in SUBSET [id : Words, key : Words]
        BY <1>2, <4>2, BootAssumption DEF SeedHost, ConfigFile
      <4>4. f = [r EXCEPT !.hosts = hs, !.creds = cs]
        BY <4>1, <4>2 DEF Seeded
      <4> QED BY <1>2, <4>1, <4>2, <4>3, <4>4 DEF ConfigFile
    <3> QED BY <3>1, <3>2
  <2>i. PICK i \in Nat : i = IF f.instance = 0 THEN spent.boots ELSE f.instance
    BY <2>5 DEF BootInv, BootTypeOK, ConfigFile
  <2>j. config' = Stamped(f, i)
    BY <1>1, <2>4, <2>i DEF StoreSeeds, Stamped
  <2>g. PICK g : g = config'
    OBVIOUS
  <2>6. /\ g = config' /\ g = Stamped(f, i)
        /\ r.instance # 0 => i = r.instance
    BY <2>5, <2>i, <2>j, <2>g
  <2>a. /\ g.version = CurrentVersion /\ g.instance = i /\ g.hosts = f.hosts /\ g.creds = f.creds
        /\ g.boxes = f.boxes /\ g.list = f.list /\ g.named = f.named /\ g.password = f.password
    <3>1. PICK h : h = Stamped(f, i)
      OBVIOUS
    <3>2. /\ h.version = CurrentVersion /\ h.instance = i /\ h.hosts = f.hosts
          /\ h.creds = f.creds /\ h.boxes = f.boxes /\ h.list = f.list
          /\ h.named = f.named /\ h.password = f.password
      BY <2>5, <3>1, StampedIs
    <3> QED BY <2>6, <3>1, <3>2
  <2>7. HostsIn(g) = g.hosts /\ KeysIn(g) = g.creds /\ BoxesIn(g) = BoxesIn(r)
    BY <2>2, <2>5, <2>a DEF HostsIn, KeysIn, BoxesIn, CurrentVersion
  <2>8. Facts(r) \subseteq Facts(g)
    <3>1. /\ HostsIn(r) \subseteq HostsIn(g) /\ BoxesIn(r) = BoxesIn(g) /\ r.named = g.named
          /\ r.password = g.password
          /\ r.instance # 0 => g.instance = r.instance
      BY <2>3, <2>5, <2>6, <2>a, <2>7
    <3> QED BY <3>1, MoreFacts
  <2>9. Secrets(r) \subseteq Secrets(g) \/ (r.hosts = {} /\ init.seeds = "portainer")
    BY <2>3, <2>5, <2>a, <2>7 DEF Secrets
  <2>10. /\ Facts(r) = Facts(config) /\ Secrets(r) = Secrets(config)
         /\ HostsIn(config) = r.hosts
    BY <2>1, <2>3 DEF SaysTheSame
  <2>11. Facts(config) \subseteq Facts(config')
    BY <2>6, <2>8, <2>10
  <2>12. \/ Secrets(config) \subseteq Secrets(config')
         \/ HostsIn(config) = {} /\ init.seeds = "portainer"
    BY <2>6, <2>9, <2>10
  <2> QED BY <1>4, <2>11, <2>12
<1> QED BY <1>5, <1>6

\* What a start does not accept is beside when it goes, or could not be moved there.
LEMMA RefusedIsBeside ==
  ASSUME BootInv, [BootNext]_bootVars, init.step \in {"aside", "seed"}, config' # config,
         TurnedDown(config)
  PROVE  config \in aside' \/ init.unmoved
<1>1. SetAside \/ StoreSeeds
  BY DEF BootNext, bootVars, Doing, BootBegin, ToHosts, ToContainers, ToProfiles,
         Migrated, StorePassword, UserEdit, HandEdit, GoBack, Die
<1>2. CASE SetAside
  BY <1>2 DEF SetAside
<1>3. CASE StoreSeeds
  BY <1>3 DEF StoreSeeds, Doing, BootInv, Reading
<1> QED BY <1>1, <1>2, <1>3

\* A start loses nothing of a config.json that can be read, whatever version wrote it and
\* wherever an earlier start died, and leaves a copy of what it was; one that it does not
\* accept is kept beside, unless it could not be renamed.
THEOREM StartsLoseNothing == BootSpec => BootLosesNothing
<1>1. BootInit => BootInv
  BY BootAssumption DEF BootInit, BootInv, BootTypeOK, Reading, Doing, Off, Defaults, ConfigFile,
     CurrentVersion
<1>2. BootInv /\ [BootNext]_bootVars => BootInv'
  BY BootKeeps
<1>3. BootInv /\ [BootNext]_bootVars =>
       [/\ Doing("seed") /\ config' # config /\ Readable(config) =>
             /\ \/ Facts(config) \subseteq Facts(config')
                \/ ~config.sound
             /\ \/ Secrets(config) \subseteq Secrets(config')
                \/ HostsIn(config) = {} /\ init.seeds = "portainer"
                \/ ~config.sound
             /\ \A v \in config.version .. CurrentVersion - 1 :
                  v \in stale \/ (/\ Readable(kept[v]) /\ kept[v].version = v
                                  /\ Facts(kept[v]) = Facts(config)
                                  /\ Secrets(kept[v]) = Secrets(config))
        /\ init.step \in {"aside", "seed"} /\ config' # config /\ TurnedDown(config) =>
             config \in aside' \/ init.unmoved]_bootVars
  BY StoredSays, RefusedIsBeside
<1> QED BY <1>1, <1>2, <1>3, PTL DEF BootSpec, BootLosesNothing
=============================================================================
