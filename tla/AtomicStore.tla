----------------------------- MODULE AtomicStore -----------------------------
(***************************************************************************)
(* What server/src/config/store.ts promises its callers: a value on disk   *)
(* that updates change one at a time, each of them entirely or not at all, *)
(* in the order they were asked for.  An update that is answered "ok" is   *)
(* on disk; one that is answered "failed" never was; one that a crash cut  *)
(* off may be either.  A reader sees the value as of the last answer.      *)
(***************************************************************************)
EXTENDS Sequences

CONSTANTS
  Clients,          \* callers of update()
  Ops,              \* mutations they may ask for
  Apply(_, _),      \* the value after a mutation
  Valid(_),         \* does AppConfigSchema accept the value
  Default           \* defaultConfig()

VARIABLES
  stored,   \* the value on disk
  seen,     \* the value readers get
  queue,    \* updates not answered yet: [client, op], oldest first
  taken     \* the oldest one has reached the disk

vars == <<stored, seen, queue, taken>>

Init == stored = Default /\ seen = Default /\ queue = <<>> /\ taken = FALSE

Ask(c, o) ==
  /\ \A i \in DOMAIN queue : queue[i].client # c
  /\ queue' = Append(queue, [client |-> c, op |-> o])
  /\ UNCHANGED <<stored, seen, taken>>

Take ==
  /\ queue # <<>>
  /\ ~taken
  /\ Valid(Apply(stored, Head(queue).op))
  /\ stored' = Apply(stored, Head(queue).op)
  /\ taken' = TRUE
  /\ UNCHANGED <<seen, queue>>

AnswerOk ==
  /\ taken
  /\ seen' = stored
  /\ queue' = Tail(queue)
  /\ taken' = FALSE
  /\ UNCHANGED stored

AnswerFailed ==
  /\ queue # <<>>
  /\ ~taken
  /\ queue' = Tail(queue)
  /\ UNCHANGED <<stored, seen, taken>>

\* the process dies; readers come back to what is on disk
Crash ==
  /\ queue' = <<>>
  /\ taken' = FALSE
  /\ seen' = stored
  /\ UNCHANGED stored

Next ==
  \/ \E c \in Clients, o \in Ops : Ask(c, o)
  \/ Take
  \/ AnswerOk
  \/ AnswerFailed
  \/ Crash

Spec == Init /\ [][Next]_vars
=============================================================================
