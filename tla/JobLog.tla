------------------------------- MODULE JobLog -------------------------------
(***************************************************************************)
(* The log of an image job and the modal that tails it.  On the server     *)
(* (images/service.ts) a job keeps its last MaxLines lines and counts the  *)
(* ones it dropped, so that "since" is a cursor into all lines ever        *)
(* written.  In the browser (web/public/js/images.js) pollJob asks for     *)
(* what is new, appends the answer to the modal, moves its cursor, and     *)
(* sets a timer for the next poll while the job runs.                      *)
(*                                                                         *)
(* A poll is two awaits apart: the answer is appended to whatever the      *)
(* modal shows by then, and moves whatever cursor it has by then.          *)
(***************************************************************************)
EXTENDS Integers, Sequences

CONSTANTS
  Jobs,
  Polls,        \* slots for requests in flight
  MaxLines,     \* MAX_JOB_LINES, 2000 in the code
  MaxWritten,   \* bound: lines a job writes
  MaxOpens,     \* bound: times the modal is opened
  MaxLost,    \* bound: requests that fail
  NoJob

ASSUME LogAssumption ==
  /\ MaxLines \in Nat \ {0}
  /\ MaxWritten \in Nat /\ MaxOpens \in Nat /\ MaxLost \in Nat
  /\ NoJob \notin Jobs

VARIABLES
  lines,    \* the lines each job still has; a line is its number
  dropped,  \* how many it dropped
  status,   \* "running", "cancelled" or "ended"
  view,     \* jobState: [id, cursor, timer]
  strays,   \* timers set that jobState no longer knows of
  shown,    \* the modal: [job, line], top to bottom
  poll,     \* what every request is doing
  tailed,   \* history: the job the modal was last opened for
  opens, lost

logVars == <<lines, dropped, status, view, strays, shown, poll, tailed, opens, lost>>
serverVars == <<lines, dropped, status>>
modalVars  == <<view, strays, shown, tailed>>

NoPoll == [pc |-> "free", job |-> NoJob, since |-> 0, lines |-> <<>>,
           next |-> 0, status |-> "running"]

LogInit ==
  /\ lines = [j \in Jobs |-> <<>>]
  /\ dropped = [j \in Jobs |-> 0]
  /\ status = [j \in Jobs |-> "running"]
  /\ view = [id |-> NoJob, cursor |-> 0, timer |-> FALSE]
  /\ strays = 0
  /\ shown = <<>>
  /\ poll = [p \in Polls |-> NoPoll]
  /\ tailed = NoJob /\ opens = 0 /\ lost = 0

-----------------------------------------------------------------------------
(* The server. *)

Written(j) == dropped[j] + Len(lines[j])

\* mutant: forgets to count what it drops
AppendUncounted(j) ==
  LET all == Append(lines[j], Written(j) + 1) IN
  /\ lines' = [lines EXCEPT ![j] = IF Len(all) > MaxLines THEN Tail(all) ELSE all]
  /\ UNCHANGED dropped

\* append: the new line, then the oldest out while there are too many
AppendLine(j) ==
  LET all == Append(lines[j], Written(j) + 1) IN
  IF Len(all) > MaxLines
  THEN /\ lines' = [lines EXCEPT ![j] = Tail(all)]
       /\ dropped' = [dropped EXCEPT ![j] = @ + 1]
  ELSE /\ lines' = [lines EXCEPT ![j] = all]
       /\ UNCHANGED dropped

\* what the job's function logs, also on its way out after a cancel
WriteLine(j) ==
  /\ status[j] # "ended"
  /\ Written(j) < MaxWritten
  /\ AppendLine(j)
  /\ UNCHANGED <<status, modalVars, poll, opens, lost>>

\* cancelJob and a failing function log the reason with the status
EndWith(j, s) ==
  /\ status[j] = "running"
  /\ Written(j) < MaxWritten
  /\ status' = [status EXCEPT ![j] = s]
  /\ AppendLine(j)
  /\ UNCHANGED <<modalVars, poll, opens, lost>>

Succeed(j) ==
  /\ status[j] = "running"
  /\ status' = [status EXCEPT ![j] = "ended"]
  /\ UNCHANGED <<lines, dropped, modalVars, poll, opens, lost>>

\* mutant: takes the cursor for an index into what is left
NewLinesUnshifted(j, since) ==
  SubSeq(lines[j], (IF since > Len(lines[j]) THEN Len(lines[j]) ELSE since) + 1, Len(lines[j]))

\* getJobLines: lines.slice(max(0, min(length, since - dropped)))
NewLines(j, since) ==
  LET have == Len(lines[j])
      from == since - dropped[j]
      capped == IF from > have THEN have ELSE from
  IN  SubSeq(lines[j], (IF capped < 0 THEN 0 ELSE capped) + 1, have)

\* one synchronous handler: status, lines and next index fit together
Serve(p) ==
  LET a == poll[p] IN
  /\ a.pc = "asked"
  /\ \/ /\ poll' = [poll EXCEPT ![p] = [a EXCEPT !.pc = "answered",
                       !.lines = NewLines(a.job, a.since),
                       !.next = Written(a.job), !.status = status[a.job]]]
        /\ UNCHANGED lost
     \/ /\ lost < MaxLost
        /\ lost' = lost + 1
        /\ poll' = [poll EXCEPT ![p].pc = "failed"]
  /\ UNCHANGED <<serverVars, modalVars, opens>>

-----------------------------------------------------------------------------
(* The browser. *)

\* the request of pollJob
Ask(p, j, since) ==
  /\ poll[p].pc = "free"
  /\ poll' = [poll EXCEPT ![p] = [NoPoll EXCEPT !.pc = "asked", !.job = j, !.since = since]]

\* openJob; a request that is in flight stays in flight
OpenJob(p, j) ==
  /\ opens < MaxOpens
  /\ opens' = opens + 1
  /\ view' = [id |-> j, cursor |-> 0, timer |-> FALSE]
  /\ shown' = <<>> /\ tailed' = j
  /\ Ask(p, j, 0)
  /\ UNCHANGED <<serverVars, strays, lost>>

HideModal ==
  /\ view.id # NoJob
  /\ view' = [view EXCEPT !.id = NoJob, !.timer = FALSE]
  /\ UNCHANGED <<serverVars, strays, shown, poll, tailed, opens, lost>>

Lines(j, ns) == [i \in DOMAIN ns |-> [job |-> j, line |-> ns[i]]]

\* mutant: a poll that brings nothing new is the last one
DeliverWhileNew(p) ==
  LET a == poll[p] IN
  /\ a.pc = "answered"
  /\ poll' = [poll EXCEPT ![p] = NoPoll]
  /\ shown' = shown \o Lines(a.job, a.lines)
  /\ view' = [view EXCEPT !.cursor = a.next,
                          !.timer = a.status = "running" /\ a.lines # <<>>]
  /\ UNCHANGED <<serverVars, strays, tailed, opens, lost>>

\* the rest of pollJob: a timer that jobState overwrites can not be cleared
Deliver(p) ==
  LET a == poll[p] IN
  /\ a.pc = "answered"
  /\ poll' = [poll EXCEPT ![p] = NoPoll]
  /\ shown' = shown \o Lines(a.job, a.lines)
  /\ view' = [view EXCEPT !.cursor = a.next, !.timer = a.status = "running"]
  /\ strays' = IF a.status = "running" /\ view.timer THEN strays + 1 ELSE strays
  /\ UNCHANGED <<serverVars, tailed, opens, lost>>

\* any failure ends the tail
DeliverFailure(p) ==
  /\ poll[p].pc = "failed"
  /\ poll' = [poll EXCEPT ![p] = NoPoll]
  /\ view' = [view EXCEPT !.timer = FALSE]
  /\ UNCHANGED <<serverVars, strays, shown, tailed, opens, lost>>

\* a timer runs pollJob, which does nothing once the modal is hidden
TimerFires(p) ==
  /\ \/ view.timer /\ view' = [view EXCEPT !.timer = FALSE] /\ UNCHANGED strays
     \/ strays > 0 /\ strays' = strays - 1 /\ UNCHANGED view
  /\ IF view.id = NoJob THEN UNCHANGED poll ELSE Ask(p, view.id, view.cursor)
  /\ UNCHANGED <<serverVars, shown, tailed, opens, lost>>

-----------------------------------------------------------------------------
\* nothing is in flight, no timer is set, nobody opens the modal again
LogRest ==
  /\ \A p \in Polls : poll[p].pc = "free"
  /\ ~view.timer /\ strays = 0
  /\ UNCHANGED logVars

Answering(p) == Serve(p) \/ Deliver(p) \/ DeliverFailure(p)
Timers == \E p \in Polls : TimerFires(p)

LogNext ==
  \/ \E j \in Jobs : \/ WriteLine(j) \/ Succeed(j)
                     \/ \E s \in {"cancelled", "ended"} : EndWith(j, s)
  \/ \E p \in Polls, j \in Jobs : OpenJob(p, j)
  \/ HideModal
  \/ \E p \in Polls : Answering(p)
  \/ Timers
  \/ LogRest

LogSpec == LogInit /\ [][LogNext]_logVars

\* requests are answered or fail, and timers fire
LogFairSpec == LogSpec /\ \A p \in Polls : WF_logVars(Answering(p)) /\ WF_logVars(Timers)

-----------------------------------------------------------------------------
(* Properties. *)

\* Types; a request is always for a job: a hidden modal's timer polls nothing.
LogTypeOK ==
  /\ lines \in [Jobs -> Seq(Nat)]
  /\ dropped \in [Jobs -> Nat]
  /\ status \in [Jobs -> {"running", "cancelled", "ended"}]
  /\ view \in [id : Jobs \cup {NoJob}, cursor : Nat, timer : BOOLEAN]
  /\ strays \in Nat
  /\ shown \in Seq([job : Jobs, line : Nat])
  /\ poll \in [Polls -> [pc : {"free", "asked", "answered", "failed"},
                         job : Jobs \cup {NoJob}, since : Nat, lines : Seq(Nat),
                         next : Nat, status : {"running", "cancelled", "ended"}]]
  /\ \A p \in Polls : poll[p].pc # "free" => poll[p].job \in Jobs
  /\ tailed \in Jobs \cup {NoJob}
  /\ opens \in Nat /\ lost \in Nat

\* A job has its last MaxLines lines, and "dropped" is the number of the line
\* before them: what keeps "since" a cursor over all lines ever written.
LinesAreNewest ==
  \A j \in Jobs :
    /\ Len(lines[j]) <= MaxLines
    /\ \A i \in 1 .. Len(lines[j]) : lines[j][i] = dropped[j] + i

\* The first time the modal is opened, for whatever job, it shows that job's lines in
\* order, none twice, and leaves out only what the server had dropped: the cursor the
\* browser keeps and the ring buffer of the server fit together.  (What a second
\* opening shows depends on the answers that are still in flight.)
LineNumbers(s) == [i \in DOMAIN s |-> s[i].line]
TailedView ==
  INSTANCE TailedLog WITH
    written <- IF tailed = NoJob THEN 0 ELSE Written(tailed),
    shown   <- IF opens <= 1 THEN LineNumbers(shown) ELSE <<>>
TailsFaithfully == TailedView!Spec

\* A modal that stays open comes to show the last line of a job that succeeds
\* or fails, when no request fails: the poll that stops the tail is one that
\* was answered after the end.
Complete(j) == Written(j) > 0 => \E i \in DOMAIN shown : shown[i].line = Written(j)
TailCompletes ==
  \A j \in Jobs :
    status[j] = "ended" /\ view.id = j ~> Complete(j) \/ view.id # j \/ lost > 0
=============================================================================
