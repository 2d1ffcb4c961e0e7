------------------------------ MODULE TailedLog ------------------------------
(***************************************************************************)
(* What somebody who tails a job's log may rely on: the lines come in the  *)
(* order they were written, none twice, and the only ones left out are     *)
(* those that were no longer among the last MaxLines when he was served.   *)
(***************************************************************************)
EXTENDS Naturals, Sequences, SequencesExt

CONSTANT MaxLines

VARIABLES
  written,  \* lines written so far; a line is its number
  shown     \* the lines shown

vars == <<written, shown>>

Last0 == IF shown = <<>> THEN 0 ELSE Last(shown)

Init == written = 0 /\ shown = <<>>

Write == written' = written + 1 /\ UNCHANGED shown

\* the first n lines are served, what is new among the last MaxLines of them
Show(n) ==
  LET first == IF n > Last0 + MaxLines THEN n - MaxLines + 1 ELSE Last0 + 1
  IN  /\ Last0 <= n /\ n <= written
      /\ shown' = shown \o [i \in 1 .. (n + 1 - first) |-> first + i - 1]
      /\ UNCHANGED written

\* the log of a job, this one or another, is opened from the start
Reopen == shown' = <<>> /\ written' \in Nat

Next == Write \/ Reopen \/ \E n \in 0 .. written : Show(n)

Spec == Init /\ [][Next]_vars
=============================================================================
