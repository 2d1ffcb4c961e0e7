---------------------------- MODULE MCSessionPane ----------------------------
(* An instance of SessionPane for TLC.  In some behaviours the user stays:  *)
(* nobody reloads the page or opens the pane again, and the pane has to     *)
(* find its way by itself.                                                  *)
EXTENDS SessionPane, TLC

CONSTANTS web, s1, s2

VARIABLE staying
userVars == <<vars, staying>>

VisitsInit == Init /\ staying \in BOOLEAN
VisitsNext == Next /\ UNCHANGED staying /\ (staying => UNCHANGED visits)

\* calls are answered or fail, timers fire, a stop lands, and a broken socket
\* is noticed at both ends
VisitsSpec ==
  /\ VisitsInit /\ [][VisitsNext]_userVars
  /\ \A c \in Conns : WF_vars(staying /\ Serve(c) /\ UNCHANGED <<pane, history>>)
  /\ \A p \in Panes : WF_vars(staying /\ Run(p))
  /\ WF_vars(staying /\ StopLands /\ UNCHANGED <<pane, history>>)

-----------------------------------------------------------------------------
(* The liveness properties of SessionPane, of a user who stays. *)

\* A shell whose attached pane is closed ends for good if nothing goes wrong.
KillArrives == staying => ClosedPaneEnds

\* A pane of a running container comes back, or waits for the user.
PaneRecovers == staying => PaneComesBack

\* A pane whose container is stopped under it comes to offer to start it.
StartIsOffered == staying => OffersStart
=============================================================================
