-------------------------------- MODULE Page ---------------------------------
(***************************************************************************)
(* What the models of the browser side have in common: somebody who clicks *)
(* a bounded number of times, and requests of which a bounded number gets  *)
(* no answer.  Shell, Layout, AgentsPanel, HostDialogs, ProfileForm,       *)
(* ContainerForm and FilesModal are parts of one page; each is a           *)
(* specification of its own, and part says which of them a behaviour is    *)
(* about.                                                                  *)
(***************************************************************************)
EXTENDS Naturals

CONSTANTS
  MaxUser,      \* bound: per part, the things the user does
  MaxFails      \* bound: requests that fail

VARIABLES
  part,         \* the part of the page the behaviour is about
  user, fails   \* counters of the bounds

pageVars == <<part, user, fails>>

\* the initial values of a variable of p, which the other parts do not need
Among(p, values) == IF part = p THEN values ELSE {CHOOSE v \in values : TRUE}

UserDoes == user < MaxUser[part] /\ user' = user + 1
Fails    == fails < MaxFails /\ fails' = fails + 1

\* a modal of Bootstrap takes its time to come and to go, and ignores hide()
\* before it stands
Open(modal)   == modal \in {"showing", "shown"}
Hidden(modal) == IF modal = "shown" THEN "hiding" ELSE modal
=============================================================================
