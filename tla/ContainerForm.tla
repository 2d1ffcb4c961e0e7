---------------------------- MODULE ContainerForm ----------------------------
(***************************************************************************)
(* web/public/js/containers.js: the dialog that creates and edits a        *)
(* container, reduced to its host and its agents, which are the part of it *)
(* that depends on lookups.  The lookups of a host are three awaits long,  *)
(* fill variables of the whole page, and end in a repaint of whatever form *)
(* is there by then.  Agents are pinned to a container, or inherited from  *)
(* its host.                                                               *)
(***************************************************************************)
EXTENDS Page

CONSTANTS
  Boxes,        \* names of containers
  Engines,      \* the hosts
  EnabledOn,    \* per host, the agents that are enabled on it
  Installed,    \* the containers there are at first, as the server has them
  Lookups       \* loadLookups() in flight

VARIABLES
  defs,         \* the server: per container, its host and its agents
  formModal,    \* what Bootstrap has of the dialog
  editing,      \* the container that is edited
  form,         \* what the dialog shows
  formHostId, formAgents,     \* of the page: the host, and its agents, by the last lookups
  lookups,      \* per loadLookups(): its host, the container its caller closed over
  sending,      \* saveContainer(): the step it awaits, and what was read from the form
  settled       \* history: each lookup had come before the next was begun, or the
                \* form saved, and none had failed

formOwn  == <<defs, formModal, editing, form, formHostId, formAgents, lookups, sending, settled>>
formVars == <<formOwn, user, fails>>

NoBox     == "none"
Inherited == [inherit |-> TRUE, ids |-> {}]
Pinned(s) == [inherit |-> FALSE, ids |-> s]
NoDef     == [host |-> NoBox, agents |-> Inherited]
NoLookup  == [host |-> NoBox, for |-> NoBox, at |-> "none"]
NotSent   == [step |-> "none", name |-> NoBox, host |-> NoBox, agents |-> Inherited, touched |-> FALSE]

\* for: the container whose fields were filled in; boxes: the agents it offers
NoForm == [for |-> NoBox, host |-> NoBox, inherit |-> TRUE, boxes |-> {}, ticked |-> {}, touched |-> FALSE]

FormInit ==
  /\ defs = Installed
  /\ formModal = "hidden" /\ editing = NoBox
  /\ form = NoForm
  /\ formHostId = NoBox /\ formAgents = {}
  /\ lookups = [l \in Lookups |-> NoLookup]
  /\ sending = NotSent
  /\ settled = TRUE

Exists(c) == defs[c] # NoDef

-----------------------------------------------------------------------------
(* the lookups *)

NoneLooks == \A l \in Lookups : lookups[l] = NoLookup

LoadLookups(host, for) ==
  LET free == {l \in Lookups : lookups[l] = NoLookup} IN
  /\ free # {}
  /\ lookups' = [lookups EXCEPT ![CHOOSE l \in free : TRUE] = [host |-> host, for |-> for, at |-> "recipes"]]
  /\ settled' = (settled /\ NoneLooks)

\* recipes and profiles have come, or not: "formAgents = []"
LookupsCleared(l) ==
  /\ lookups[l].at = "recipes"
  /\ lookups' = [lookups EXCEPT ![l].at = "agents"]
  /\ formAgents' = {}
  /\ UNCHANGED <<defs, formModal, editing, form, formHostId, sending, settled, user, fails>>

\* repaintLookups(): the boxes are drawn again, ticked as the form has them
Repainted(agents) ==
  [form EXCEPT !.boxes = agents,
               !.ticked = IF form.inherit THEN agents ELSE form.ticked \cap agents]

\* images, networks and agents have come; the lookups that a dialog began are
\* painted only while that dialog is the last one that was opened
LookupsDone(l, ok) ==
  /\ lookups[l].at = "agents"
  /\ IF ok THEN UNCHANGED fails ELSE Fails
  /\ formAgents' = IF ok THEN EnabledOn[lookups[l].host] ELSE {}
  /\ form' = IF lookups[l].for \in {"change", editing} THEN Repainted(formAgents') ELSE form
  /\ lookups' = [lookups EXCEPT ![l] = NoLookup]
  /\ settled' = (settled /\ ok)
  /\ UNCHANGED <<defs, formModal, editing, formHostId, sending, user>>

-----------------------------------------------------------------------------
(* the dialog *)

\* openContainerModal(): the boxes are those of the lookups before, if any
OpenContainerModal(c, host) ==
  /\ formModal = "hidden"
  /\ IF c = NoBox THEN host \in Engines ELSE Exists(c) /\ host = defs[c].host
  /\ UserDoes
  /\ formModal' = "showing"
  /\ editing' = c
  /\ formHostId' = host
  /\ form' = LET a == IF c = NoBox THEN Inherited ELSE defs[c].agents IN
       [for |-> c, host |-> host, inherit |-> a.inherit, boxes |-> formAgents, touched |-> FALSE,
        ticked |-> IF a.inherit THEN formAgents ELSE formAgents \cap a.ids]
  /\ LoadLookups(host, c)
  /\ UNCHANGED <<defs, formAgents, sending, fails>>

\* #sf-host, which is disabled in an edit
PickFormHost(host) ==
  /\ Open(formModal) /\ sending.step # "confirm"
  /\ form.for = NoBox /\ host # form.host
  /\ UserDoes
  /\ form' = [form EXCEPT !.host = host]
  /\ formHostId' = host
  /\ LoadLookups(host, "change")
  /\ UNCHANGED <<defs, formModal, editing, formAgents, sending, fails>>

\* #sf-agents-inherit; syncAgentsPicker() ticks every box when it is set
ToggleInherit ==
  /\ Open(formModal) /\ sending.step # "confirm"
  /\ UserDoes
  /\ form' = [form EXCEPT !.inherit = ~form.inherit, !.touched = TRUE,
                          !.ticked = IF form.inherit THEN form.ticked ELSE form.boxes]
  /\ UNCHANGED <<defs, formModal, editing, formHostId, formAgents, lookups, sending, settled, fails>>

TickAgent(a) ==
  /\ Open(formModal) /\ sending.step # "confirm"
  /\ ~form.inherit /\ a \in form.boxes
  /\ UserDoes
  /\ form' = [form EXCEPT !.touched = TRUE,
                          !.ticked = IF a \in form.ticked THEN form.ticked \ {a} ELSE form.ticked \cup {a}]
  /\ UNCHANGED <<defs, formModal, editing, formHostId, formAgents, lookups, sending, settled, fails>>

CloseContainerModal ==
  /\ formModal = "shown" /\ sending.step # "confirm"
  /\ UserDoes
  /\ formModal' = "hiding"
  /\ UNCHANGED <<defs, editing, form, formHostId, formAgents, lookups, sending, settled, fails>>

\* shown.bs.modal; hidden.bs.modal forgets what is edited
ContainerModalSettles ==
  /\ formModal \in {"showing", "hiding"}
  /\ formModal' = IF formModal = "showing" THEN "shown" ELSE "hidden"
  /\ editing' = IF formModal = "hiding" THEN NoBox ELSE editing
  /\ UNCHANGED <<defs, form, formHostId, formAgents, lookups, sending, settled, user, fails>>

-----------------------------------------------------------------------------
(* saving *)

\* saveContainer() and readContainerForm(), of a form that may be going away
SaveContainer(name) ==
  /\ formModal # "hidden"
  /\ sending = NotSent
  /\ form.for # NoBox => name = form.for
  /\ UserDoes
  /\ sending' = [step    |-> IF editing = NoBox THEN "sent" ELSE "confirm",
                 name    |-> name,
                 host    |-> IF editing = NoBox THEN form.host ELSE NoBox,
                 agents  |-> IF form.inherit THEN Inherited ELSE Pinned(form.ticked),
                 touched |-> form.touched]
  /\ settled' = (settled /\ NoneLooks)
  /\ UNCHANGED <<defs, formModal, editing, form, formHostId, formAgents, lookups, fails>>

\* the confirmation; what is edited is looked up again behind it, and is none
\* once the dialog is hidden
Confirm(yes) ==
  /\ sending.step = "confirm"
  /\ sending' = IF ~yes THEN NotSent
                ELSE [sending EXCEPT !.step = IF editing = NoBox THEN "sent" ELSE "update"]
  /\ UNCHANGED <<defs, formModal, editing, form, formHostId, formAgents, lookups, settled, user, fails>>

\* POST takes a name that is free, and PUT one that is not
Taken(update, name) == Exists(name) <=> update

\* a create without a host goes to the default one
Saved(name) ==
  [defs EXCEPT ![name] =
     [host   |-> IF sending.step = "update" THEN defs[name].host
                 ELSE IF sending.host = NoBox THEN CHOOSE h \in Engines : TRUE
                 ELSE sending.host,
      agents |-> sending.agents]]

SaveAnswered(ok) ==
  /\ sending.step \in {"sent", "update"}
  /\ IF ok
     THEN /\ Taken(sending.step = "update", sending.name)
          /\ defs' = Saved(sending.name)
          /\ formModal' = Hidden(formModal)
          /\ editing' = NoBox
          /\ UNCHANGED fails
     ELSE /\ IF Taken(sending.step = "update", sending.name) THEN Fails ELSE UNCHANGED fails
          /\ UNCHANGED <<defs, formModal, editing>>
  /\ sending' = NotSent
  /\ UNCHANGED <<form, formHostId, formAgents, lookups, settled, user>>

\* destroyContainer(), here or in another browser
DestroyContainer(c) ==
  /\ Exists(c)
  /\ UserDoes
  /\ defs' = [defs EXCEPT ![c] = NoDef]
  /\ UNCHANGED <<formModal, editing, form, formHostId, formAgents, lookups, sending, settled, fails>>

FormNext ==
  \/ \E l \in Lookups : LookupsCleared(l) \/ \E ok \in BOOLEAN : LookupsDone(l, ok)
  \/ \E c \in Boxes \cup {NoBox}, host \in Engines : OpenContainerModal(c, host)
  \/ \E host \in Engines : PickFormHost(host)
  \/ ToggleInherit \/ CloseContainerModal \/ ContainerModalSettles
  \/ \E a \in UNION {EnabledOn[h] : h \in Engines} : TickAgent(a)
  \/ \E c \in Boxes : SaveContainer(c) \/ DestroyContainer(c)
  \/ \E yes \in BOOLEAN : Confirm(yes) \/ SaveAnswered(yes)

-----------------------------------------------------------------------------
(* What repaintLookups() promises, "keeping whatever the user already      *)
(* typed", and openContainerModal() of it: an edit in which nobody touched *)
(* the agents stores the agents the container had.                         *)
PinsSurvive ==
  [][\A c \in Boxes :
       (settled /\ Exists(c) /\ sending.step = "update" /\ sending.name = c /\ ~sending.touched
        /\ sending' = NotSent /\ fails' = fails /\ defs'[c] # NoDef)
         => defs'[c].agents = defs[c].agents]_formVars
=============================================================================
