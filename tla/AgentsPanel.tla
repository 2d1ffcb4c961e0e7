----------------------------- MODULE AgentsPanel -----------------------------
(***************************************************************************)
(* web/public/js/agents.js: the panel that shows, for the host it points   *)
(* at, one card per agent with a toggle; a toggle stores the whole set of  *)
(* toggles that are on.  A tools sync that was started here is watched     *)
(* until it has ended.  Any request may be answered late.                  *)
(***************************************************************************)
EXTENDS Page, Sequences

CONSTANTS
  Hosts, Agents,
  Stored,       \* what the hosts have enabled at first
  Calls,        \* requests of the panel in flight
  MaxSyncs      \* bound: tools syncs

VARIABLES
  known,        \* the hosts there are
  pointed,      \* panelHostId; "none" when there is no host
  hostAgents,   \* the agents that are on, by the last answer
  painted,      \* #agents-list shows cards, not an alert
  checked,      \* the toggles that are on
  enabledOn,    \* the server: per host, the agents that are enabled
  calls,        \* per request: what is asked, and what the server answered
  watch,        \* syncWatch: the sync the panel waits for, 0 for none
  pollDue,      \* the poll whose handle is syncWatch.timer is due
  strays,       \* polls that are due and whose handle was overwritten
  syncs,        \* the server: the host of every sync so far
  syncing       \* the syncs that still run

agentsOwn  == <<known, pointed, hostAgents, painted, checked, enabledOn, calls,
                watch, pollDue, strays, syncs, syncing>>
agentsVars == <<agentsOwn, user, fails>>

watchVars  == <<watch, pollDue, strays, syncs, syncing>>
cardVars   == <<hostAgents, painted, checked>>

NoCall  == [op |-> "none", host |-> "none", want |-> {}, sync |-> 0, says |-> "none"]
Quiet   == \A c \in Calls : calls[c] = NoCall
Free(c) == calls[c] = NoCall /\ c = CHOOSE d \in Calls : calls[d] = NoCall

GetAgents(host)       == [NoCall EXCEPT !.op = "get", !.host = host]
SetAgents(host, want) == [NoCall EXCEPT !.op = "put", !.host = host, !.want = want]
SyncTools(host)       == [NoCall EXCEPT !.op = "sync", !.host = host]
GetJob(sync)          == [NoCall EXCEPT !.op = "job", !.sync = sync]

\* show() has asked for the agents of the host
AgentsInit ==
  /\ known = Hosts
  /\ pointed \in Among("agents", Hosts)
  /\ hostAgents = {} /\ painted = FALSE /\ checked = {}
  /\ enabledOn = Stored
  /\ calls = [c \in Calls |->
       IF part = "agents" /\ c = CHOOSE d \in Calls : TRUE THEN GetAgents(pointed) ELSE NoCall]
  /\ watch = 0 /\ pollDue = FALSE /\ strays = 0
  /\ syncs = <<>> /\ syncing = {}

\* reloadHostAgents() up to its await; without a host there is nothing to ask
Reload(c, host) ==
  IF host = "none"
  THEN /\ calls' = [calls EXCEPT ![c] = NoCall]
       /\ hostAgents' = {} /\ painted' = FALSE /\ checked' = {}
  ELSE /\ calls' = [calls EXCEPT ![c] = GetAgents(host)]
       /\ UNCHANGED cardVars

\* the host select, the refresh button and show()
PickHost(c, h) ==
  /\ h \in known /\ Free(c)
  /\ UserDoes
  /\ pointed' = h
  /\ Reload(c, h)
  /\ UNCHANGED <<known, enabledOn, watchVars, fails>>

\* HOSTS_CHANGED after a host was deleted: renderHostSelect() falls back
HostGone(c, h) ==
  /\ h \in known /\ Free(c)
  /\ UserDoes
  /\ known' = known \ {h}
  /\ IF pointed # h
     THEN UNCHANGED <<pointed, calls, cardVars>>
     ELSE \E next \in IF known = {h} THEN {"none"} ELSE known' :
            pointed' = next /\ Reload(c, next)
  /\ UNCHANGED <<enabledOn, watchVars, fails>>

\* AGENTS_CHANGED: the cards are drawn again, from the last answer
RenderAgentCards ==
  /\ painted' = TRUE /\ checked' = hostAgents
  /\ UNCHANGED <<known, pointed, hostAgents, enabledOn, calls, watchVars, user, fails>>

\* setAgentEnabled(): the toggles are read now, and so is the host
Toggle(c, a) ==
  /\ painted /\ Free(c)
  /\ UserDoes
  /\ checked' = IF a \in checked THEN checked \ {a} ELSE checked \cup {a}
  /\ calls' = IF pointed = "none" THEN calls ELSE [calls EXCEPT ![c] = SetAgents(pointed, checked')]
  /\ UNCHANGED <<known, pointed, hostAgents, painted, enabledOn, watchVars, fails>>

-----------------------------------------------------------------------------
(* the server *)

Serve(c) ==
  /\ calls[c].op \in {"get", "put"} /\ calls[c].says = "none"
  /\ LET host == calls[c].host
         set  == IF calls[c].op = "put" THEN calls[c].want ELSE enabledOn[host] IN
     IF host \in known
     THEN /\ enabledOn' = [enabledOn EXCEPT ![host] = set]
          /\ calls' = [calls EXCEPT ![c].want = set, ![c].says = "ok"]
     ELSE calls' = [calls EXCEPT ![c].says = "failed"] /\ UNCHANGED enabledOn
  /\ UNCHANGED <<known, pointed, cardVars, watchVars, user, fails>>

\* the sync that runs on h, of which a host has one at a time
Running(h) == {s \in syncing : syncs[s] = h}

\* a conflict is answered with the sync that runs
ServeSync(c) ==
  /\ calls[c].op = "sync" /\ calls[c].says = "none"
  /\ LET h == calls[c].host IN
     \/ /\ Running(h) # {}
        /\ calls' = [calls EXCEPT ![c].sync = CHOOSE s \in Running(h) : TRUE, ![c].says = "ok"]
        /\ UNCHANGED <<syncs, syncing>>
     \/ /\ Running(h) = {} /\ h \in known
        /\ Len(syncs) < MaxSyncs
        /\ syncs' = Append(syncs, h)
        /\ syncing' = syncing \cup {Len(syncs')}
        /\ calls' = [calls EXCEPT ![c].sync = Len(syncs'), ![c].says = "ok"]
     \/ /\ Running(h) = {} /\ (h \notin known \/ Len(syncs) = MaxSyncs)
        /\ calls' = [calls EXCEPT ![c].says = "failed"]
        /\ UNCHANGED <<syncs, syncing>>
  /\ UNCHANGED <<known, pointed, cardVars, enabledOn, watch, pollDue, strays, user, fails>>

ServeJob(c) ==
  /\ calls[c].op = "job" /\ calls[c].says = "none"
  /\ calls' = [calls EXCEPT ![c].says = IF calls[c].sync \in syncing THEN "running" ELSE "ended"]
  /\ UNCHANGED <<known, pointed, cardVars, enabledOn, watchVars, user, fails>>

SyncEnds ==
  /\ \E s \in syncing : syncing' = syncing \ {s}
  /\ UNCHANGED <<known, pointed, cardVars, enabledOn, calls, watch, pollDue, strays, syncs, user, fails>>

\* an answer that does not come; what was asked may have been done
Lose(c) ==
  /\ calls[c].op # "none" /\ calls[c].says # "failed"
  /\ Fails
  /\ calls' = [calls EXCEPT ![c].says = "failed"]
  /\ UNCHANGED <<known, pointed, cardVars, enabledOn, watchVars, user>>

-----------------------------------------------------------------------------
(* the answers *)

\* the answer to a load or to a toggle, for whichever host it was asked
Show(c) ==
  /\ calls[c].op \in {"get", "put"} /\ calls[c].says = "ok"
  /\ hostAgents' = calls[c].want
  /\ checked' = hostAgents' /\ painted' = TRUE
  /\ calls' = [calls EXCEPT ![c] = NoCall]
  /\ UNCHANGED <<known, pointed, enabledOn, watchVars, user, fails>>

\* a load that failed: an alert, or after a 401 the cards that were there
LoadFailed(c, alert) ==
  /\ calls[c].op = "get" /\ calls[c].says = "failed"
  /\ hostAgents' = {}
  /\ painted' = (painted /\ ~alert)
  /\ calls' = [calls EXCEPT ![c] = NoCall]
  /\ UNCHANGED <<known, pointed, checked, enabledOn, watchVars, user, fails>>

\* "put the toggle back where the server says it is"
ToggleFailed(c) ==
  /\ calls[c].op = "put" /\ calls[c].says = "failed"
  /\ Reload(c, pointed)
  /\ UNCHANGED <<known, pointed, enabledOn, watchVars, user, fails>>

-----------------------------------------------------------------------------
(* the sync and its watch *)

\* the button is disabled while its request is in flight
SyncAgents(c) ==
  /\ pointed # "none" /\ Free(c)
  /\ \A d \in Calls : calls[d].op # "sync"
  /\ UserDoes
  /\ calls' = [calls EXCEPT ![c] = SyncTools(pointed)]
  /\ UNCHANGED <<known, pointed, cardVars, enabledOn, watchVars, fails>>

\* stopSyncWatch() clears the timer it has a handle of
StopSyncWatch == watch' = 0 /\ pollDue' = FALSE /\ UNCHANGED strays

\* watchSyncJob()
SyncStarted(c) ==
  /\ calls[c].op = "sync" /\ calls[c].says \in {"ok", "failed"}
  /\ IF calls[c].says = "ok"
     THEN watch' = calls[c].sync /\ pollDue' = TRUE /\ UNCHANGED strays
     ELSE UNCHANGED <<watch, pollDue, strays>>
  /\ calls' = [calls EXCEPT ![c] = NoCall]
  /\ UNCHANGED <<known, pointed, cardVars, enabledOn, syncs, syncing, user, fails>>

\* pollSyncJob() up to its await
PollSyncJob(c) ==
  /\ watch # 0 => Free(c)
  /\ watch = 0 => c = CHOOSE d \in Calls : TRUE
  /\ \/ pollDue /\ pollDue' = FALSE /\ UNCHANGED strays
     \/ strays > 0 /\ strays' = strays - 1 /\ UNCHANGED pollDue
  /\ calls' = IF watch = 0 THEN calls ELSE [calls EXCEPT ![c] = GetJob(watch)]
  /\ UNCHANGED <<known, pointed, cardVars, enabledOn, watch, syncs, syncing, user, fails>>

\* mutant: only an error ends the watch
PollOn(says) == says # "failed"

\* what keeps the watch going
KeepsPolling(says) == says = "running"

\* the answer ends or continues the watch, also one that began meanwhile
Polled(c) ==
  /\ calls[c].op = "job" /\ calls[c].says # "none"
  /\ IF KeepsPolling(calls[c].says)
     THEN /\ pollDue' = TRUE /\ strays' = IF pollDue THEN strays + 1 ELSE strays
          /\ calls' = [calls EXCEPT ![c] = NoCall]
          /\ UNCHANGED <<watch, cardVars>>
     ELSE /\ StopSyncWatch
          /\ IF calls[c].says = "ended"
             THEN Reload(c, pointed)
             ELSE calls' = [calls EXCEPT ![c] = NoCall] /\ UNCHANGED cardVars
  /\ UNCHANGED <<known, pointed, enabledOn, syncs, syncing, user, fails>>

\* hide()
HidePanel ==
  /\ watch # 0 \/ pollDue
  /\ UserDoes
  /\ StopSyncWatch
  /\ UNCHANGED <<known, pointed, cardVars, enabledOn, calls, syncs, syncing, fails>>

AgentsPage ==
  \/ \E c \in Calls :
       \/ Serve(c) \/ ServeSync(c) \/ ServeJob(c)
       \/ Show(c) \/ ToggleFailed(c) \/ \E alert \in BOOLEAN : LoadFailed(c, alert)
       \/ SyncStarted(c) \/ PollSyncJob(c) \/ Polled(c)
  \/ SyncEnds

AgentsNext ==
  \/ AgentsPage
  \/ RenderAgentCards
  \/ HidePanel
  \/ \E c \in Calls :
       \/ Lose(c) \/ SyncAgents(c)
       \/ \E h \in Hosts : PickHost(c, h) \/ HostGone(c, h)
       \/ \E a \in Agents : Toggle(c, a)

\* requests are answered, timers fire, and a sync ends some day
AgentsFairness ==
  /\ \A c \in Calls :
       /\ WF_agentsVars(part = "agents" /\ (Serve(c) \/ ServeSync(c) \/ ServeJob(c)))
       /\ WF_agentsVars(part = "agents" /\ (Show(c) \/ ToggleFailed(c) \/ SyncStarted(c) \/ Polled(c)))
       /\ WF_agentsVars(part = "agents" /\ \E alert \in BOOLEAN : LoadFailed(c, alert))
  /\ WF_agentsVars(part = "agents" /\ \E c \in Calls : PollSyncJob(c))
  /\ WF_agentsVars(part = "agents" /\ SyncEnds)

-----------------------------------------------------------------------------
(* The watch of a sync always ends: neither a poll that overtakes a new    *)
(* sync, nor a second timer, nor a panel that was hidden leaves a page     *)
(* that asks, or waits, about a sync that is over.                         *)
WatchEnds == []<>(syncing = {} => (watch = 0 /\ ~pollDue /\ strays = 0 /\ Quiet))
=============================================================================
