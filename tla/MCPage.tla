-------------------------------- MODULE MCPage --------------------------------
(* One instance of every part of the page for TLC: a behaviour is about    *)
(* one of the parts, and leaves the variables of the others alone.         *)
EXTENDS Shell, Layout, AgentsPanel, HostDialogs, ProfileForm, ContainerForm, FilesModal

MCMaxUser ==
  [shell |-> 2, layout |-> 3, agents |-> 3, hosts |-> 7, profiles |-> 5, containers |-> 5, files |-> 5]
MCFormUser == [containers |-> 5]
MCDialogUser == [hosts |-> 7]

MCAgentsOn == [h \in Hosts |-> IF h = "h1" THEN {"a1"} ELSE {}]
MCEnabledOn == [h \in Engines |-> IF h = "h1" THEN {"a1"} ELSE {"a1", "a2"}]
MCInstalled == [c \in Boxes |-> IF c = "c1" THEN [host |-> "h2", agents |-> Pinned({"a2"})] ELSE NoDef]

pageOwn == <<shellOwn, layoutOwn, agentsOwn, dialogOwn, profileOwn, formOwn, filesOwn>>
allVars == <<pageVars, pageOwn>>

PageInit ==
  /\ part \in DOMAIN MaxUser
  /\ user = 0 /\ fails = 0
  /\ ShellInit /\ LayoutInit /\ AgentsInit /\ DialogInit /\ ProfileInit /\ FormInit /\ FilesInit

PageNext ==
  /\ UNCHANGED part
  /\ \/ /\ part = "shell" /\ ShellNext
        /\ UNCHANGED <<layoutOwn, agentsOwn, dialogOwn, profileOwn, formOwn, filesOwn>>
     \/ /\ part = "layout" /\ LayoutNext
        /\ UNCHANGED <<shellOwn, agentsOwn, dialogOwn, profileOwn, formOwn, filesOwn>>
     \/ /\ part = "agents" /\ AgentsNext
        /\ UNCHANGED <<shellOwn, layoutOwn, dialogOwn, profileOwn, formOwn, filesOwn>>
     \/ /\ part = "hosts" /\ DialogNext
        /\ UNCHANGED <<shellOwn, layoutOwn, agentsOwn, profileOwn, formOwn, filesOwn>>
     \/ /\ part = "profiles" /\ ProfileNext
        /\ UNCHANGED <<shellOwn, layoutOwn, agentsOwn, dialogOwn, formOwn, filesOwn>>
     \/ /\ part = "containers" /\ FormNext
        /\ UNCHANGED <<shellOwn, layoutOwn, agentsOwn, dialogOwn, profileOwn, filesOwn>>
     \/ /\ part = "files" /\ FilesNext
        /\ UNCHANGED <<shellOwn, layoutOwn, agentsOwn, dialogOwn, profileOwn, formOwn>>

PageSpec == PageInit /\ [][PageNext]_allVars /\ ShellFairness /\ AgentsFairness
=============================================================================
