------------------------------ MODULE MCCatalog ------------------------------
(* Instances of Catalog, ToolsVolume, AfterStart, ConfigBoot and Transport  *)
(* for TLC: what the server keeps of its hosts, of the tools volume of one  *)
(* of them, what it does in containers it has started, what a start makes   *)
(* of the config.json it finds, and the requests to one host; a behaviour   *)
(* is about one of them.                                                    *)
(* Catalog starts from an empty install, or from one with a                 *)
(* Portainer host that a container refers to, a socket host, a profile and  *)
(* an agent.                                                                *)
EXTENDS Catalog, ToolsVolume, MCAfterStart, MCConfigBoot, Transport

CONSTANTS c1, c2, k1, k2, p1, p2, a1, n1, s1, pw1, pw2, e1, e2

VARIABLE part
hostsVars == <<part, vars, toolsVars, afterVars, bootVars, transportVars>>

MCWanted == {<<"box", 3>>}
Portainer == [type |-> "portainer", cred |-> 1, endpoint |-> e1]

Used ==
  [EmptyInstall EXCEPT
    !.hosts = <<[id |-> <<"box", 1>>, conn |-> Portainer, agents |-> {a1}],
                [id |-> <<"box", 2>>, conn |-> [type |-> "socket"], agents |-> {}]>>,
    !.default = <<"box", 1>>,
    !.creds = {[id |-> 1, key |-> k1]},
    !.profiles = {[id |-> p1, slice |-> "own", keys |-> {s1}]},
    !.agents = {a1},
    !.containers = {[id |-> n1, host |-> <<"box", 1>>, profile |-> p1, agents |-> {a1}]},
    !.password = [hash |-> pw1, version |-> 1]]

MCInstalls == {EmptyInstall, Used}
MCSlices == {"own", p1}
MCAsked == {[type |-> "socket"], Portainer, [Portainer EXCEPT !.cred = 2]}
MCClients == Permutations(Clients)

CatalogIdle == Init /\ cfg = EmptyInstall
ToolsIdle   == ToolsInit /\ legacy = "absent" /\ ~login.there
AfterIdle   == AfterInit /\ stored = [c \in Boxes |-> Unset]
BootIdle    == BootInit /\ config = NoConfig

HostsInit ==
  /\ TransportInit
  /\ \/ part = "catalog" /\ Init /\ ToolsIdle /\ AfterIdle /\ BootIdle
     \/ part = "tools" /\ CatalogIdle /\ ToolsInit /\ AfterIdle /\ BootIdle
     \/ part = "start" /\ CatalogIdle /\ ToolsIdle /\ AfterInit /\ BootIdle
     \/ part = "boot" /\ CatalogIdle /\ ToolsIdle /\ AfterIdle /\ BootInit
     \/ part = "transport" /\ CatalogIdle /\ ToolsIdle /\ AfterIdle /\ BootIdle

\* the variables of every part but one
Rest(p) ==
  /\ p # "catalog" => UNCHANGED vars
  /\ p # "tools" => UNCHANGED toolsVars
  /\ p # "start" => UNCHANGED afterVars
  /\ p # "boot" => UNCHANGED bootVars
  /\ p # "transport" => UNCHANGED transportVars

HostsNext ==
  /\ UNCHANGED part
  /\ \/ part = "catalog" /\ Next
     \/ part = "tools" /\ ToolsNext
     \/ part = "start" /\ AfterNext
     \/ part = "boot" /\ BootNext
     \/ part = "transport" /\ TransportNext
  /\ Rest(part)

HostsSpec == HostsInit /\ [][HostsNext]_hostsVars
=============================================================================
