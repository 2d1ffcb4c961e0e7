----------------------------- MODULE MCConfigBoot -----------------------------
(* Instance of ConfigBoot for TLC: files of every version, of an install that  *)
(* has a container, and of one that is new.                                    *)
EXTENDS ConfigBoot

CONSTANT m1

MCFile(version, boxes) ==
  [Defaults EXCEPT !.version = version, !.boxes = boxes,
                   !.list = IF version < 3 THEN "sessions" ELSE "containers",
                   !.backend = IF version = 1 THEN @ ELSE "gone"]
MCWords ==
  {m1, "none", "gone", "socket", "portainer", "containers", "sessions", "default", "unwritten",
   "portainer-1", "portainer-2", "h2", "user", "env", "agent", "profile"}
MCBox(host) == [name |-> m1, host |-> host]
MCHosts(f) ==
  [f EXCEPT !.hosts = {[id |-> "default", by |-> "portainer-1"]},
            !.creds = {[id |-> "portainer-1", key |-> "user"]},
            !.named = {[what |-> w, sound |-> TRUE] :
                         w \in IF f.version < 4 THEN {"agent"} ELSE {"agent", "profile"}},
            !.instance = 9]
MCFiles ==
  {NoConfig, Garbage}
  \cup {[MCFile(1, {MCBox("unwritten")}) EXCEPT !.backend = k, !.password = "user",
           !.key = IF k = "portainer" THEN "user" ELSE "none"] :
         k \in {"none", "socket", "portainer"}}
  \cup {MCHosts(MCFile(v, {MCBox("default")})) : v \in 2 .. 5}
  \cup {MCFile(4, {})}
=============================================================================
