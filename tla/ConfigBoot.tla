------------------------------ MODULE ConfigBoot ------------------------------
(***************************************************************************)
(* server/src/config/store.ts (init, parseConfig, migrate, applyEnvSeeds): *)
(* what a start of the server makes of the config.json it finds.           *)
(*                                                                         *)
(* The file may be of an older version, which is migrated step by step     *)
(* with a copy kept before each step, of a newer one, or unreadable, which *)
(* is set aside.  What was read is then stored as the current version,     *)
(* with what the environment seeds.  The process may die in between; an    *)
(* operator may edit the file, or put a copy back, while no server runs.   *)
(* How the store writes a file is in ConfigStore; here a write happens, or *)
(* fails and ends the process.                                             *)
(***************************************************************************)
EXTENDS Naturals

CONSTANTS
  Files,        \* what a behaviour may find
  Words,        \* ids, keys and names
  EnvKey,       \* PORTAINER_API_KEY
  NoConfig,     \* there is no file
  Garbage,      \* a file that is not JSON, or was not written to the end
  MaxBoots,     \* bound: starts of the server
  MaxUserEdits, \* bound: edits in the UI
  MaxHands,     \* bound: what an operator does to the files
  MaxBootFailures \* bound: file operations that fail, deaths of the process

\* what a config.json says, of whatever version
ConfigFile ==
  [version : Nat \ {0}, backend : Words, key : Words, hosts : SUBSET [id : Words, by : Words],
   creds : SUBSET [id : Words, key : Words], list : Words,
   boxes : SUBSET [name : Words, host : Words], named : SUBSET [what : Words, sound : BOOLEAN],
   password : Words, instance : Nat, sound : BOOLEAN]

ASSUME BootAssumption ==
  /\ NoConfig \notin ConfigFile /\ Garbage \notin ConfigFile
  /\ Files \subseteq ConfigFile \cup {NoConfig, Garbage}
  /\ {EnvKey, "none", "gone", "containers", "default", "socket", "portainer-1", "portainer-2",
      "h2", "user", "env"} \subseteq Words
  /\ MaxBoots \in Nat /\ MaxUserEdits \in Nat /\ MaxHands \in Nat /\ MaxBootFailures \in Nat

VARIABLES
  config,   \* config.json
  kept,     \* .v1.bak, .v2.bak and .v3.bak
  aside,    \* the files set aside as .corrupt
  init,     \* the server: its step, what it has read and, as history, whether a file that
            \* should have been set aside is still there
  stale,    \* history: versions whose copy failed, was cut short or is an earlier one
  spent     \* how much of each bound

bootVars == <<config, kept, aside, init, stale, spent>>

CurrentVersion == 4
Old == 1 .. CurrentVersion - 1

\* identities of the install are numbers, and 0 is none
Defaults == [version |-> CurrentVersion, backend |-> "none", key |-> "none",
             hosts |-> {}, creds |-> {}, list |-> "containers", boxes |-> {},
             named |-> {}, password |-> "none", instance |-> 0, sound |-> TRUE]

Off == [step |-> "down", read |-> Defaults, seeds |-> "none", password |-> FALSE,
        unmoved |-> FALSE]

BootInit ==
  /\ config \in Files
  /\ kept = [v \in Old |-> NoConfig] /\ aside = {} /\ stale = {}
  /\ init = Off
  /\ spent = [boots |-> 0, edits |-> 0, hands |-> 0, failures |-> 0]

Spend(what, max) == spent[what] < max /\ spent' = [spent EXCEPT ![what] = @ + 1]
GoesWrong == Spend("failures", MaxBootFailures)
GoesWell  == UNCHANGED spent
Doing(s) == init.step = s
Do(s, value) == init' = [init EXCEPT !.step = s, !.read = value]

-----------------------------------------------------------------------------
(* Reading. *)

\* a host that was not written is the first one's id
Belongs(b) == IF b.host = "unwritten" THEN [b EXCEPT !.host = "default"] ELSE b

\* dropInvalidCustomAgents and dropInvalidProfiles, and what the schema strips
Parsed(raw) ==
  [raw EXCEPT !.named = {x \in @ : x.sound},
              !.boxes = IF raw.list = "containers" THEN {Belongs(b) : b \in @} ELSE {}]

\* parseConfig, once the file is of a version this server knows
Parse(raw) == IF raw.sound THEN Do("seed", Parsed(raw)) ELSE Do("aside", Defaults)

BootBegin(seeds, password) ==
  LET told == [Off EXCEPT !.seeds = seeds, !.password = password] IN
  /\ Doing("down")
  /\ Spend("boots", MaxBoots)
  /\ init' =
       IF config = NoConfig THEN [told EXCEPT !.step = "seed"]
       ELSE IF config = Garbage THEN [told EXCEPT !.step = "aside"]
       ELSE [told EXCEPT !.step = "migrate", !.read = config]
  /\ UNCHANGED <<config, kept, aside, stale>>

\* rename to .corrupt-<now>, whose failure is ignored
SetAside ==
  /\ Doing("aside")
  /\ \/ GoesWell /\ config' = NoConfig /\ aside' = aside \cup {config} /\ Do("seed", Defaults)
     \/ /\ GoesWrong /\ UNCHANGED <<config, aside>>
        /\ init' = [init EXCEPT !.step = "seed", !.read = Defaults, !.unmoved = TRUE]
  /\ UNCHANGED <<kept, stale>>

-----------------------------------------------------------------------------
(* What is lost and what is kept, whatever the version. *)

\* the hosts a server of that version would talk to, and the key it would use
HostsIn(f) ==
  IF f.version > 1 THEN f.hosts
  ELSE IF f.backend = "portainer" THEN {[id |-> "default", by |-> "portainer-1"]}
  ELSE IF f.backend = "socket" THEN {[id |-> "default", by |-> "socket"]} ELSE {}
KeysIn(f) ==
  IF f.version > 1 THEN f.creds
  ELSE IF f.backend = "portainer" THEN {[id |-> "portainer-1", key |-> f.key]} ELSE {}

BoxesIn(f) ==
  IF f.list = (IF f.version < 3 THEN "sessions" ELSE "containers")
  THEN {Belongs(b) : b \in f.boxes} ELSE {}

Facts(f) ==
  {<<"box", b.name>> : b \in BoxesIn(f)}
  \cup {<<"reach", w[1].name, w[2].by>> :
          w \in {w \in BoxesIn(f) \X HostsIn(f) : w[1].host = w[2].id}}
  \cup {<<"host", h.id, h.by>> : h \in HostsIn(f)}
  \cup {<<"named", x.what>> : x \in {x \in f.named : x.sound}}
  \cup {<<"password", p>> : p \in {f.password} \ {"none"}}
  \cup {<<"instance", i>> : i \in {f.instance} \ {0}}
Secrets(f) == {<<c.id, c.key>> : c \in KeysIn(f)}

Readable(f) == f # NoConfig /\ f # Garbage

-----------------------------------------------------------------------------
(* Migrating: all of it is synchronous. *)

\* flag 'wx' and best effort: one that is there stays
Backup(v, raw) ==
  \/ kept[v] = NoConfig /\ GoesWell /\ kept' = [kept EXCEPT ![v] = raw] /\ UNCHANGED stale
  \/ kept[v] = NoConfig /\ GoesWrong /\ UNCHANGED kept /\ stale' = stale \cup {v}
  \/ /\ kept[v] # NoConfig /\ GoesWell /\ UNCHANGED kept
     /\ stale' = IF kept[v] = raw THEN stale ELSE stale \cup {v}

\* one backend becomes hosts and credentials
ToHosts ==
  LET raw == init.read IN
  /\ Doing("migrate") /\ raw.version = 1
  /\ Backup(1, raw)
  /\ Do("migrate", [raw EXCEPT !.version = 2, !.backend = "gone", !.key = "none",
       !.hosts = HostsIn(raw), !.creds = KeysIn(raw), !.boxes = {Belongs(b) : b \in @}])
  /\ UNCHANGED <<config, aside>>

\* sessions becomes containers
ToContainers ==
  /\ Doing("migrate") /\ init.read.version = 2
  /\ Backup(2, init.read)
  /\ Do("migrate", [init.read EXCEPT !.version = 3, !.list = "containers",
       !.boxes = IF init.read.list = "sessions" THEN @ ELSE {}])
  /\ UNCHANGED <<config, aside>>

\* profiles, which the file may have or not
ToProfiles ==
  /\ Doing("migrate") /\ init.read.version = 3
  /\ Backup(3, init.read)
  /\ Do("migrate", [init.read EXCEPT !.version = 4])
  /\ UNCHANGED <<config, aside>>

\* a file of this version, or of a newer one, is used as it is
Migrated ==
  /\ Doing("migrate") /\ init.read.version >= CurrentVersion
  /\ Parse(init.read)
  /\ UNCHANGED <<config, kept, aside, stale, spent>>

-----------------------------------------------------------------------------
(* Storing. *)

Seeded(seeds, host) ==
  [init.read EXCEPT !.hosts = {host},
     !.creds = IF seeds = "portainer" THEN {[id |-> host.by, key |-> EnvKey]} ELSE @]

SeedHost ==
  [id |-> "default", by |-> IF init.seeds = "portainer" THEN "portainer-1" ELSE "socket"]

\* mutant: the environment wins over the hosts that are there
SeedsAlways ==
  IF init.seeds = "none" THEN init.read ELSE Seeded(init.seeds, SeedHost)

\* applyEnvSeeds
Seeds ==
  IF init.read.hosts # {} \/ init.seeds = "none" THEN init.read
  ELSE Seeded(init.seeds, SeedHost)

\* the first update of init(); when it is rejected the process exits
StoreSeeds ==
  LET value == [Seeds EXCEPT !.version = CurrentVersion, !.backend = "gone",
                             !.instance = IF @ = 0 THEN spent.boots ELSE @] IN
  /\ Doing("seed")
  /\ \/ /\ GoesWell
        /\ config' = value
        /\ Do(IF init.password /\ value.password = "none" THEN "password" ELSE "up", value)
     \/ GoesWrong /\ init' = Off /\ UNCHANGED config
  /\ UNCHANGED <<kept, aside, stale>>

\* the second one: APP_PASSWORD
StorePassword ==
  LET value == [init.read EXCEPT !.password = "env"] IN
  /\ Doing("password")
  /\ \/ GoesWell /\ config' = value /\ Do("up", value)
     \/ GoesWrong /\ init' = Off /\ UNCHANGED config
  /\ UNCHANGED <<kept, aside, stale>>

-----------------------------------------------------------------------------
(* Users, the operator, and deaths of the process. *)

Edits(f) ==
  {[f EXCEPT !.hosts = @ \ {h}] : h \in {h \in f.hosts : \A b \in f.boxes : b.host # h.id}}
  \cup {[f EXCEPT !.hosts = @ \cup {[id |-> "h2", by |-> "portainer-2"]},
                  !.creds = @ \cup {[id |-> "portainer-2", key |-> "user"]}],
        [f EXCEPT !.boxes = {}],
        [f EXCEPT !.password = "user"]}

UserEdit ==
  /\ Doing("up") /\ Spend("edits", MaxUserEdits)
  /\ \E f \in Edits(init.read) : config' = f /\ Do("up", f)
  /\ UNCHANGED <<kept, aside, stale>>

\* by hand: a slip of the editor, an agent or profile the schema refuses
HandEdit ==
  /\ Doing("down") /\ Readable(config) /\ Spend("hands", MaxHands)
  /\ config' \in {Garbage, [config EXCEPT !.sound = FALSE], [config EXCEPT !.instance = 0],
                  [config EXCEPT !.named = {[x EXCEPT !.sound = FALSE] : x \in @}]}
  /\ UNCHANGED <<kept, aside, init, stale>>

\* DEPLOYMENT.md: stop, restore the copy, and go back to the older image
GoBack(v) ==
  /\ Doing("down") /\ kept[v] # NoConfig /\ Spend("hands", MaxHands)
  /\ config' = kept[v]
  /\ UNCHANGED <<kept, aside, init, stale>>

\* a copy may be cut short, and stays
Die ==
  /\ ~Doing("down") /\ GoesWrong
  /\ init' = Off
  /\ LET v == init.read.version IN
     \/ UNCHANGED <<kept, stale>>
     \/ /\ Doing("migrate") /\ v \in Old
        /\ IF v \in Old THEN kept[v] = NoConfig ELSE FALSE
        /\ kept' = [kept EXCEPT ![v] = Garbage]
        /\ stale' = stale \cup {v}
  /\ UNCHANGED <<config, aside>>

BootNext ==
  \/ \E seeds \in {"none", "socket", "portainer"}, password \in BOOLEAN :
       BootBegin(seeds, password)
  \/ SetAside \/ ToHosts \/ ToContainers \/ ToProfiles \/ Migrated
  \/ StoreSeeds \/ StorePassword
  \/ UserEdit \/ HandEdit \/ (\E v \in Old : GoBack(v)) \/ Die

BootSpec == BootInit /\ [][BootNext]_bootVars

-----------------------------------------------------------------------------
(* Properties. *)

BootTypeOK ==
  /\ config \in ConfigFile \cup {NoConfig, Garbage}
  /\ kept \in [Old -> ConfigFile \cup {NoConfig, Garbage}]
  /\ init \in [step : {"down", "aside", "migrate", "seed", "password", "up"}, read : ConfigFile,
               seeds : {"none", "socket", "portainer"}, password : BOOLEAN, unmoved : BOOLEAN]
  /\ stale \subseteq Old
  /\ spent \in [boots : Nat, edits : Nat, hands : Nat, failures : Nat]

\* what a start does not accept
TurnedDown(f) == f # NoConfig /\ (f = Garbage \/ ~f.sound)

\* A start loses nothing of a config.json that can be read: every container is stored
\* and reached through the same connection, with the same key, and names, password and
\* identity are the same, whatever version wrote it and wherever an earlier start died;
\* and of an older version a copy is kept from which its server has the same.  But for
\* keys where no host is left, which the environment's replaces.  One that the start does
\* not accept is kept beside when it goes, unless it could not be renamed in this start.
BootLosesNothing ==
  [][/\ Doing("seed") /\ config' # config /\ Readable(config) =>
       /\ \/ Facts(config) \subseteq Facts(config')
          \/ ~config.sound
       /\ \/ Secrets(config) \subseteq Secrets(config')
          \/ HostsIn(config) = {} /\ init.seeds = "portainer"
          \/ ~config.sound
       /\ \A v \in config.version .. CurrentVersion - 1 :
            v \in stale \/ (/\ Readable(kept[v]) /\ kept[v].version = v
                            /\ Facts(kept[v]) = Facts(config)
                            /\ Secrets(kept[v]) = Secrets(config))
     /\ init.step \in {"aside", "seed"} /\ config' # config /\ TurnedDown(config) =>
          config \in aside' \/ init.unmoved]_bootVars
=============================================================================
