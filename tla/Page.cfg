SPECIFICATION PageSpec
CONSTANTS
  MaxUser <- MCMaxUser MaxFails = 1
  Starters = {"boot", "login"} Lists = {"l1", "l2"} MaxEnds = 1 MaxChanges = 1
  Panes = {"p1", "p2"} MaxClock = 4 MaxForeign = 1
  Hosts = {"h1", "h2"} Agents = {"a1"} Stored <- MCAgentsOn Calls = {"c1", "c2"} MaxSyncs = 2
  HostIds = {"a", "b"} CredIds = {"k1", "k2"} Asks = {"e1", "e2"}
  Profiles = {"p1", "p2"} Keys = {"k1", "k2"} InUse = {"p1"}
  Boxes = {"c1", "c2"} Engines = {"h1", "h2"} EnabledOn <- MCEnabledOn Installed <- MCInstalled
  Lookups = {"l1", "l2"}
  Works = {"c1", "c2"} Dirs = {"/", "/d"} Listings = {"g1", "g2"} Picks = {"u1", "u2"} MaxFiles = 2
INVARIANTS LoginFollows EndpointOfCredential UploadsLand
PROPERTIES ListCatchesUp PanesComeBack NeverClobbered WatchEnds SecretsKept
CHECK_DEADLOCK FALSE
