SPECIFICATION HostsSpec
SYMMETRY MCClients
CONSTANTS
  None = None DefaultSet = DefaultSet
  k1 = k1 k2 = k2 p1 = p1 p2 = p2 a1 = a1 n1 = n1 s1 = s1 pw1 = pw1 pw2 = pw2 e1 = e1 e2 = e2 c1 = c1 c2 = c2
  Slugs = {"box"} MaxSuffix = 5 Clients = {c1, c2} WantedIds <- MCWanted
  Creds = {1, 2} Keys = {k1, k2} Endpoints = {e1, e2} Agents = {a1}
  ProfileIds = {p1, p2} ContainerNames = {n1} Slices <- MCSlices SecretKeys = {s1}
  Passwords = {pw1, pw2} Installs <- MCInstalls
  Asked <- MCAsked MaxWrites = 2 MaxReads = 1
  NoImage = NoImage
  Workers = {1, 2} Contexts = {1, 2} Builds = {1, 2}
  MaxStarts = 2 MaxMishaps = 1
  Unset = Unset HostSet = HostSet b1 = b1 b2 = b2 q1 = q1 q2 = q2 g1 = g1 g2 = g2
  Boxes = {b1, b2} Custom = {b2} Profiles = {q1, q2} Refs = {g1, g2} Starters = {1, 2}
  Drafts <- MCDrafts Drafted <- MCDrafted MaxEdits = 1 MaxRuns = 2 MaxTroubles = 1
  EnvKey = "env" NoConfig = NoConfig Garbage = Garbage m1 = m1 Files <- MCFiles Words <- MCWords
  MaxBoots = 3 MaxUserEdits = 1 MaxHands = 1 MaxBootFailures = 1
  Users = {1, 2} Slots = {1, 2} MaxAttempts = 2 MaxAsked = 2 MaxCuts = 2
CHECK_DEADLOCK FALSE
INVARIANTS CacheIsCurrent WholeUnlessRaced NothingLeftBehind CacheIsHonest CookiesEnd Furnished MarkedIsThere TransportHolds
PROPERTIES BootLosesNothing CutOnlyWhenChanged NothingLostUnlessRaced LoginComesAcross
