SPECIFICATION VisitsSpec
CONSTANTS
  None = None
  web = web s1 = s1 s2 = s2
  Panes = {web} Conns = {s1, s2}
  LookLimit = 2 MaxTrouble = 1 MaxVisits = 1
INVARIANTS NothingLeaks OnlyTheUserKills
PROPERTIES ExitIsHonest KillArrives PaneRecovers StartIsOffered
CHECK_DEADLOCK FALSE
