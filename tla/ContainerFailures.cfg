SPECIFICATION FailuresSpec
CONSTANTS
  None = None
  h1 = h1 h2 = h2 n1 = n1 v1 = v1 v2 = v2 node = node r1 = r1 r2 = r2 w1 = w1 w2 = w2
  Names = {n1} Versions = {v1, v2} Images = {node} Recipes = {node}
  ImageOf <- MCImageOf
  AutoStart = {v1}
  Hosts = {h1}
  Requests = {r1, r2} Runners = {w1, w2}
  Calls = {"create", "replace", "recreate", "start", "adopt"}
  Provisioned = {} DeletableHosts = {}
  OneAtATime = FALSE
  MaxCalls = 2 MaxFaults = 1 MaxCrashes = 0
INVARIANTS NoOrphans SettlesInTurn
PROPERTIES TasksEnd
