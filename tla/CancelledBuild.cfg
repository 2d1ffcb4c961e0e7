SPECIFICATION JobsFairSpec
CONSTANTS
  NoKey = NoKey
  Keys = {node, tools} Syncs = {tools} Callers = {c1, c2}
  JobLimit = 2 MaxCalls = 3 MaxFailures = 1
PROPERTIES CancelIsHeard
