SPECIFICATION ServerSpec
CONSTANTS
  None = None NoJob = NoJob NoKey = NoKey
  boot = boot u1 = u1 u2 = u2 d1 = d1 d2 = d2 good = good bad = bad torn = torn
  Clients = {boot, u1, u2} Boot = boot Torn = torn
  Ops <- MCOps Apply <- MCApply Valid <- MCValid
  Configs <- MCConfigs Default <- MCDefault Seed <- MCSeed
  MaxUpdates = 3 MaxFaults = 2 MaxCrashes = 2
  j1 = j1 p1 = p1 p2 = p2
  Jobs = {j1} Polls = {p1, p2}
  MaxLines = 2 MaxWritten = 3 MaxOpens = 2 MaxLost = 1
  node = node tools = tools c1 = c1 c2 = c2
  Keys = {node, tools} Syncs = {tools} Callers = {c1, c2}
  JobLimit = 2 MaxCalls = 3 MaxFailures = 1
INVARIANTS BootFindsValidFile LinesAreNewest JobsExclusive ReadyIsPresent
PROPERTIES StoresAtomically TailsFaithfully TailCompletes CallersAnswered
