\* Sweeps, gates and API keys, one of them moving in each behaviour.
SPECIFICATION MCSpec
CONSTANTS
  s1 = s1
  s2 = s2
  google = google
  slack = slack
  NoSweep = NoSweep
  NoSource = NoSource
  NoTask = NoTask
  Sources = {s1, s2}
  Opaque = {s1}
  SweepIds = {w1}
  Requests = {q1}
  Named <- SweepNames
  Anonymous = {}
  Tasks <- SweepTasks
  MaxTries = 2
  Provider <- TwoProviders
  Rank <- TwoRanks
  Chunks <- TwoChunks
  a = a
  b = b
  one = one
  two = two
  Runs <- MCRuns
  Payloads <- MCPayloads
  AgentOf <- MCAgent
  ShaOf <- MCSha
  TaskOf <- MCTask
  Passes <- MCPasses
  Distance <- MCDistance
  Threshold = 0
  Pushes = {p1}
  Jobs = {1, 2}
  GateTries = 2
  MaxPushes = 2
  NoRun = NoRun
  NoCluster = 0
  Invitees = {d}
  Invites = {i1}
  Admins = {m}
  SeatLimit = 1
  Members = {m}
  Keys = {k}
  Processes = {x, y}
  NoInvitee = NoInvitee
INVARIANT BackfilledIsWhole
PROPERTIES RunningSweepsEnd HistoryComesIn RunsAreJudged RevokedIsForgotten
CHECK_DEADLOCK FALSE
