\* The parts of the platform side by side, one of them moving in each behaviour.
SPECIFICATION MCSpec
CONSTANTS
  Emails = {e2, e3}
  Tokens = {t1, t2, t3}
  States = {s}
  Requests = {p, q}
  NoOne = NoOne
  Free = Free
  Invitees = {d, e, f}
  Invites = {i1, i2, i3}
  Admins = {m, n}
  SeatLimit = 3
  Members = {m}
  Keys = {k}
  Processes = {x, y}
  NoInvitee = NoInvitee
  NoAuthorization = NoAuthorization
  Workspaces = {w1, w2}
  Authorizations = {n1, n2}
  Procs = {p1, p2}
  MaxToken = 3
  Agents = {g}
  Fields = {f1, f2}
  Nullable = {f1}
  Servers = {n3, n4}
  Calls = {c1, c2}
  MaxVersion = 3
  Sources = {z}
  Subs = {b1, b2}
  WatchJobs = {j1, j2}
  Lives = {1, 3}
  MaxChannel = 3
  MaxTime = 5
  NoTenant = NoTenant
  NoVisitor = NoVisitor
  Tenants = {x1, x2}
  People = {u1, u2}
  Visits = {r1}
  Pool = {l1}
  KeyScopes <- MCKeyScopes
  Served <- EveryRoute
  push1 = push1
  push2 = push2
  one = one
  two = two
  Runs <- MCRuns
  Payloads <- MCPayloads
  AgentOf <- MCAgent
  ShaOf <- MCSha
  TaskOf <- MCTask
  Passes <- MCPasses
  Distance <- MCDistance
  Threshold = 0
  Pushes = {1}
  Jobs = {1, 2, 3}
  GateTries = 2
  MaxPushes = 2
  NoRun = NoRun
  NoCluster = 0
INVARIANTS OneLiveToken EndedIsOver SeatsHold NewestTokenIsKept InstalledWhileConnected AcceptedEditsSurvive ConnectorsAreDeclared WatchedStaysWatched GoneIsUnwatched OnlyOwnRowsMet AdmittedRequestsWork EvidenceCountedOnce OneClusterPerTask
\* The bounds stop every part in the end.
CHECK_DEADLOCK FALSE
