SPECIFICATION TenancySpec
CONSTANTS
  w1 = w1
  w2 = w2
  u1 = u1
  u2 = u2
  x1 = x1
  c1 = c1
  NoTenant = NoTenant
  NoVisitor = NoVisitor
  Tenants = {w1, w2}
  People = {u1, u2}
  Visits = {x1}
  Pool = {c1}
  KeyScopes <- MCKeyScopes
  Served <- OverrideRoute
INVARIANT OverrideReachesSkill
