SPECIFICATION StalledSpec
CONSTANTS
  c1 = c1
  c2 = c2
  c3 = c3
  i1 = i1
  i2 = i2
  i3 = i3
  Clients <- TwoClients
  Instances <- TwoInstances
  Nobody = Nobody
  Builds <- TwoBuilds
  BuildOf <- SameBuild
  MaxConnections = 1
  MaxKills = 1
  g1 = g1
  g2 = g2
  Callers <- TwoCallers
  Permits = 1
PROPERTY ConnectEndsUnaided
PROPERTY OwnerRetiresUnaided
PROPERTY GitCallsEnd
INVARIANT NoStrayChildren
CHECK_DEADLOCK FALSE
