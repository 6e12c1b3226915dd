SPECIFICATION Spec
CONSTANTS
  c1 = c1
  c2 = c2
  c3 = c3
  i1 = i1
  i2 = i2
  i3 = i3
  Clients <- ThreeClients
  Instances <- ThreeInstances
  Nobody = Nobody
  Builds <- TwoBuilds
  BuildOf <- Upgrade
  MaxConnections = 1
  MaxKills = 2
INVARIANT OneWriter
INVARIANT EndpointKept
INVARIANT SpawnedOwnerWins
INVARIANT NoLeakedOwner
SYMMETRY Symmetry
CHECK_DEADLOCK FALSE
