SPECIFICATION FairSpec
CONSTANTS
  A = A
  R1 = R1
  R2 = R2
  C = C
  D = D
  Coordinator = A
  Routers = {R1, R2}
  EndDevices = {C, D}
  NoHop = NoHop
  LinkCost <- MCLinkCost
  Parent <- MCParent
  RouteCapacity = 3
  MaxDiscoveries = 2
  IdModulus = 3
  Radius = 3
  MaxFaults = 1
INVARIANTS FloodDiesOut NoBlackHole WayBackIsKnown

