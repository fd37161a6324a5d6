SPECIFICATION FairSpec
CONSTANTS
  A = A
  R1 = R1
  R2 = R2
  C = C
  D = D
  Coordinator = A
  Routers = {R1, R2}
  EndDevices = {C}
  NoHop = NoHop
  LinkCost <- MCLinkCost
  Parent <- MCParent
  RouteCapacity = 2
  MaxDiscoveries = 1
  IdModulus = 2
  Radius = 3
  MaxFaults = 2
INVARIANTS ReversePathLeadsBack
