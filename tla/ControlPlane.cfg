SPECIFICATION ControlPlaneSpec
CONSTANTS
  Connections = {c1, c2}
  Models = {m1, m2}
  VirtualModels = {v1}
  Users = {u1}
  u1 = u1
  Admins = {a1, a2}
  None = None
  Base = {c1, c2, m1, v1}
  BlockedLimit = 1
  MaxEdits = 2
  MaxRequests = 2
  MaxOperations = 3
  u2 = u2
  r1 = r1
  r2 = r2
  r3 = r3
INVARIANTS PublicationInvariant  RoutingIsConsistent
PROPERTIES   PricingIsSettled
CHECK_DEADLOCK FALSE
