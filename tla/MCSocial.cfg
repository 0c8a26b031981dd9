SPECIFICATION MCSpec
CONSTANTS
  ann = ann
  bob = bob
  pia = pia
  A = A
  B = B
  C = C
  p1 = p1
  p2 = p2
  p3 = p3
  p4 = p4
  x = x
  y = y
  k1 = k1
  k2 = k2
  e = e
  Members <- MCMembers
  Planners = {pia}
  Rooms = {A, B, C}
  Private = {B}
  Hiring = {A, B}
  Dormant = {C}
  Talk = {A, B}
  Owner <- MCOwner
  Blocks = {k1, k2}
  BlockOf <- MCBlockOf
  Unpublished = {k2}
  Cards = {e}
  Pinned <- MCPinned
  Linked <- MCLinked
  CardOf <- MCCardOf
  Over = {e}
  Posts = {p1, p2, p3, p4}
  Requests = {r1, r2}
  None = None
  Limit = 1
  Hubs <- MCHubs
  HubOf <- MCHubOf
  Replicas = {1, 2}
  Readers = {bob, pia}
  Batch = 2
  Cooldown = 2
  Week = 4
  Newcomers = {bob}
  UserCap = 2
  HubCap = 2
  Unlike = 2
  MaxFailures = 1
INVARIANTS TypeOK ListedIsOpenable WalkMissesFew NothingTwice
PROPERTIES TablesCatchUp
CHECK_DEADLOCK FALSE
