SPECIFICATION MCSpec
CONSTANTS
  ann = ann
  bob = bob
  sam = sam
  A = A
  B = B
  t1 = t1
  t2 = t2
  t3 = t3
  t4 = t4
  x1 = x1
  x2 = x2
  x3 = x3
  Members <- MCMembers
  Staff <- MCStaff
  Planners <- MCStaff
  Rooms <- MCRooms
  Owner <- MCOwner
  Parties <- MCParties
  Targets <- MCTargets
  Reports <- MCReports
  Bodies = {b1, b2}
  Requests = {r1, r2}
  Kept = {"POST", "DM", "REPORT"}
  Threshold <- MCThreshold
  Take = 2
  Enforce = TRUE
  None = None
SYMMETRY Symmetric
INVARIANTS TypeOK VerdictsAgree HiddenForCause GatesHold
PROPERTIES DeletedStaysDown
CHECK_DEADLOCK FALSE
