SPECIFICATION RecruitmentSpec
CONSTANTS
  Applicants = {ann, bob, cat}
  Requests = {r1, r2}
  Capacities <- MCCapacities
  NoCapacity = NoCapacity
  NoOne = NoOne
SYMMETRY Symmetric
INVARIANTS TypeOK FewSeatsOver
PROPERTIES SettledOnceFilled ImplementsPromise
