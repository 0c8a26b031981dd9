SPECIFICATION RacesSpec
CONSTANTS
  Voters = {eve}
  Options = {o1, o2, o3}
  Ids = {i1, i2, i3, i4, i5}
  Ballots = {b1, b2}
  NoVoter = NoVoter
  NoOption = NoOption
  Actors = {ann, bob, cat, dan}
  Cap = 2
  Requests = {r1, r2}
  MaxRows = 2
  NoOne = NoOne
SYMMETRY Symmetric
INVARIANTS PollTypeOK OneVotePerRequest TypeOK FewUnreadRows ActorsAgree
