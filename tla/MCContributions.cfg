SPECIFICATION Spec
CONSTANTS
  ann = ann
  cur = cur
  cid = cid
  b1 = b1
  b2 = b2
  b3 = b3
  Users <- MCUsers
  Curators <- MCCurators
  Contributions = {c1, c2}
  Blocks <- MCBlocks
  SeedBlocks <- MCSeedBlocks
  Requests = {r1, r2}
  NoOne = NoOne
  NoBlock = NoBlock
  NoContribution = NoContribution
  SeedText = SeedText
  NoText = NoText
SYMMETRY Symmetric
INVARIANTS TypeOK LedgersAgree HistoryIntact
PROPERTIES SettledIsFinal AppendOnlyHistory
CHECK_DEADLOCK FALSE
