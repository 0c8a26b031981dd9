SPECIFICATION MCSpec
CONSTANTS
  Users = {ann, bob}
  Cron = Cron
  Ops = {op}
  NoOne = NoOne
  HOUR = 2
  DAY = 4
  D1_WINDOW = 1
  H1_WINDOW = 0
  RP_WINDOW = 1
  STATUS_COMPLETE_AFTER = 2
  Starts = {0, 7}
  Horizon = 5
  MaxRun = 2
  MaxFailures = 1
  LivePosts = {p1}
  Syncs = {s1, s2}
  Pages = {q1}
  IN_PROGRESS = 1
  ARCHIVE = 2
  NOTIFY_WINDOW = 1
  MaxLost = 1
  MaxSlips = 1
SYMMETRY Symmetric
INVARIANTS TypeOK OnceEach OneLostPerFailure EveryoneReminded UpdatesSpaced RecapsInTime
