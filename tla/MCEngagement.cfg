SPECIFICATION MCSpec
CONSTANTS
  Members = {ann, bob}
  Emojis = {heart, fire}
  Folders = {f1, f2, f3}
  Names = {n1, n2, n3}
  MaxFolders = 1
  Replies = {x1, x2, x3}
  Requests = {r1, r2}
  Floor = 1
  None = None
SYMMETRY Symmetric
INVARIANTS TypeOK CountersAgree FiledAtHome
PROPERTIES ReplyCountOnlyFallsBehind
CHECK_DEADLOCK FALSE
