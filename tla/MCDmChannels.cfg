SPECIFICATION MCSpec
CONSTANTS
  Applicants = {ann}
  Proposals = {edit}
  Grace = 2
  MaxMessages = 2
  NoKey = NoKey
INVARIANT DmTypeOK
PROPERTIES RecruitmentGrace ClosedStaysQuiet EveryChannelCloses
