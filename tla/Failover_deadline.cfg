\* One call against one channel
SPECIFICATION FairSpec
CONSTANTS
  p1 = p1
  p2 = p2
  p3 = p3
  r1 = r1
  r2 = r2
  key1 = key1
  Requests = {r1}
  Providers = {p1}
  Lanes = {key1}
  MaxAttempts = 2
  Cap <- MCCap
  OpenAi <- MCOpenAi
  Kinds = {"chat"}
  Threshold = 2
  MaxFails = 3
  MaxEdits = 0
  NULL = NULL
  Unused = Unused
  Deleted = Deleted
PROPERTIES DeadlineBlamesSilent
CHECK_DEADLOCK FALSE
