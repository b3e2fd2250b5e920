\* One call of any kind and up to three attempts against one channel.
SPECIFICATION FairSpec
CONSTANTS
  p1 = p1
  p2 = p2
  p3 = p3
  r1 = r1
  r2 = r2
  key1 = key1
  Requests = {r1}
  Providers = {p1}
  Lanes = {key1}
  MaxAttempts = 3
  Cap <- MCCap
  OpenAi <- MCOpenAi
  Kinds = {"chat", "stream", "pass"}
  Threshold = 2
  MaxFails = 3
  MaxEdits = 1
  NULL = NULL
  Unused = Unused
  Deleted = Deleted
INVARIANTS InServiceIsSound FailsBacked
PROPERTIES CallsAnswered ChannelsSpec
CHECK_DEADLOCK FALSE
