\* One call of up to two attempts against two channels, while the admin edits one.
SPECIFICATION Spec
CONSTANTS
  p1 = p1
  p2 = p2
  p3 = p3
  r1 = r1
  r2 = r2
  key1 = key1
  Requests = {r1}
  Providers = {p1, p2}
  Lanes = {key1}
  MaxAttempts = 2
  Cap <- MCCap
  OpenAi <- MCOpenAi
  Kinds = {"chat", "pass"}
  Threshold = 2
  MaxFails = 3
  MaxEdits = 1
  NULL = NULL
  Unused = Unused
  Deleted = Deleted
INVARIANTS AnswersAudited EveryoneTried CredentialsStayInside
CHECK_DEADLOCK FALSE
