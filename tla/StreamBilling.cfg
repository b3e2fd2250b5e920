\* One stream in depth: two chunks of up to two events, two tokens of usage.
SPECIFICATION FairSpec
CONSTANTS
  s1 = s1
  s2 = s2
  Streams = {s1}
  MaxUse = 2
  MaxChunks = 2
  MaxEvents = 2
INVARIANTS CompletedIsLogged FailedStreamBilledOnce UsageBilled VerdictMatchesLog
PROPERTIES EveryStreamLogged
CHECK_DEADLOCK FALSE
