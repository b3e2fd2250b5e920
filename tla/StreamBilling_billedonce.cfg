\* One stream, one chunk: a counterexample to BilledOnce.
SPECIFICATION Spec
CONSTANTS
  s1 = s1
  s2 = s2
  Streams = {s1}
  MaxUse = 1
  MaxChunks = 1
  MaxEvents = 1
INVARIANT BilledOnce
CHECK_DEADLOCK FALSE
