\* Three calls of one key under a moving clock; its owner moves both limits
\* between unlimited and two and may delete the key.
SPECIFICATION FairSpec
CONSTANTS
  k1 = k1
  r1 = r1
  r2 = r2
  r3 = r3
  NULL = NULL
  Keys = {k1}
  Requests = {r1, r2, r3}
  Window = 2
  MaxNow = 2
  Rpms = {0, 2}
  Caps = {0, 2}
  Quotas = {1}
  Tokens = {1}
INVARIANTS SlotsCounted CapRespected RpmRespected
PROPERTIES SlotsDrain SlotsSpec
\* Every request may be done, every key deleted and the clock at its bound.
CHECK_DEADLOCK FALSE
