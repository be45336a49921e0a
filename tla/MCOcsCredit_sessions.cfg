SPECIFICATION Spec
CONSTANTS
  w1 = w1
  w2 = w2
  c1 = c1
  c2 = c2
  a1 = a1
  a2 = a2
  None = None
  Workers <- TwoWorkers
  Cids <- TwoCids
  Addrs <- TwoAddrs
  InitialCredit = 7
  TimeFactor = 3
  VolFactor = 1
  Garbage <- ZeroGarbage
  Retries = FALSE
  MaxReqs = 5

CHECK_DEADLOCK FALSE
INVARIANTS LedgersAgree RecordPerSession
