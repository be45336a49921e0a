SPECIFICATION Spec
CONSTANTS
  w1 = w1
  w2 = w2
  c1 = c1
  c2 = c2
  a1 = a1
  a2 = a2
  None = None
  Workers <- TwoWorkers
  Cids <- TwoCids
  Addrs <- TwoAddrs
  InitialCredit = 6
  TimeFactor = 2
  VolFactor = 1
  Garbage <- LowGarbage
  Retries = TRUE
  MaxReqs = 5
SYMMETRY Symmetry
CHECK_DEADLOCK FALSE
INVARIANTS NeverOverdrawn 
