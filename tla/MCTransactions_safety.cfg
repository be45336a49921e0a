SPECIFICATION Spec
CONSTANTS
  c1 = c1
  c2 = c2
  w1 = w1
  w2 = w2
  b1 = b1
  b2 = b2
  b3 = b3
  l1 = l1
  l2 = l2
  l3 = l3
  timer = timer
  Nil = Nil
  Callers <- TwoCallers
  TimerCallers <- NoCallers
  Workers <- OneWorker
  Blocks <- ThreeBlocks
  Locks <- TwoLocks
  MaxReqs = 3
  SendFails = TRUE
  Reuse = FALSE
SYMMETRY Symmetry
INVARIANTS TransactionsKept OwnAnswer
PROPERTIES EndsOnce
CHECK_DEADLOCK FALSE
