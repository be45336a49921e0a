SPECIFICATION Spec
CONSTANTS
  c1 = c1
  c2 = c2
  w1 = w1
  w2 = w2
  b1 = b1
  b2 = b2
  b3 = b3
  l1 = l1
  l2 = l2
  l3 = l3
  timer = timer
  Nil = Nil
  Callers <- OneCaller
  TimerCallers <- OneCaller
  Workers <- OneWorker
  Blocks <- TwoBlocks
  Locks <- TwoLocks
  MaxReqs = 1
  SendFails = TRUE
  Reuse = FALSE

PROPERTIES CallsReturn
CHECK_DEADLOCK FALSE
