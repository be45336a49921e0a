SPECIFICATION Spec
CONSTANTS
  r1 = r1
  r2 = r2
  w1 = w1
  w2 = w2
  m1 = m1
  m2 = m2
  m3 = m3
  m4 = m4
  None = None
  Receivers <- MCReceivers
  Waited = {r1}
  Workers <- MCWorkers
  Msgs <- FourMsgs
  Max = 3
  SemInit = 2
  MaxSignals = 1
SYMMETRY Symmetry
CHECK_DEADLOCK FALSE
PROPERTY ImplementsFifo
INVARIANTS InOnePlace NoLostWakeup
