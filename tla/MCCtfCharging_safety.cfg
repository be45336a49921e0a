SPECIFICATION Spec
CONSTANTS
  a = a
  b = b
  w1 = w1
  w2 = w2
  timer = timer
  Nil = Nil
  Calls <- TwoCalls
  Workers <- OneWorker
  Interval = 2
  Grants <- SomeGrants
  Garbage <- AnyGarbage
  MaxUsed = 3
  SendFails = TRUE
INVARIANT NoSecondTwice
PROPERTIES KeepsPromise 
CHECK_DEADLOCK FALSE
