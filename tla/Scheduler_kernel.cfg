SPECIFICATION Spec
CONSTANTS
  t1 = t1
  t2 = t2
  t3 = t3
  t4 = t4
  n1 = n1
  n2 = n2
  n3 = n3
  n4 = n4
  NULL = NULL
  Thread = {t1, t2, t3, t4}
  First = t1
  Returning = {t1, t2}
  Bursts = 2
  Killable = {}
  Node = {n1, n2, n3, n4}
INVARIANTS
  TypeOK
  NoThreadLost
  FunctionsInterruptible
  NoAssertFails
  QueueMasked
  GracefulTermination
PROPERTIES
  NoResurrection
  FifoSafe
  StarvationFree
  ReturningEnd
  TimerLives
