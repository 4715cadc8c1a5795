SPECIFICATION Spec
CONSTANTS
  t1 = t1
  t2 = t2
  t3 = t3
  t4 = t4
  n1 = n1
  n2 = n2
  n3 = n3
  n4 = n4
  NULL = NULL
  Thread = {t1, t2, t3, t4}
  First = t1
  Returning = {t1, t2, t3, t4}
  Bursts = 1
  Killable = {t3, t4}
  Node = {n1, n2, n3, n4}
SYMMETRY NodeSymmetry
\* The kernel stops when the last thread has ended.
CHECK_DEADLOCK FALSE
INVARIANTS
  QueueShape
