SPECIFICATION Spec
CONSTANTS
  t1 = t1
  t2 = t2
  t3 = t3
  t4 = t4
  NULL = NULL
  Thread = {t1, t2, t3, t4}
  First = t1
  DiskUser = {t2}
  MAXV = 4
  NBlocks = 3
  Rounds = 4
  Prompts = {TRUE, FALSE}
\* With a late disk a thread that waits twice fills the ring; then yield
\* dispatches to NULL.
CHECK_DEADLOCK FALSE
INVARIANTS
  RingsSound
  NoThreadLost
  WriteDelivers
PROPERTIES
  OnlyOwnBlock
  WriteEnds
  StarvationFree
