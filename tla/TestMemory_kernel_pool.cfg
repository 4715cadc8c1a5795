SPECIFICATION Spec
CONSTANTS
  base_frame_no = 14
  n_frames = 14
  FRAME_SIZE = 8
  MaxTests = 7
  InfoFrames = 2
  HoleFirst = 20
  HoleLen = 2
\* The kernel idles when the test is over.
CHECK_DEADLOCK FALSE
INVARIANTS
  MemoryIntact
  AllReleased
PROPERTIES
  TestEnds
