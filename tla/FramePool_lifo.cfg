SPECIFICATION Spec
CONSTANTS
  base_frame_no = 8
  n_frames = 10
  FRAME_SIZE = 6
  MaxRequest = 3
  AnyOrder = FALSE
  HoleFirst = 14
  HoleLen = 1
INVARIANTS
  HeldIntact
  NothingLeaks
  ReservedStay
PROPERTIES
  AllocatorSafe
