SPECIFICATION Spec
CONSTANTS
  base_frame_no = 8
  n_frames = 8
  FRAME_SIZE = 10
  MaxRequest = 3
  AnyOrder = TRUE
  HoleFirst = 16
  HoleLen = 0
INVARIANTS
  HeldIntact
