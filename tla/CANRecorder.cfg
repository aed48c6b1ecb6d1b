SPECIFICATION Spec
CONSTANTS
  Points <- MCPoints
  CAN_FRAMES_TO_WAIT = 2
  NET_FRAME_ALLOCSZ = 64
  Lens = {0, 10, 100}
  Frames = 3
INVARIANTS
  TypeOK
  PointWhole
