CONSTANTS
  Cameras = {c1, c2}
  Firsts = {1, 10}
  SegFrames = 7
  Gop = 2
  Slack = 6
  Patience = 3
  QueueFrames = 5
  Skew = 1
  MaxMishaps = 1
  MaxClock = 22
SPECIFICATION Spec
CHECK_DEADLOCK FALSE
SYMMETRY CameraSymmetry
INVARIANTS Whole RotatesWithTheLast
