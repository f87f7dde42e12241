CONSTANTS
  Kinds = {"openpilot"}
  Buttons = {"accel", "decel"}
  Limits = {2}
  Offsets = {0}
  Dashes = {0}
  VMin = 1
  VMax = 4
  Unset = 9
  VInitial = 2
  VEgo = 3
  LongStep = 2
  ConfirmThreshold = 3
  Agree = 0
  GuardFrames = 1
  PromptFrames = 3
  DialFrames = 3
  SettleFrames = 1
  LongPressFrames = 2
  CruiseLongPress = 3
  Inputs <- InputsOfKind
  MaxHeld = 1
SPECIFICATION Spec
CHECK_DEADLOCK FALSE
PROPERTY DropoutHoldsSession
