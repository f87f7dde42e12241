CONSTANTS
  Kinds = {"openpilot"}
  Buttons = {"accel", "decel"}
  Limits = {1, 2}
  Offsets = {0, 1}
  Dashes = {0}
  VMin = 1
  VMax = 3
  Unset = 9
  VInitial = 2
  VEgo = 3
  LongStep = 2
  ConfirmThreshold = 2
  Agree = 0
  GuardFrames = 1
  PromptFrames = 2
  DialFrames = 3
  SettleFrames = 1
  LongPressFrames = 2
  CruiseLongPress = 3
  Inputs <- InputsOfKind
  MaxHeld = 1
SPECIFICATION Spec
CHECK_DEADLOCK FALSE
PROPERTIES FasterForCause ConfirmSaysAll
