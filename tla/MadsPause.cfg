CONSTANTS
  ButtonOwnsLateral = FALSE
  AllowAlways = FALSE
  NoMainCruise = FALSE
  SteeringMode = "pause"
  Happenings = {"initialize", "lkasButton", "pcmEnable", "commIssue", "bigModelFailed", "steerOverride", "pcmDisable", "doorOpen", "speedTooLow", "belowEngageSpeed", "stockLkasOff", "gas", "brake", "regen", "mainOff", "steerDisengage"}
  MaxHappenings = 2
  Speeds = {"stopped", "fast"}
  OnToggles = {"disengageOnAccel", "mainEnabled"}
  LiveToggles = {"unified"}
  SoftDisableFrames = 3
  MismatchFrames = 2
  LateralDisableFrames = 2
SPECIFICATION HSpec
INVARIANTS TypeOK BrakeEndsSteering MainOffEndsSteering StockLkasOffHolds SoftDisableFull
PROPERTIES LateralLossAnnounced BrakeHoldsPause PauseEndsWithItsCause
