CONSTANTS
  ButtonOwnsLateral = TRUE
  AllowAlways = TRUE
  NoMainCruise = TRUE
  SteeringMode = "disengage"
  Happenings = {"initialize", "lkasButton", "pcmEnable", "pcmDisable", "buttonCancel", "mainOff", "brake", "regen", "steerDisengage", "gas", "wrongGear", "steerOverride", "canError", "refuseControls", "refuseLateral"}
  MaxHappenings = 2
  Speeds = {"slow", "fast"}
  OnToggles = {"unified"}
  LiveToggles = {"disengageOnAccel"}
  SoftDisableFrames = 1
  MismatchFrames = 2
  LateralDisableFrames = 2
SPECIFICATION HSpec
INVARIANTS MismatchDisengages RefusalsBounded
PROPERTIES CruiseLeavesLateral LateralNeedsRequest
