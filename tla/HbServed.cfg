CONSTANTS
  Env = {"cycle", "offroad", "withdraw", "engage", "die", "fail", "ignition"}
  Ecus = {"silenced"}
  MaxAsks = 3
SPECIFICATION FairSpec
CHECK_DEADLOCK FALSE
PROPERTIES EndsHandedBack CycleServed OffroadServed
