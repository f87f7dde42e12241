CONSTANTS
  Env = {"cycle", "offroad", "stop", "engage", "die", "fail"}
  Ecus = {"silenced", "notNeeded"}
  MaxAsks = 4
SPECIFICATION FairSpec
CHECK_DEADLOCK FALSE
INVARIANTS OneInFlight RequestHasWaiter
PROPERTIES EndsHandedBack StopServed
