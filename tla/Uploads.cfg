CONSTANTS
  athenad = athenad
  sunnylinkd = sunnylinkd
  Daemons = {athenad, sunnylinkd}
  Handlers = {h1, h2}
  Callers = {c1}
  SunnyThreads = {h2}
  Of <- OfThread
  Urls = {u1}
  NoItem = NoItem
  MaxRetry = 1
  MaxAsks = 1
  MaxDrops = 1
  MaxCrashes = 1
SPECIFICATION FairSpec
INVARIANTS OnePlace
PROPERTIES CancelSticks Settled
CHECK_DEADLOCK FALSE
