SPECIFICATION HostSpec
CONSTANTS
  MaxLinks = 2
  DetailSteps = 3
  UpdateSteps = 5
  c1 = c1
  c2 = c2
  t1 = t1
  t2 = t2
  Labels = {"action", "logs", "inspect", "pull", "uinspect", "update"}
  Alone = {}
  MaxAsks = 4
  Boxes = {c1, c2}
  HostTabs = {t1, t2}
  MaxEvents = 3
  HistoryCap = 2
  MaxEntries = 3
INVARIANT HostTypeOK
INVARIANT UpdatesTakeTurns
PROPERTY CreditsWhatRan
PROPERTY FramesLogEverything
SYMMETRY HostSymmetry
CHECK_DEADLOCK FALSE
