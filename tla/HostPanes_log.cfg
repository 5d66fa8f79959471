SPECIFICATION HostSpec
CONSTANTS
  DetailSteps = 1
  UpdateSteps = 1
  MaxLinks = 1
  Labels = {"action", "logs", "inspect", "pull", "uinspect", "update"}
  Alone = {}
  MaxAsks = 1
  Boxes = {"c1"}
  HostTabs = {1}
  MaxEvents = 3
  HistoryCap = 2
  MaxEntries = 4
INVARIANT LoggedOnce
CHECK_DEADLOCK FALSE
