SPECIFICATION Spec
CONSTANTS
  Parts = {"agent", "broker", "files", "layout"}
  AgentSteps = 3
  FileLinks = 1
  Plugins = {"connection-logger", "sftp", "mqtt"}
  MaxLinks = 2
  Labels = {"exec", "probe"}
  Alone = {}
  MaxAsks = 2
  UniqueIds = TRUE
  MaxCalls = 2
  MaxHistory = 4
  Brokers = {"b1", "b2"}
  Forwards = {1, 2}
  Items = {"a"}
  Kinds = {"action", "read", "list"}
  MaxQueue = 1
  MaxOrphans = 1
  FailedRows = 0
INVARIANT TypeOK
INVARIANT RequestsAreAccepted
INVARIANT OnlyLeftCommandsMixUp
INVARIANT StopsAreOfRunning
INVARIANT PaneHearsTheEnd
INVARIANT ContentIsCurrent
INVARIANT PanesAreUnique
INVARIANT CrashRestoresPanes
PROPERTY StoppedHadNotLanded
PROPERTY PanesStayOpen
CHECK_DEADLOCK FALSE
