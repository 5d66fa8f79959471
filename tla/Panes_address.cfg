SPECIFICATION Spec
CONSTANTS
  AgentSteps = 3
  Parts = {"broker"}
  FileLinks = 1
  Plugins = {"connection-logger", "sftp", "mqtt"}
  MaxLinks = 2
  Labels = {"exec", "probe"}
  Alone = {}
  MaxAsks = 1
  UniqueIds = TRUE
  MaxCalls = 1
  MaxHistory = 2
  Brokers = {"b1", "b2"}
  Forwards = {1, 2}
  Items = {"a"}
  Kinds = {"zip", "action", "read", "resolve", "list"}
  MaxQueue = 1
  MaxOrphans = 1
  FailedRows = 1
PROPERTY DialsCurrentForward
CHECK_DEADLOCK FALSE
