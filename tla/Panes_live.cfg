SPECIFICATION FairSpec
CONSTANTS
  Parts = {"agent", "broker", "files"}
  AgentSteps = 3
  FileLinks = 2
  Plugins = {"connection-logger", "sftp", "mqtt"}
  MaxLinks = 2
  Labels = {"exec", "probe", "sample"}
  Alone = {"sample"}
  MaxAsks = 1
  UniqueIds = TRUE
  MaxCalls = 1
  MaxHistory = 3
  Brokers = {"b1", "b2"}
  Forwards = {1, 2}
  Items = {"a"}
  Kinds = {"zip", "action", "resolve"}
  MaxQueue = 1
  MaxOrphans = 0
  FailedRows = 1
PROPERTY DeadCommandsSettle
PROPERTY ForwardWaitEnds
PROPERTY QueueMoves
CHECK_DEADLOCK FALSE
