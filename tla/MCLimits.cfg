CONSTANTS
  RcConfigs <- RouteConfigs
  RcLabel <- Labels
  RcContainer <- Containers
  FirstRetry = 1
  Retry = 2
  AgConfigs <- AgentConfigs
  MaxTable = 3
  PoConfigs <- UpdateConfigs
  MaxChanges = 3
  AlConfigs <- LookupConfigs
SPECIFICATION ManagementSpec
PROPERTIES LimitsHonoured
CHECK_DEADLOCK FALSE
