CONSTANTS
  RcConfigs <- RouteConfigs
  RcLabel <- Labels
  RcContainer <- Containers
  FirstRetry = 1
  Retry = 2
  AgConfigs <- AgentConfigs
  MaxTable = 3
  PoConfigs <- PolicyConfigs
  MaxChanges = 3
  AlConfigs <- LookupConfigs
SPECIFICATION ManagementSpec
INVARIANT PolicyCounts
PROPERTIES RoutesCorrect AgentCorrect LookupCorrect
CHECK_DEADLOCK FALSE
