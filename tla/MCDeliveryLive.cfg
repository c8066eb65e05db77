SPECIFICATION Spec
CONSTANTS
  In = in
  o1 = o1
  o2 = o2
  Out = {o1, o2}
  Configs <- LiveConfigs
PROPERTIES SettlementSpreads EventuallyFreed
CHECK_DEADLOCK FALSE
