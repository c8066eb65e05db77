SPECIFICATION Spec
CONSTANTS
  In = in
  o1 = o1
  o2 = o2
  Out = {o1, o2}
  Configs <- SafetyConfigs
INVARIANTS DeliverySound OutcomeReported
CHECK_DEADLOCK FALSE
