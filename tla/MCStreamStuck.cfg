CONSTANTS
  MSConfigs <- NowhereConfigs
  Upper = 3
  Lower = 2
  Window = 2
  Periodic = {"p"}
  Single = {"a"}
  TMConfigs <- Delays
  MaxLag = 2
  CTConfigs <- ConnectorConfigs
  MaxLeaving = 2
  OLConfigs <- OutConfigs
  ILConfigs <- InConfigs
  HbConfigs <- BeatConfigs
  RsConfigs <- RelayConfigs
SPECIFICATION ServicesSpec
PROPERTIES Received
CHECK_DEADLOCK FALSE
