CONSTANTS
  MSConfigs <- StreamConfigs
  Upper = 3
  Lower = 2
  Window = 2
  Periodic = {"p"}
  Single = {"a"}
  TMConfigs <- Delays
  MaxLag = 2
  CTConfigs <- ConnectorConfigs
  MaxLeaving = 2
  OLConfigs <- OutConfigs
  ILConfigs <- InConfigs
  HbConfigs <- BeatConfigs
  RsConfigs <- RelayConfigs
SPECIFICATION ServicesSpec
INVARIANTS OutLinkSound CreditKept
PROPERTIES StreamCorrect TimersCorrect ConnectorCorrect HeartbeatCorrect RelayCorrect OutLinkAnswers
CHECK_DEADLOCK FALSE
