CONSTANTS
  Addr = {"a", "b"}
  Configs <- MCConfigs
SPECIFICATION FairSpec
INVARIANTS TrackedWhileListed AbsoluteIsPublished MapMatchesSequence
PROPERTY Converges
CHECK_DEADLOCK FALSE
