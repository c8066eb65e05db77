CONSTANTS
  CeConfigs <- EventConfigs
  AdConfigs <- AddressConfigs
  EaConfigs <- EdgeConfigs
  ErConfigs <- EdgeRouteConfigs
  Bit = {1, 2}
  Conn = {1, 2}
  Me = 1
  Router = {2, 3}
  Addr = {}
  MaxCost = 2
  Configs <- TrackerConfigs
SPECIFICATION ConnectionsSpec
INVARIANTS
  ContainerSound
  AddressesSound
  EdgeAddressesSound
  EdgeRoutesSound
  TrackerSound
CHECK_DEADLOCK FALSE
