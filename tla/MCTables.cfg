CONSTANTS
  Node = {1, 2, 3}
  MaxLinkCost = 2
  LinkMaps <- Maps
  Bit = {1, 2, 3}
  Conn = {1}
  Router = {"B"}
  Addr = {"a"}
  MaxCost = 3
  MaxRouters = 9
  PTTypes = {"amqp", "mqtt"}
  PTKeys <- Patterns
  PTValues <- Values
  MaxPatterns = 2
  XConfigs <- Exchanges
  BNames = {"none"}
  Hop = {"h", "k"}
  Consumed = {"h", "k"}
  XKeys <- BindingKeys
  Subjects <- SomeSubjects
  MaxBindings = 2
  LpConfigs <- LinkConfigs
  LpTermini <- Termini
  ApConfigs <- PoolConfigs
  CHUNK_SIZE = 2
  ItConfigs <- ViewConfigs
  HtConfigs <- TableConfigs
  CdConfigs <- CodecConfigs
  AnConfigs <- AnnotationConfigs
  SxConfigs <- SectionConfigs
SPECIFICATION TablesSpec
INVARIANTS TreeCanonical TablesExact BitsAccounted PatternsExact ExchangeSound LinksAsConfigured
           PoolSound IteratorSound TableExact CodecSound AnnotationsSound SectionsSound
CHECK_DEADLOCK FALSE
