CONSTANTS
  DatabankSize = 2
  NULL = NULL
  Foreign = Foreign
  Levels <- MCLevels
  ApidBits <- MCBits
  LogApid <- MCLogApid
  Apids = {}
  MaxSubscribers = 2
  QueueSize = 2
  CounterMax = 0
  Subscriptions <- MCSubscriptions
  HandlerCalls <- MCHandlerCalls
  Sensors <- MCSensors
  PacketFirst <- MCFirst
  SensorApid <- MCSensorApid
  MaxServices = 3
  SeqMod = 1
  CallbackLines = 2
SPECIFICATION SysSpec
INVARIANTS SysTypeOK AllAccounted EdgeKept OnlyRegisteredSubscribed
PROPERTIES FlagServed PacketRetired CallsReturn
