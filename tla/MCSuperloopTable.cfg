CONSTANTS
  DatabankSize = 3
  NULL = NULL
  Foreign = Foreign
  Levels <- MCLevels
  ApidBits <- MCBits
  LogApid <- MCLogApid
  Apids = {}
  MaxSubscribers = 1
  QueueSize = 2
  CounterMax = 0
  Subscriptions <- MCSubscriptions
  HandlerCalls <- MCHandlerCalls
  Sensors <- MCSensors
  PacketFirst <- MCFirst
  SensorApid <- MCSensorApid
  MaxServices = 4
  SeqMod = 1
  CallbackLines = 2
SPECIFICATION SysSpec
INVARIANT RegisteredIsSubscribed
