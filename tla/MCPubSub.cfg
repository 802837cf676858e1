CONSTANTS
  DatabankSize = 4
  NULL = NULL
  Foreign = Foreign
  Levels <- MCLevels
  ApidBits <- MCBits
  LogApid <- MCLogApid
  Apids <- MCApids
  MaxSubscribers = 2
  QueueSize = 2
  CounterMax = 1
  Subscriptions <- MCSubscriptions
  HandlerCalls <- MCHandlerCalls
SPECIFICATION Spec
INVARIANTS TypeOK RingConsistent SubsSorted HandlerPacketLive OwnedOnce LogGuard StackBounded
PROPERTIES ImplementsDelivery NoSilentDrop
