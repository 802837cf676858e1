CONSTANTS
  DatabankSize = 3
  NULL = NULL
  Foreign = Foreign
  Levels <- MCLevels
  ApidBits <- MCBits
  LogApid <- MCLogApid
  Apids <- MCApids
  MaxSubscribers = 2
  QueueSize = 2
  CounterMax = 1
  Subscriptions <- MCSubscriptions
  HandlerCalls <- MCHandlerCalls
SPECIFICATION RebootSpec
INVARIANT NothingLeaked
