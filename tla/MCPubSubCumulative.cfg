CONSTANTS
  DatabankSize = 3
  NULL = NULL
  Foreign = Foreign
  Levels <- MCLevels
  ApidBits <- MCBits
  LogApid <- MCLogApid
  Apids <- MCApids
  MaxSubscribers = 2
  QueueSize = 1
  CounterMax = 1
  Subscriptions <- MCSubscriptions
  HandlerCalls <- MCHandlerCalls
SPECIFICATION Spec
PROPERTY OverflowCumulative
