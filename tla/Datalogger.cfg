CONSTANTS
  FlushEvery = 4
  CounterMod = 10
  QueueSize = 3
SPECIFICATION DlSpec
INVARIANTS DlTypeOK BoundedLoss OpenOnCard ReleasedCard FeedbackBounded
PROPERTY StormEnds
