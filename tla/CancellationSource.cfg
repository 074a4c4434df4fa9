SPECIFICATION LoopSpec
CONSTANTS
  t1 = t1
  t2 = t2
  t3 = t3
  w1 = w1
  w2 = w2
  NoToken = NoToken
  Tokens <- MCTokens
  Preissued <- MCNone
  Waiters <- MCWaiters
PROPERTY CancelSetsAll
PROPERTY ImplementsLatch
PROPERTY CancelStopsLoopingCallers
