SPECIFICATION FairSpec
CONSTANTS
  p1 = p1
  p2 = p2
  NoPublisher = NoPublisher
  Publishers <- MCPublishers
  Env <- MCSignalAndCommands
CHECK_DEADLOCK FALSE
PROPERTY StopReachesDisconnect
