SPECIFICATION Spec
CONSTANTS
  p1 = p1
  p2 = p2
  NoPublisher = NoPublisher
  Publishers <- MCPublishers
  Env <- MCEverything
CHECK_DEADLOCK FALSE
INVARIANT AtMostOnePublisher
INVARIANT ManagerMatchesPublisher
INVARIANT LastStatusIsApplied
INVARIANT ChannelFollowsConnection
INVARIANT QuietOnceStopped
PROPERTY ImplementsSupervisor
