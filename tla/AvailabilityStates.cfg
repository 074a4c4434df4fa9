SPECIFICATION Spec
CONSTANTS
  QueueSize = 2
  MaxPending = 2
  d1 = d1
  Traffic = Traffic
  None = None
  Detached <- MCDetached
  Envs <- MCEverything
CHECK_DEADLOCK FALSE
INVARIANT TypeOK
INVARIANT StopEndsOffline
PROPERTY BirthIsAnswered
PROPERTY NewConnectionMakesReady
PROPERTY StopEndsConnection
