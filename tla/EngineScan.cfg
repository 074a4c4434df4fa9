SPECIFICATION FairSpec
CONSTANTS
  a = a
  b = b
  xa = xa
  xb = xb
  v1 = v1
  v2 = v2
  NoValue = NoValue
  Names <- MCNames
  Topics <- MCPlainTopics
  Slug <- MCPlain
  Values <- MCOneValue
  Envs <- MCContainers
INVARIANT TypeOK
INVARIANT NothingLeftBehind
INVARIANT NothingUnannounced
PROPERTY NewContainersAnnounced
PROPERTY RemovedContainersForgotten
