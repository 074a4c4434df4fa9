SPECIFICATION FairSpec
CONSTANTS
  a = a
  b = b
  xa = xa
  xb = xb
  v1 = v1
  v2 = v2
  NoValue = NoValue
  Names <- MCNames
  Topics <- MCPrefixedTopics
  Slug <- MCPrefixed
  Values <- MCOneValue
  Envs <- MCRemoval
PROPERTY MissingDevicesRemoved
