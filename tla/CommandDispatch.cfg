CONSTANTS
    web = web
    web_db = web_db
    None = None
    Names <- MCNames
    Name <- MCName
    Slug <- MCSlug
    Prefix <- MCPrefix
    Host <- MCHost
    Envs <- MCEnvs
SPECIFICATION Spec
INVARIANTS DiscoveryIsSound PressIsHeard
PROPERTIES CommandActsOnItsContainer SwitchIsShown CommandEnds
CHECK_DEADLOCK FALSE
