\* Two PUT requests at a time, three in all, with crashes and failing saves.
CONSTANTS
    Admins = {p1, p2}
    Empty = Empty
    Unset = Unset
    key = key
    red = red
    green = green
    blue = blue
    custom = custom
    default = default
    Secrets <- MCSecrets
    Prefixed <- MCPrefixed
    Mappings <- MCMappings
    EnvKey = key
    EnvToken = Empty
    EnvModels = default
    Requests <- MCRequests
    MaxPuts = 3
SPECIFICATION FairSpec
INVARIANT TypeOK
INVARIANT SecretsDiffer
PROPERTY RestartServesAcknowledged
PROPERTY EveryPutReturns
CHECK_DEADLOCK FALSE
