\* Two PUT requests at a time; each leaves out what the other sets.
CONSTANTS
    Admins = {p1, p2}
    Empty = Empty
    Unset = Unset
    key = key
    red = red
    green = green
    blue = blue
    custom = custom
    default = default
    Secrets <- MCSecrets
    Prefixed <- MCPrefixed
    Mappings <- MCMappings
    EnvKey = key
    EnvToken = Empty
    EnvModels = default
    Requests <- MCRequests
    MaxPuts = 3
SPECIFICATION Spec
PROPERTY UnsetFieldsKept
CHECK_DEADLOCK FALSE
