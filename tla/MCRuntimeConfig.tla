--------------------------- MODULE MCRuntimeConfig ---------------------------
\* RuntimeConfig with requests that set one secret, two of them, or the mappings.
EXTENDS RuntimeConfig, TLC

CONSTANTS key, red, green, blue, custom, default

MCSecrets  == {key, red, green, blue}
MCPrefixed == {red, green, blue}
MCMappings == {custom, default}

Nothing == [apiKey |-> Empty, authToken |-> Unset, adminPassword |-> Unset,
            models |-> Unset, valid |-> TRUE]

SetToken(s)    == [Nothing EXCEPT !.authToken = s]
SetPassword(s) == [Nothing EXCEPT !.adminPassword = s]

MCRequests ==
    {SetToken(key), SetToken(red), SetToken(Empty), SetPassword(red), SetPassword(blue),
     [Nothing EXCEPT !.authToken = red, !.adminPassword = red],
     [Nothing EXCEPT !.apiKey = green],
     [Nothing EXCEPT !.models = Empty], [Nothing EXCEPT !.models = custom],
     [SetToken(green) EXCEPT !.valid = FALSE]}
=============================================================================
