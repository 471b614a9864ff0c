\* A connection while the one before it winds down, with and without TLS.
CONSTANTS
    MaxConns = 2
    MaxOpen = 1
    MaxEvents = 2
    Workers = 1
    Timeout = 1
    TlsModes = {TRUE, FALSE}
SPECIFICATION FairSpec
PROPERTIES OnlyIdleExpire ConnectionEnds ServerStops
\* Every connection ends and the server may be stopped.
CHECK_DEADLOCK FALSE
