\* A restored device is removed although its polls succeed.
SPECIFICATION Spec
CONSTANTS
    h1 = h1
    u1 = u1
    u2 = u2
    bad = bad
    Uris <- OneUri
    BadUris = {}
    Handlers <- OneHandler
    Browser = browser
    Monitor = monitor
    None = none
    MaxInactive = 1
    MonitorEnabled = TRUE
INVARIANTS
    KeptWhileAlive
