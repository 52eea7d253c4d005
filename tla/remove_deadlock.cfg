\* With the monitor enabled a call of Remove may never return.
SPECIFICATION FairSpec
CONSTANTS
    h1 = h1
    u1 = u1
    u2 = u2
    bad = bad
    Uris <- OneUri
    BadUris = {}
    Handlers <- OneHandler
    Browser = browser
    Monitor = monitor
    None = none
    MaxInactive = 1
    MonitorEnabled = TRUE
PROPERTIES
    RemoveReturns
