\* Liveness without the monitor: an HTTP handler, the browser, one device
\* and one URI the store rejects.
SPECIFICATION FairSpec
CONSTANTS
    h1 = h1
    u1 = u1
    u2 = u2
    bad = bad
    Uris <- BadToo
    BadUris <- OnlyBad
    Handlers <- OneHandler
    Browser = browser
    Monitor = monitor
    None = none
    MaxInactive = 1
    MonitorEnabled = FALSE
INVARIANTS
    OnlyReportsBlock
PROPERTIES
    CallsReturn
    ImplementsRegistry
