\* Safety and refinement with the monitor enabled: one HTTP handler, the
\* browser, the monitor's runner and two devices.
SPECIFICATION Spec
CONSTANTS
    h1 = h1
    u1 = u1
    u2 = u2
    bad = bad
    Uris <- TwoUris
    BadUris = {}
    Handlers <- OneHandler
    Browser = browser
    Monitor = monitor
    None = none
    MaxInactive = 1
    MonitorEnabled = TRUE
SYMMETRY UriSymmetry
INVARIANTS
    TypeOK
    StoreConsistent
    MonitorConsistent
    PolledIffCached
    AddedExpireSilent
    OnlyReportsBlock
PROPERTIES
    ImplementsRegistry
