\* The browser finds a device before CacheStore.Start has run.
SPECIFICATION Spec
CONSTANTS
    u1 = u1
    u2 = u2
    h1 = h1
    Uris <- OneUri
    Handlers <- OneHandler
    Browser = browser
    Monitor = monitor
    Main = main
    None = none
INVARIANTS
    OneGoroutine
