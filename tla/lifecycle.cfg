\* One restored or added device, a request, the browser, the monitor.
SPECIFICATION FairSpec
CONSTANTS
    u1 = u1
    u2 = u2
    h1 = h1
    Uris <- OneUri
    Handlers <- OneHandler
    Browser = browser
    Monitor = monitor
    Main = main
    None = none
INVARIANTS
    PolledByOne
    NothingAfterStop
    NothingAwaitedInVain
PROPERTY
    ShutdownEnds
