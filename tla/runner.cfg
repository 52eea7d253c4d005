\* The browser's runner: wake-ups and Stop, with and without ExitOnSuccess.
SPECIFICATION DiscFairSpec
CONSTANTS
    a1 = a1
    a2 = a2
    s1 = s1
    s2 = s2
    dev1 = dev1
    dev2 = dev2
    Awakers <- TwoAwakers
    Stoppers <- TwoStoppers
    Services <- TwoServices
    Browser = a1
INVARIANTS
    NoLostAwake
    StopIsFinal
    UnresolvedIsAwaited
PROPERTIES
    ChangeIsSeen
    CancelEndsStop
    AddedIsResolved
