\* Two devices, each on a host of its own, one with its polls followed.
SPECIFICATION IdSpec
CONSTANTS
    d1 = d1
    d2 = d2
    hostA = hostA
    hostB = hostB
    x = x
    y = y
    unitA = unitA
    unitB = unitB
    Devices <- TwoDevices
    Hosts <- TwoHosts
    Addrs <- TwoAddrs
    HostOf <- OwnHost
    Units <- TwoUnits
    Polled <- OnePolled
    None = none
SYMMETRY UnitSymmetry
INVARIANTS
    CachedWasHeard
    AnswerWasHeard
    LiveIsKnown
    RecordsOfOwner
PROPERTIES
    IdIsStable
